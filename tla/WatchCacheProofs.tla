-------------------------- MODULE WatchCacheProofs --------------------------
(* Theorems about WatchCache, for every set of configurations, every finite  *)
(* set of rows and every set of clients.                                     *)
EXTENDS WatchCache, SequenceTheorems, FiniteSetTheorems, WellFoundedInduction, TLAPS

-----------------------------------------------------------------------------
(* Numbers, finite sets of them, and the subsequences they select. *)

\* A set of natural numbers has a least one: the form of induction that the
\* lemmas below use, on the set of counterexamples.
LEMMA LeastNumber ==
    ASSUME NEW T, T \subseteq Nat, T # {}
    PROVE  \E x \in T : \A y \in T : x <= y
<1> DEFINE R == OpToRel(<, Nat)
<1>1. IsWellFoundedOn(R, Nat)
      BY NatLessThanWellFounded
<1>2. \A x, y \in Nat : x < y => <<x, y>> \in R
      BY DEF OpToRel
<1> HIDE DEF R
<1>3. PICK x \in T : \A y \in T : ~(<<y, x>> \in R)
      BY <1>1, WFMin
<1>4. ASSUME NEW y \in T PROVE ~(y < x)
  <2>1. <<y, x>> \notin R
        BY <1>3
  <2>2. x \in Nat /\ y \in Nat
        OBVIOUS
  <2> QED BY <1>2, <2>1, <2>2, Zenon
<1>5. x \in Nat /\ \A y \in T : y \in Nat /\ ~(y < x)
      BY <1>4
<1> QED BY <1>5

\* A finite set of natural numbers that is not empty has a greatest one.
LEMMA GreatestNumber ==
    ASSUME NEW S, S \subseteq Nat, IsFiniteSet(S), S # {}
    PROVE  \E x \in S : \A y \in S : x >= y
<1> DEFINE Tops(A) == {x \in A : \A y \in A : x >= y}
           T == {Cardinality(A) : A \in {B \in SUBSET S : B # {} /\ Tops(B) = {}}}
<1>1. SUFFICES ASSUME Tops(S) = {} PROVE FALSE
      OBVIOUS
<1>2. Cardinality(S) \in T
      BY <1>1
<1>3. T \subseteq Nat
      BY FS_Subset, FS_CardinalityType
<1>4. PICK n \in T : \A m \in T : n <= m
      BY <1>2, <1>3, LeastNumber
<1>5. PICK A \in SUBSET S : A # {} /\ Tops(A) = {} /\ Cardinality(A) = n
      OBVIOUS
<1>6. PICK x : x \in A
      BY <1>5
<1> DEFINE B == A \ {x}
<1>7. IsFiniteSet(A) /\ IsFiniteSet(B) /\ Cardinality(A) \in Nat /\ Cardinality(B) = Cardinality(A) - 1
      BY <1>6, FS_Subset, FS_RemoveElement, FS_CardinalityType
<1>8. CASE B = {}
  <2>1. A = {x}
        BY <1>6, <1>8
  <2>2. x \in Nat
        BY <1>6
  <2>3. x \in Tops(A)
        BY <2>1, <2>2
  <2> QED BY <2>3, <1>5
<1>9. CASE B # {} /\ Tops(B) = {}
  <2>1. Cardinality(B) \in T
        BY <1>9
  <2> QED BY <2>1, <1>4, <1>5, <1>7
<1>10. CASE B # {} /\ Tops(B) # {}
  <2>1. PICK m \in Tops(B) : TRUE
        BY <1>10
  <2>2. m \in Nat /\ x \in Nat /\ A \subseteq Nat /\ m \in A /\ \A y \in A : y # x => m >= y
        BY <1>6, <2>1
  <2>3. CASE m >= x
    <3>1. m \in Tops(A)
          BY <2>2, <2>3
    <3> QED BY <3>1, <1>5
  <2>4. CASE x >= m
    <3>1. ASSUME NEW y \in A PROVE x >= y
      <4>1. y \in Nat /\ (y # x => m >= y)
            BY <2>2
      <4> QED BY <4>1, <2>2, <2>4
    <3>2. x \in Tops(A)
          BY <1>6, <3>1
    <3> QED BY <3>2, <1>5
  <2> QED BY <2>2, <2>3, <2>4
<1> QED BY <1>8, <1>9, <1>10

\* Max and Min are what they are called.
LEMMA MaxProperty ==
    ASSUME NEW S, S \subseteq Nat, IsFiniteSet(S), S # {}
    PROVE  Max(S) \in S /\ \A y \in S : Max(S) >= y
<1>1. \E x \in S : \A y \in S : x >= y
      BY GreatestNumber
<1> QED BY <1>1 DEF Max

LEMMA MinProperty ==
    ASSUME NEW S, S \subseteq Nat, S # {}
    PROVE  Min(S) \in S /\ \A y \in S : Min(S) <= y
<1>1. \E x \in S : \A y \in S : x <= y
      BY LeastNumber
<1> QED BY <1>1 DEF Min

LEMMA MaxOf ==
    ASSUME NEW S, S \subseteq Nat, IsFiniteSet(S), NEW m \in S, \A y \in S : y <= m
    PROVE  Max(S) = m
<1>1. Max(S) \in S /\ Max(S) >= m
      BY MaxProperty
<1>2. Max(S) \in Nat /\ m \in Nat /\ Max(S) <= m
      BY <1>1
<1> QED BY <1>1, <1>2

Below(S, x) == {y \in S : y < x}

\* The elements of a finite set of numbers are counted from below.
LEMMA NthExists ==
    ASSUME NEW S, S \subseteq Nat, IsFiniteSet(S), NEW i \in 1..Cardinality(S)
    PROVE  \E x \in S : Cardinality(Below(S, x)) = i - 1
<1> DEFINE Counted(A) == \A j \in 1..Cardinality(A) : \E x \in A : Cardinality(Below(A, x)) = j - 1
           T == {Cardinality(A) : A \in {B \in SUBSET S : ~Counted(B)}}
<1>1. SUFFICES ASSUME ~Counted(S) PROVE FALSE
      OBVIOUS
<1>2. Cardinality(S) \in T
      BY <1>1
<1>3. T \subseteq Nat
      BY FS_Subset, FS_CardinalityType
<1>4. PICK n \in T : \A m \in T : n <= m
  <2> HIDE DEF T
  <2> QED BY <1>2, <1>3, LeastNumber
<1>5. PICK A \in SUBSET S : ~Counted(A) /\ Cardinality(A) = n
      OBVIOUS
<1>6. IsFiniteSet(A) /\ Cardinality(A) \in Nat /\ A \subseteq Nat
      BY FS_Subset, FS_CardinalityType
<1>7. PICK j \in 1..Cardinality(A) : \A x \in A : Cardinality(Below(A, x)) # j - 1
      BY <1>5
<1>8. A # {}
      BY <1>6, <1>7, FS_EmptySet
<1>9. PICK m \in A : \A y \in A : m >= y
      BY <1>6, <1>8, GreatestNumber
<1> DEFINE B == A \ {m}
<1>10. IsFiniteSet(B) /\ Cardinality(B) = Cardinality(A) - 1
      BY <1>6, FS_RemoveElement
<1>11. Below(A, m) = B
  <2>1. ASSUME NEW y \in A PROVE y < m <=> y # m
        BY <1>6, <1>9
  <2> QED BY <2>1 DEF Below
<1>12. j # Cardinality(A)
      BY <1>7, <1>9, <1>10, <1>11
<1>13. j \in 1..Cardinality(B)
      BY <1>6, <1>7, <1>10, <1>12
<1>14. Counted(B)
  <2>1. SUFFICES ASSUME ~Counted(B) PROVE FALSE
        OBVIOUS
  <2>2. Cardinality(B) \in T
        BY <2>1
  <2> QED BY <2>2, <1>4, <1>5, <1>6, <1>10
<1>15. PICK x \in B : Cardinality(Below(B, x)) = j - 1
      BY <1>13, <1>14
<1>16. Below(A, x) = Below(B, x)
  <2>1. ~(m < x)
        BY <1>6, <1>9, <1>15
  <2> QED BY <2>1 DEF Below
<1> QED BY <1>7, <1>15, <1>16

LEMMA NthProperty ==
    ASSUME NEW S, S \subseteq Nat, IsFiniteSet(S), NEW i \in 1..Cardinality(S)
    PROVE  nth(S, i) \in S /\ Cardinality(Below(S, nth(S, i))) = i - 1
BY NthExists DEF nth, Below

LEMMA BelowGrows ==
    ASSUME NEW S, S \subseteq Nat, IsFiniteSet(S), NEW x \in S, NEW y \in S, x < y
    PROVE  /\ Cardinality(Below(S, x)) \in Nat
           /\ Cardinality(Below(S, x)) < Cardinality(Below(S, y))
           /\ Cardinality(Below(S, y)) < Cardinality(S)
<1>1. Below(S, x) \cup {x} \subseteq Below(S, y) /\ x \notin Below(S, x) /\ y \notin Below(S, y)
  <2>1. ASSUME NEW z \in S, z < x PROVE z < y
    <3>1. z \in Nat /\ x \in Nat /\ y \in Nat
          OBVIOUS
    <3> QED BY <2>1, <3>1
  <2>2. ~(x < x) /\ ~(y < y)
    <3>1. x \in Nat /\ y \in Nat
          OBVIOUS
    <3> QED BY <3>1
  <2> QED BY <2>1, <2>2 DEF Below
<1>2. /\ IsFiniteSet(Below(S, x)) /\ Cardinality(Below(S, x)) \in Nat
      /\ IsFiniteSet(Below(S, y)) /\ Cardinality(Below(S, y)) \in Nat
      /\ Below(S, y) \in SUBSET S
  <2>1. Below(S, x) \in SUBSET S /\ Below(S, y) \in SUBSET S
        BY DEF Below
  <2> QED BY <2>1, FS_Subset, FS_CardinalityType
<1>3. Cardinality(Below(S, x) \cup {x}) = Cardinality(Below(S, x)) + 1
      BY <1>1, <1>2, FS_AddElement
<1>4. Cardinality(Below(S, x) \cup {x}) <= Cardinality(Below(S, y))
      BY <1>1, <1>2, FS_Subset
<1>5. Cardinality(Below(S, y)) <= Cardinality(S) /\ Cardinality(Below(S, y)) # Cardinality(S)
      BY <1>1, <1>2, FS_Subset
<1>6. Cardinality(S) \in Nat
      BY FS_CardinalityType
<1> QED BY <1>2, <1>3, <1>4, <1>5, <1>6

\* The positions 1, 2, ... of a finite set of numbers: in order, and all of it.
LEMMA NthOrder ==
    ASSUME NEW S, S \subseteq Nat, IsFiniteSet(S),
           NEW i \in 1..Cardinality(S), NEW j \in 1..Cardinality(S), i < j
    PROVE  nth(S, i) < nth(S, j)
<1>0. Cardinality(S) \in Nat
      BY FS_CardinalityType
<1> DEFINE x == nth(S, i)
           y == nth(S, j)
<1>1. x \in S /\ y \in S /\ Cardinality(Below(S, x)) = i - 1 /\ Cardinality(Below(S, y)) = j - 1
      BY NthProperty
<1> HIDE DEF x, y
<1>2. x \in Nat /\ y \in Nat /\ i \in Nat /\ j \in Nat
      BY <1>0, <1>1
<1>3. ~(y < x)
  <2>1. y < x => Cardinality(Below(S, y)) < Cardinality(Below(S, x))
        BY <1>1, BelowGrows
  <2> QED BY <1>1, <1>2, <2>1
<1>4. x # y
      BY <1>1, <1>2
<1>5. x < y
      BY <1>2, <1>3, <1>4
<1> QED BY <1>5 DEF x, y

LEMMA NthOnto ==
    ASSUME NEW S, S \subseteq Nat, IsFiniteSet(S), NEW x \in S
    PROVE  \E i \in 1..Cardinality(S) : nth(S, i) = x
<1>0. Cardinality(S) \in Nat
      BY FS_CardinalityType
<1> DEFINE n == Cardinality(Below(S, x))
<1>1. n \in Nat /\ n < Cardinality(S)
  <2>1. Below(S, x) \in SUBSET S /\ x \notin Below(S, x)
    <3>1. ~(x < x)
      <4>1. x \in Nat
            OBVIOUS
      <4> QED BY <4>1
    <3> QED BY <3>1 DEF Below
  <2>2. IsFiniteSet(Below(S, x)) /\ n \in Nat
        BY <2>1, FS_Subset, FS_CardinalityType
  <2>3. n <= Cardinality(S) /\ n # Cardinality(S)
        BY <2>1, FS_Subset
  <2> QED BY <1>0, <2>2, <2>3
<1> DEFINE i == n + 1
<1>2. i \in 1..Cardinality(S) /\ i - 1 = n
      BY <1>0, <1>1
<1> HIDE DEF i
<1> DEFINE y == nth(S, i)
<1>3. y \in S /\ Cardinality(Below(S, y)) = n
      BY <1>2, NthProperty
<1> HIDE DEF y
<1>4. y \in Nat /\ x \in Nat
      BY <1>3
<1>5. x < y => n < Cardinality(Below(S, y))
      BY <1>3, BelowGrows
<1>6. y < x => Cardinality(Below(S, y)) < n
      BY <1>3, BelowGrows
<1>7. y = x
      BY <1>1, <1>3, <1>4, <1>5, <1>6
<1> QED BY <1>2, <1>7 DEF y

\* kept(s, S): the elements of s at the indices S, in their order.  sel is the
\* map from the new indices to the old ones.
LEMMA KeptProperty ==
    ASSUME NEW X, NEW s \in Seq(X), NEW S \in SUBSET (1..Len(s))
    PROVE  /\ kept(s, S) \in Seq(X)
           /\ \E sel \in [1..Len(kept(s, S)) -> S] :
                 /\ \A i \in 1..Len(kept(s, S)) : kept(s, S)[i] = s[sel[i]]
                 /\ \A i, j \in 1..Len(kept(s, S)) : i < j => sel[i] < sel[j]
                 /\ \A x \in S : \E i \in 1..Len(kept(s, S)) : sel[i] = x
<1>1. Len(s) \in Nat /\ \A i \in 1..Len(s) : s[i] \in X
      BY LenProperties
<1>2. S \subseteq Nat /\ IsFiniteSet(S)
  <2>1. IsFiniteSet(1..Len(s)) /\ 1..Len(s) \subseteq Nat
        BY <1>1, FS_Interval
  <2> QED BY <2>1, FS_Subset
<1> DEFINE n == Cardinality(S)
           sel == [i \in 1..n |-> nth(S, i)]
           t == kept(s, S)
<1>3. n \in Nat
      BY <1>2, FS_CardinalityType
<1>4. \A i \in 1..n : nth(S, i) \in S
      BY <1>2, NthProperty
<1>5. \A i, j \in 1..n : i < j => nth(S, i) < nth(S, j)
      BY <1>2, NthOrder
<1>6. \A x \in S : \E i \in 1..n : nth(S, i) = x
      BY <1>2, NthOnto
<1>7. t = [i \in 1..n |-> s[nth(S, i)]]
      BY DEF kept
<1> HIDE DEF n, t
<1>8. t \in [1..n -> X]
      BY <1>1, <1>4, <1>7
<1>9. t \in Seq(X) /\ Len(t) = n
      BY <1>3, <1>8
<1>10. /\ sel \in [1..n -> S]
       /\ \A i \in 1..n : t[i] = s[sel[i]]
       /\ \A i, j \in 1..n : i < j => sel[i] < sel[j]
       /\ \A x \in S : \E i \in 1..n : sel[i] = x
      BY <1>4, <1>5, <1>6, <1>7
<1> HIDE DEF sel
<1>11. \E g \in [1..Len(t) -> S] :
          /\ \A i \in 1..Len(t) : t[i] = s[g[i]]
          /\ \A i, j \in 1..Len(t) : i < j => g[i] < g[j]
          /\ \A x \in S : \E i \in 1..Len(t) : g[i] = x
      BY <1>9, <1>10
<1> QED BY <1>9, <1>11 DEF t

\* A finite set has an ordering, and an ordering is a sequence of all of it.
LEMMA OrderingsProperty ==
    ASSUME NEW S, IsFiniteSet(S)
    PROVE  /\ orderings(S) # {}
           /\ \A s \in orderings(S) :
                 /\ s \in Seq(S) /\ DOMAIN s = 1..Len(s) /\ Len(s) \in Nat
                 /\ \A i \in 1..Len(s) : s[i] \in S
                 /\ \A k \in S : \E i \in 1..Len(s) : s[i] = k
                 /\ \A i, j \in 1..Len(s) : s[i] = s[j] => i = j
<1> DEFINE n == Cardinality(S)
<1>1. n \in Nat /\ ExistsBijection(1..n, S)
      BY FS_CardinalityType
<1>2. orderings(S) = {s \in [1..n -> S] : \A k \in S : \E i \in DOMAIN s : s[i] = k}
      BY DEF orderings
<1> HIDE DEF n
<1>3. PICK f : f \in Bijection(1..n, S)
      BY <1>1 DEF ExistsBijection
<1>4. f \in orderings(S)
  <2>1. f \in [1..n -> S] /\ \A k \in S : \E i \in 1..n : f[i] = k
        BY <1>3 DEF Bijection, Injection, Surjection
  <2> QED BY <1>2, <2>1
<1>5. ASSUME NEW s \in orderings(S)
      PROVE /\ s \in Seq(S) /\ DOMAIN s = 1..Len(s) /\ Len(s) \in Nat
            /\ \A i \in 1..Len(s) : s[i] \in S
            /\ \A k \in S : \E i \in 1..Len(s) : s[i] = k
            /\ \A i, j \in 1..Len(s) : s[i] = s[j] => i = j
  <2>1. s \in [1..n -> S] /\ \A k \in S : \E i \in DOMAIN s : s[i] = k
        BY <1>2
  <2>2. s \in Seq(S) /\ Len(s) = n /\ DOMAIN s = 1..n
        BY <1>1, <2>1
  <2>3. s \in Surjection(1..n, S)
        BY <2>1 DEF Surjection
  <2>4. IsFiniteSet(1..n) /\ Cardinality(1..n) = n
        BY <1>1, FS_Interval
  <2>5. s \in Injection(1..n, S)
        BY <2>3, <2>4, FS_SurjSameCardinalityImpliesInj DEF n
  <2>6. \A i, j \in 1..n : s[i] = s[j] => i = j
        BY <2>5 DEF Injection, IsInjective
  <2> QED BY <1>1, <2>1, <2>2, <2>6
<1> QED BY <1>4, <1>5

LEMMA AscendingOrderings ==
    ASSUME NEW S, NEW by, NEW s \in ascending(S, by)
    PROVE  s \in orderings(S) /\ \A i, j \in DOMAIN s : i < j => by[s[i]] <= by[s[j]]
BY DEF ascending

LEMMA ImageFinite ==
    ASSUME NEW S, IsFiniteSet(S), NEW T, NEW f \in [S -> T]
    PROVE  IsFiniteSet({f[x] : x \in S})
<1> DEFINE R == {f[x] : x \in S}
<1>1. f \in Surjection(S, R)
      BY DEF Surjection
<1> QED BY <1>1, FS_Surjection

-----------------------------------------------------------------------------
(* Types. *)

LEMMA ConfigFacts ==
    ASSUME config \in Configs
    PROVE  /\ config \in Config
           /\ Versioned \in BOOLEAN /\ Incremental \in BOOLEAN /\ Described \in BOOLEAN
           /\ Incremental => Versioned
           /\ Tombstones # "none" => Incremental
           /\ Described => Tombstones # "none"
           /\ config.historySize \in Nat /\ config.firstStamp \in Nat /\ config.maxClock \in Nat
           /\ config.maxCuts \in Nat /\ config.maxRestarts \in Nat
           /\ config.firstStamp <= config.maxClock
BY ConfigAssumption DEF Config, Versioned, Incremental, Described, Tombstones, TombstoneKinds

LEMMA TypedFacts ==
    ASSUME TypeOK
    PROVE  /\ clock \in Nat /\ config.firstStamp <= clock /\ clock <= config.maxClock
           /\ Versioned \in BOOLEAN /\ Incremental \in BOOLEAN /\ Described \in BOOLEAN
           /\ config.historySize \in Nat /\ config.firstStamp \in Nat /\ config.maxClock \in Nat
           /\ config.maxCuts \in Nat /\ config.maxRestarts \in Nat
           /\ cache.items \in Rows /\ cache.highestVersion \in Nat /\ cache.version \in Nat
           /\ cache.epoch \in Nat /\ cache.history \in Seq(Step) /\ cache.forgotStalled \in Nat
           /\ cache.polled \in BOOLEAN /\ cache.lightweight \in BOOLEAN
           /\ poll.since \in Nat /\ poll.asOf \in Nat /\ poll.rows \in Rows
           /\ poll.full \in BOOLEAN /\ poll.removed \in Seq(Tombstone)
           /\ rows \in Rows
           /\ faults.cuts \in Nat /\ faults.restarts \in Nat
<1>1. config \in Configs
      BY DEF TypeOK
<1>2. /\ Versioned \in BOOLEAN /\ Incremental \in BOOLEAN /\ Described \in BOOLEAN
      /\ config.historySize \in Nat /\ config.firstStamp \in Nat /\ config.maxClock \in Nat
      /\ config.maxCuts \in Nat /\ config.maxRestarts \in Nat
      BY <1>1, ConfigFacts
<1>3. cache \in Cache /\ poll \in Poll /\ rows \in Rows /\ clock \in config.firstStamp..config.maxClock
      /\ faults \in [cuts : 0..config.maxCuts, restarts : 0..config.maxRestarts]
      BY DEF TypeOK
<1> QED BY <1>2, <1>3, SMTT(30) DEF Cache, Poll

LEMMA NoRowsType == NoRows \in Rows
BY DEF NoRows, Rows

LEMMA FreshTypes ==
    /\ IdlePoll \in Poll
    /\ NewClient \in Client
    /\ \A n \in Nat : FreshCache(n) \in Cache /\ Len(FreshCache(n).history) = 0
BY NoRowsType, EmptySeq DEF IdlePoll, NewClient, FreshCache, Poll, Client, Cache

LEMMA CacheEventType ==
    ASSUME NEW type \in ChangeTypes, NEW k \in Keys, NEW value \in Nat, NEW version \in Nat,
           NEW last \in Nat, NEW trimmed \in BOOLEAN
    PROVE  cacheEvent(type, k, value, version, last, trimmed) \in CacheEvent
BY DEF cacheEvent, CacheEvent

LEMMA TransitionType ==
    ASSUME NEW e \in CacheEvent
    PROVE  transition(e) \in WatchEvent
BY DEF transition, Event, CacheEvent, WatchEvent, ChangeTypes

LEMMA TransitionsType ==
    ASSUME NEW events \in Seq(CacheEvent)
    PROVE  transitions(events) \in Seq(WatchEvent)
<1> DEFINE all == [i \in DOMAIN events |-> transition(events[i])]
           S == {i \in DOMAIN events : sends(events[i])}
<1>1. Len(events) \in Nat /\ DOMAIN events = 1..Len(events) /\ \A i \in 1..Len(events) : events[i] \in CacheEvent
      BY LenProperties
<1>2. all \in [1..Len(events) -> WatchEvent]
      BY <1>1, TransitionType
<1>3. all \in Seq(WatchEvent) /\ Len(all) = Len(events)
      BY <1>1, <1>2
<1>4. S \in SUBSET (1..Len(all))
      BY <1>1, <1>3
<1> HIDE DEF all, S
<1>5. kept(all, S) \in Seq(WatchEvent)
      BY <1>3, <1>4, KeptProperty
<1> QED BY <1>5 DEF transitions, all, S

LEMMA DeletedSinceType ==
    ASSUME TypeOK, NEW since
    PROVE  deletedSince(since) \in Seq(Tombstone)
<1>1. tombs \in Seq(Tombstone)
      BY DEF TypeOK
<1>2. {i \in DOMAIN tombs : tombs[i].at > since} \in SUBSET (1..Len(tombs))
      BY <1>1, LenProperties
<1> QED BY <1>1, <1>2, KeptProperty DEF deletedSince

LEMMA RowsSinceType ==
    ASSUME TypeOK, NEW since
    PROVE  rowsSince(since) \in Rows
BY DEF TypeOK, rowsSince, Rows

LEMMA SelectedType ==
    ASSUME NEW items \in Rows
    PROVE  selected(items) \in Rows
BY DEF selected, Rows

LEMMA InitialEventsType ==
    ASSUME NEW items \in Rows, NEW version \in Nat
    PROVE  initialEvents(items, version) \in Seq(WatchEvent)
<1> DEFINE S == {k \in Keys : matches(items[k])}
           order == CHOOSE s \in orderings(S) : TRUE
           adds == [i \in DOMAIN order |->
                       Event("Added", order[i], items[order[i]], stamp(items[order[i]]))]
<1>1. IsFiniteSet(S)
      BY KeysAssumption, FS_Subset
<1>2. order \in orderings(S)
  <2>1. orderings(S) # {}
        BY <1>1, OrderingsProperty
  <2> QED BY <2>1, Zenon
<1>3. Len(order) \in Nat /\ DOMAIN order = 1..Len(order) /\ \A i \in 1..Len(order) : order[i] \in S
      BY <1>1, <1>2, OrderingsProperty
<1> HIDE DEF order
<1>4. \A i \in 1..Len(order) : order[i] \in Keys
      BY <1>3
<1>5. ASSUME NEW i \in 1..Len(order)
      PROVE Event("Added", order[i], items[order[i]], stamp(items[order[i]])) \in WatchEvent
  <2>1. items[order[i]] \in Nat
        BY <1>4 DEF Rows
  <2> QED BY <1>4, <2>1 DEF Event, stamp, WatchEvent, ChangeTypes
<1>6. adds \in [1..Len(order) -> WatchEvent]
      BY <1>3, <1>5
<1>7. adds \in Seq(WatchEvent)
      BY <1>3, <1>6
<1>8. Bookmark(version, TRUE) \in WatchEvent
      BY DEF Bookmark, WatchEvent
<1> HIDE DEF adds
<1>9. Append(adds, Bookmark(version, TRUE)) \in Seq(WatchEvent)
      BY <1>7, <1>8, AppendProperties
<1> QED BY <1>9 DEF initialEvents, adds, order

-----------------------------------------------------------------------------
(* What a poll makes of what it read. *)

LEMMA KeySetsFinite ==
    /\ IsFiniteSet(present) /\ IsFiniteSet(lost) /\ IsFiniteSet(present \cup lost)
    /\ present \subseteq Keys /\ lost \subseteq Keys
<1>1. present \in SUBSET Keys /\ lost \in SUBSET Keys
      BY DEF present, lost
<1> QED BY <1>1, KeysAssumption, FS_Subset

LEMMA LightenType ==
    ASSUME TypeOK
    PROVE  lightenLocked \in BOOLEAN
BY DEF TypeOK, Cache, lightenLocked

LEMMA MovedType ==
    ASSUME TypeOK, NEW k \in Keys
    PROVE  moved(k) \in CacheEvent
<1>1. cache.items[k] \in Nat /\ poll.rows[k] \in Nat /\ lightenLocked \in BOOLEAN
      BY LightenType DEF TypeOK, Cache, Poll, Rows
<1> QED BY <1>1, CacheEventType DEF moved, stamp, ChangeTypes

LEMMA RemovedFacts ==
    ASSUME TypeOK
    PROVE  /\ Len(poll.removed) \in Nat /\ DOMAIN poll.removed = 1..Len(poll.removed)
           /\ \A i \in 1..Len(poll.removed) :
                 /\ poll.removed[i] \in Tombstone
                 /\ poll.removed[i].key \in Keys /\ poll.removed[i].at \in Nat
                 /\ poll.removed[i].version \in Nat /\ poll.removed[i].row \in Nat
<1>1. poll.removed \in Seq(Tombstone)
      BY DEF TypeOK, Poll
<1>2. \A t \in Tombstone : t.key \in Keys /\ t.at \in Nat /\ t.version \in Nat /\ t.row \in Nat
      BY DEF Tombstone
<1> QED BY <1>1, <1>2, LenProperties

\* A row a full read lost leaves with the newest tombstone that describes it, or
\* with what the cache holds of it.
LEMMA GoneProperty ==
    ASSUME TypeOK, NEW k \in Keys
    PROVE  /\ gone(k) \in CacheEvent
           /\ gone(k).type = "Deleted" /\ gone(k).key = k /\ gone(k).value = 0
           /\ \/ /\ gone(k).version = stamp(cache.items[k])
                 /\ gone(k).last = cache.items[k]
              \/ /\ Described
                 /\ \E i \in 1..Len(poll.removed) :
                       /\ poll.removed[i].key = k
                       /\ gone(k).version = stamp(poll.removed[i].version)
                       /\ gone(k).last = poll.removed[i].row
<1> DEFINE told == {i \in DOMAIN poll.removed : poll.removed[i].key = k /\ Described}
<1>1. cache.items[k] \in Nat /\ lightenLocked \in BOOLEAN
      BY LightenType DEF TypeOK, Cache, Rows
<1>2. CASE told = {}
  <2>1. gone(k) = cacheEvent("Deleted", k, 0, stamp(cache.items[k]), cache.items[k], lightenLocked)
        BY <1>2 DEF gone
  <2>2. gone(k) \in CacheEvent
        BY <1>1, <2>1, CacheEventType DEF stamp, ChangeTypes
  <2> QED BY <2>1, <2>2 DEF cacheEvent
<1>3. CASE told # {}
  <2>1. told \subseteq Nat /\ IsFiniteSet(told)
    <3>1. told \in SUBSET (1..Len(poll.removed)) /\ Len(poll.removed) \in Nat
          BY RemovedFacts
    <3>2. IsFiniteSet(1..Len(poll.removed)) /\ 1..Len(poll.removed) \subseteq Nat
          BY <3>1, FS_Interval, SMTT(30)
    <3> QED BY <3>1, <3>2, FS_Subset
  <2>2. Max(told) \in told
    <3> HIDE DEF told
    <3> QED BY <1>3, <2>1, MaxProperty
  <2>3. PICK i \in told : i = Max(told)
        BY <2>2
  <2>4. i \in 1..Len(poll.removed) /\ poll.removed[i].key = k /\ Described
        BY <2>3, RemovedFacts
  <2>5. poll.removed[i].version \in Nat /\ poll.removed[i].row \in Nat
        BY <2>4, RemovedFacts
  <2>6. gone(k) = cacheEvent("Deleted", k, 0, stamp(poll.removed[i].version), poll.removed[i].row, FALSE)
        BY <1>3, <2>3 DEF gone
  <2>7. gone(k) \in CacheEvent
        BY <2>5, <2>6, CacheEventType DEF stamp, ChangeTypes
  <2> QED BY <2>4, <2>6, <2>7 DEF cacheEvent
<1> QED BY <1>2, <1>3

\* A full diff: the cache becomes what was read, every row that moved and every
\* row that was lost has an event of its own, and there is no other; versioned
\* events are ordered, the rows by their version and the deletions last.
LEMMA FullDiffProperty ==
    ASSUME TypeOK, NEW diff \in fullDiff
    PROVE  /\ diff.items = poll.rows
           /\ diff.events \in Seq(CacheEvent)
           /\ \A i \in 1..Len(diff.events) :
                 LET k == diff.events[i].key IN
                 /\ k \in present \cup lost
                 /\ diff.events[i] = IF k \in lost THEN gone(k) ELSE moved(k)
           /\ \A k \in present \cup lost : \E i \in 1..Len(diff.events) : diff.events[i].key = k
           /\ Versioned => \A i, j \in 1..Len(diff.events) : i < j /\ diff.events[j].key \in present =>
                 /\ diff.events[i].key \in present
                 /\ poll.rows[diff.events[i].key] <= poll.rows[diff.events[j].key]
                 /\ diff.events[i].key # diff.events[j].key
<1> DEFINE event(k) == IF k \in lost THEN gone(k) ELSE moved(k)
<1>1. PICK order \in diffOrders : diff = [items |-> poll.rows,
                                          events |-> [i \in DOMAIN order |-> event(order[i])]]
      BY DEF fullDiff
<1>2. present \cap lost = {}
      BY DEF present, lost
<1>3. ASSUME NEW k \in present \cup lost PROVE event(k) \in CacheEvent /\ event(k).key = k
  <2>1. k \in Keys
        BY KeySetsFinite
  <2> QED BY <2>1, GoneProperty, MovedType DEF moved, cacheEvent
<1>4. /\ order \in Seq(present \cup lost)
      /\ \A k \in present \cup lost : \E i \in 1..Len(order) : order[i] = k
      /\ Versioned => \A i, j \in 1..Len(order) : i < j /\ order[j] \in present =>
            order[i] \in present /\ poll.rows[order[i]] <= poll.rows[order[j]] /\ order[i] # order[j]
  <2>1. order \in orderings(present \cup lost)
        BY DEF diffOrders
  <2>2. DOMAIN order = 1..Len(order)
        BY <2>1, KeySetsFinite, OrderingsProperty
  <2>3. Len(order) \in Nat /\ \A i, j \in 1..Len(order) : i < j => order[i] # order[j]
        BY <2>1, KeySetsFinite, OrderingsProperty
  <2> QED BY <2>1, <2>2, <2>3, KeySetsFinite, OrderingsProperty DEF diffOrders
<1>5. Len(order) \in Nat /\ DOMAIN order = 1..Len(order) /\ \A i \in 1..Len(order) : order[i] \in present \cup lost
      BY <1>4, LenProperties
<1> HIDE DEF event
<1>6. diff.items = poll.rows /\ diff.events = [i \in 1..Len(order) |-> event(order[i])]
      BY <1>1, <1>5
<1>7. diff.events \in [1..Len(order) -> CacheEvent]
      BY <1>3, <1>5, <1>6
<1>8. diff.events \in Seq(CacheEvent) /\ Len(diff.events) = Len(order)
      BY <1>5, <1>7
<1>9. \A i \in 1..Len(order) : diff.events[i].key = order[i] /\ diff.events[i] = event(order[i])
      BY <1>3, <1>5, <1>6
<1> QED BY <1>4, <1>5, <1>6, <1>8, <1>9 DEF event

LEMMA HeldFacts ==
    ASSUME TypeOK
    PROVE  /\ readForward \in Rows
           /\ \A i \in 1..Len(poll.removed) : heldAt(i) \in Nat
<1>1. readForward \in Rows
      BY DEF TypeOK, Cache, Poll, Rows, readForward
<1>2. ASSUME NEW i \in 1..Len(poll.removed) PROVE heldAt(i) \in Nat
  <2>1. poll.removed[i].key \in Keys
        BY RemovedFacts
  <2> QED BY <1>1, <2>1 DEF heldAt, Rows
<1> QED BY <1>1, <1>2

LEMMA RemovalProperty ==
    ASSUME TypeOK, NEW i \in 1..Len(poll.removed)
    PROVE  /\ removal(i) \in CacheEvent
           /\ removal(i).type = "Deleted" /\ removal(i).key = poll.removed[i].key
           /\ removal(i).value = 0
<1> DEFINE t == poll.removed[i]
           held == heldAt(i)
           standsIn == held = 0 \/ (Described /\ lightenLocked)
<1>1. t.key \in Keys /\ t.version \in Nat /\ t.row \in Nat /\ held \in Nat /\ lightenLocked \in BOOLEAN
      BY RemovedFacts, HeldFacts, LightenType
<1>2. (lightenLocked /\ ~standsIn) \in BOOLEAN
      OBVIOUS
<1>3. removal(i) = cacheEvent("Deleted", t.key, 0, IF standsIn THEN t.version ELSE held,
                              IF standsIn THEN t.row ELSE held, lightenLocked /\ ~standsIn)
      BY DEF removal
<1> HIDE DEF t, held, standsIn
<1>4. removal(i) \in CacheEvent
      BY <1>1, <1>2, <1>3, CacheEventType, ZenonT(40) DEF ChangeTypes
<1>5. removal(i).type = "Deleted" /\ removal(i).key = t.key /\ removal(i).value = 0
      BY <1>3 DEF cacheEvent
<1> QED BY <1>4, <1>5 DEF t

\* A forward diff: the rows that moved, in the order of their versions, then the
\* tombstones that are news, in theirs.
LEMMA ForwardDiffProperty ==
    ASSUME TypeOK, NEW diff \in forwardDiff
    PROVE  /\ diff.items = [k \in Keys |->
                 IF \E i \in 1..Len(poll.removed) : poll.removed[i].key = k /\ takes(i)
                 THEN 0 ELSE readForward[k]]
           /\ diff.events \in Seq(CacheEvent)
           /\ \E m \in 0..Len(diff.events) :
                 /\ \A i \in 1..m : /\ diff.events[i].key \in present
                                    /\ diff.events[i] = moved(diff.events[i].key)
                 /\ \A k \in present : \E i \in 1..m : diff.events[i].key = k
                 /\ \A i, j \in 1..m : i < j =>
                       /\ poll.rows[diff.events[i].key] <= poll.rows[diff.events[j].key]
                       /\ diff.events[i].key # diff.events[j].key
                 /\ \E sel \in [1..(Len(diff.events) - m) -> 1..Len(poll.removed)] :
                       /\ \A i \in DOMAIN sel : reported(sel[i]) /\ diff.events[m + i] = removal(sel[i])
                       /\ \A i, j \in DOMAIN sel : i < j => sel[i] < sel[j]
                       /\ \A x \in 1..Len(poll.removed) : reported(x) =>
                             \E i \in DOMAIN sel : sel[i] = x
<1> DEFINE all == [i \in DOMAIN poll.removed |-> removal(i)]
           S == {i \in DOMAIN poll.removed : reported(i)}
           after == [k \in Keys |->
                       IF \E i \in DOMAIN poll.removed : poll.removed[i].key = k /\ takes(i)
                       THEN 0 ELSE readForward[k]]
           moves(order) == [i \in DOMAIN order |-> moved(order[i])]
           dels == kept(all, S)
<1>1. PICK order \in ascending(present, poll.rows) :
         diff = [items |-> after, events |-> moves(order) \o dels]
      BY DEF forwardDiff
<1>2. Len(poll.removed) \in Nat /\ DOMAIN poll.removed = 1..Len(poll.removed)
      BY RemovedFacts
<1>3. all \in [1..Len(poll.removed) -> CacheEvent]
      BY <1>2, RemovalProperty
<1>4. all \in Seq(CacheEvent) /\ Len(all) = Len(poll.removed)
      BY <1>2, <1>3
<1>5. S \in SUBSET (1..Len(all))
      BY <1>2, <1>4
<1>6. \A i \in 1..Len(poll.removed) : all[i] = removal(i)
      BY <1>2
<1> HIDE DEF all, S
<1>7. dels \in Seq(CacheEvent)
      BY <1>4, <1>5, KeptProperty
<1>8. PICK sel \in [1..Len(dels) -> S] :
         /\ \A i \in 1..Len(dels) : dels[i] = all[sel[i]]
         /\ \A i, j \in 1..Len(dels) : i < j => sel[i] < sel[j]
         /\ \A x \in S : \E i \in 1..Len(dels) : sel[i] = x
      BY <1>4, <1>5, KeptProperty
<1>9. sel \in [1..Len(dels) -> 1..Len(poll.removed)]
      BY <1>4, <1>5, <1>8
<1>10. \A i \in 1..Len(dels) : reported(sel[i]) /\ dels[i] = removal(sel[i])
  <2>1. \A i \in 1..Len(dels) : sel[i] \in S
        BY <1>8
  <2> QED BY <1>6, <1>8, <1>9, <2>1 DEF S
<1>11. \A x \in 1..Len(poll.removed) : reported(x) => \E i \in 1..Len(dels) : sel[i] = x
  <2>1. \A x \in 1..Len(poll.removed) : reported(x) => x \in S
        BY <1>2 DEF S
  <2> QED BY <1>8, <2>1
<1> HIDE DEF dels
<1>12. /\ order \in orderings(present)
       /\ \A i, j \in DOMAIN order : i < j => poll.rows[order[i]] <= poll.rows[order[j]]
      BY AscendingOrderings
<1>13. /\ DOMAIN order = 1..Len(order) /\ Len(order) \in Nat
       /\ \A i \in 1..Len(order) : order[i] \in present
       /\ \A k \in present : \E i \in 1..Len(order) : order[i] = k
       /\ \A i, j \in 1..Len(order) : order[i] = order[j] => i = j
      BY <1>12, KeySetsFinite, OrderingsProperty
<1> DEFINE n == Len(order)
           mv == moves(order)
<1>14. \A i \in 1..n : moved(order[i]) \in CacheEvent /\ moved(order[i]).key = order[i]
  <2>1. \A i \in 1..n : order[i] \in Keys
        BY <1>13, KeySetsFinite
  <2> QED BY <2>1, MovedType DEF moved, cacheEvent
<1>15. mv = [i \in 1..n |-> moved(order[i])]
      BY <1>13
<1> HIDE DEF mv, n
<1>16. mv \in [1..n -> CacheEvent]
      BY <1>14, <1>15
<1>17. n \in Nat
      BY <1>13 DEF n
<1>18. mv \in Seq(CacheEvent) /\ Len(mv) = n
      BY <1>16, <1>17
<1>19. diff.items = after /\ diff.events = mv \o dels
      BY <1>1 DEF mv
<1>20. /\ mv \o dels \in Seq(CacheEvent) /\ Len(mv \o dels) = Len(mv) + Len(dels)
       /\ \A i \in 1..(Len(mv) + Len(dels)) :
              (mv \o dels)[i] = IF i <= Len(mv) THEN mv[i] ELSE dels[i - Len(mv)]
      BY <1>7, <1>18, ConcatProperties
<1>21. Len(dels) \in Nat
      BY <1>7, LenProperties
<1>22. \A i \in 1..n : diff.events[i] = moved(order[i])
  <2>1. \A i \in 1..n : i \in 1..(Len(mv) + Len(dels)) /\ i <= Len(mv)
        BY <1>17, <1>18, <1>21
  <2> QED BY <1>15, <1>18, <1>19, <1>20, <2>1
<1>23. \A i \in 1..Len(dels) : diff.events[n + i] = dels[i]
  <2>1. \A i \in 1..Len(dels) : /\ n + i \in 1..(Len(mv) + Len(dels)) /\ ~(n + i <= Len(mv))
                                /\ (n + i) - Len(mv) = i
        BY <1>17, <1>18, <1>21
  <2> QED BY <1>19, <1>20, <2>1
<1>24. n \in 0..Len(diff.events) /\ Len(diff.events) - n = Len(dels) /\ DOMAIN sel = 1..Len(dels)
      BY <1>9, <1>17, <1>18, <1>19, <1>20, <1>21
<1>25. \A i \in 1..n : diff.events[i].key = order[i]
      BY <1>14, <1>22
<1>26. \A i \in 1..n : order[i] \in present
      BY <1>13 DEF n
<1>27. \A k \in present : \E i \in 1..n : order[i] = k
      BY <1>13 DEF n
<1>28. \A i, j \in 1..n : i < j => poll.rows[order[i]] <= poll.rows[order[j]] /\ order[i] # order[j]
  <2>1. \A i, j \in 1..n : i < j => order[i] # order[j]
        BY <1>13, <1>17 DEF n
  <2> QED BY <1>12, <1>13, <2>1 DEF n
<1>29. /\ \A i \in 1..n : diff.events[i].key \in present /\ diff.events[i] = moved(diff.events[i].key)
       /\ \A k \in present : \E i \in 1..n : diff.events[i].key = k
       /\ \A i, j \in 1..n : i < j => /\ poll.rows[diff.events[i].key] <= poll.rows[diff.events[j].key]
                                     /\ diff.events[i].key # diff.events[j].key
      BY <1>22, <1>25, <1>26, <1>27, <1>28
<1>30. /\ sel \in [1..(Len(diff.events) - n) -> 1..Len(poll.removed)]
       /\ \A i \in DOMAIN sel : reported(sel[i]) /\ diff.events[n + i] = removal(sel[i])
       /\ \A i, j \in DOMAIN sel : i < j => sel[i] < sel[j]
       /\ \A x \in 1..Len(poll.removed) : reported(x) => \E i \in DOMAIN sel : sel[i] = x
      BY <1>8, <1>9, <1>10, <1>11, <1>23, <1>24
<1>31. diff.events \in Seq(CacheEvent)
      BY <1>19, <1>20
<1>32. diff.items = [k \in Keys |->
                 IF \E i \in 1..Len(poll.removed) : poll.removed[i].key = k /\ takes(i)
                 THEN 0 ELSE readForward[k]]
      BY <1>2, <1>19
<1> HIDE DEF after
<1>33. \E g \in [1..(Len(diff.events) - n) -> 1..Len(poll.removed)] :
          /\ \A i \in DOMAIN g : reported(g[i]) /\ diff.events[n + i] = removal(g[i])
          /\ \A i, j \in DOMAIN g : i < j => g[i] < g[j]
          /\ \A x \in 1..Len(poll.removed) : reported(x) => \E i \in DOMAIN g : g[i] = x
      BY <1>30, Zenon
<1>34. n \in 0..Len(diff.events)
      BY <1>24
<1> HIDE DEF n
<1> QED BY <1>29, <1>31, <1>32, <1>33, <1>34, Zenon

LEMMA ForwardItems ==
    ASSUME TypeOK, NEW diff \in forwardDiff, NEW k \in Keys
    PROVE  diff.items[k] =
              IF \E i \in 1..Len(poll.removed) : poll.removed[i].key = k /\ takes(i)
              THEN 0 ELSE readForward[k]
<1>1. diff.items = [q \in Keys |->
              IF \E i \in 1..Len(poll.removed) : poll.removed[i].key = q /\ takes(i)
              THEN 0 ELSE readForward[q]]
      BY ForwardDiffProperty
<1> QED BY <1>1

\* The mark moves to the newest version among the rows and the tombstones read.
LEMMA MarkProperty ==
    ASSUME TypeOK
    PROVE  /\ markReached \in Nat
           /\ ~Versioned => markReached = 0
           /\ Versioned =>
                 /\ cache.highestVersion <= markReached
                 /\ \A k \in Keys : poll.rows[k] <= markReached
                 /\ \A i \in 1..Len(poll.removed) : poll.removed[i].version <= markReached
                 /\ \/ markReached = cache.highestVersion
                    \/ \E k \in Keys : markReached = poll.rows[k]
                    \/ \E i \in 1..Len(poll.removed) : markReached = poll.removed[i].version
<1> DEFINE A == {poll.rows[k] : k \in Keys}
           f == [i \in DOMAIN poll.removed |-> poll.removed[i].version]
           B == {poll.removed[i].version : i \in DOMAIN poll.removed}
           S == {cache.highestVersion} \cup (A \cup B)
<1>1. poll.rows \in [Keys -> Nat] /\ cache.highestVersion \in Nat
      BY DEF TypeOK, Poll, Rows, Cache
<1>2. Len(poll.removed) \in Nat /\ DOMAIN poll.removed = 1..Len(poll.removed)
      /\ \A i \in 1..Len(poll.removed) : poll.removed[i].version \in Nat
      BY RemovedFacts
<1>3. IsFiniteSet(A)
      BY <1>1, KeysAssumption, ImageFinite
<1>4. IsFiniteSet(B)
  <2>1. f \in [1..Len(poll.removed) -> Nat]
        BY <1>2
  <2>2. B = {f[i] : i \in 1..Len(poll.removed)}
        BY <1>2
  <2>3. IsFiniteSet(1..Len(poll.removed))
        BY <1>2, FS_Interval
  <2> HIDE DEF f, B
  <2>4. IsFiniteSet({f[i] : i \in 1..Len(poll.removed)})
        BY <2>1, <2>3, ImageFinite
  <2> QED BY <2>2, <2>4
<1>5. A \subseteq Nat /\ B \subseteq Nat
      BY <1>1, <1>2
<1>6. \A k \in Keys : poll.rows[k] \in A
      OBVIOUS
<1>7. \A i \in 1..Len(poll.removed) : poll.removed[i].version \in B
      BY <1>2
<1>8. \A x \in A : \E k \in Keys : x = poll.rows[k]
      OBVIOUS
<1>9. \A x \in B : \E i \in 1..Len(poll.removed) : x = poll.removed[i].version
      BY <1>2
<1>10. markReached = IF Versioned THEN Max(S) ELSE 0
      BY DEF markReached
<1> HIDE DEF A, B
<1>11. S \subseteq Nat /\ S # {} /\ IsFiniteSet(S)
  <2>1. IsFiniteSet({cache.highestVersion}) /\ IsFiniteSet(A \cup B)
        BY <1>3, <1>4, FS_Singleton, FS_Union
  <2>2. IsFiniteSet(S)
        BY <2>1, FS_Union
  <2> QED BY <1>1, <1>5, <2>2
<1>12. Max(S) \in S /\ \A y \in S : Max(S) >= y
  <2> HIDE DEF S
  <2> QED BY <1>11, MaxProperty
<1>13. Max(S) \in Nat
      BY <1>11, <1>12
<1> DEFINE m == Max(S)
<1>14. m \in Nat /\ (m = cache.highestVersion \/ m \in A \/ m \in B)
      BY <1>12, <1>13
<1>15. /\ cache.highestVersion <= m
       /\ \A x \in A : x <= m
       /\ \A x \in B : x <= m
  <2>1. \A y \in S : y \in Nat /\ m >= y
        BY <1>11, <1>12
  <2> HIDE DEF m
  <2> QED BY <1>14, <2>1
<1> HIDE DEF m, S
<1>16. Versioned => markReached = m
      BY <1>10 DEF m
<1> QED BY <1>6, <1>7, <1>8, <1>9, <1>10, <1>14, <1>15, <1>16

\* The steps of a poll, one for each of its events.
LEMMA StepsProperty ==
    ASSUME TypeOK, NEW events \in Seq(CacheEvent), NEW mark \in Nat
    PROVE  /\ recordedSteps(events, mark) \in Seq(Step)
           /\ Len(recordedSteps(events, mark)) = Len(events)
           /\ \A i \in 1..Len(events) :
                 LET s == recordedSteps(events, mark)[i] IN
                 /\ mark # 0 => s.from = mark /\ s.version = mark /\ s.event = events[i]
                 /\ mark = 0 => /\ s.from = cache.version + i - 1
                                /\ s.version = cache.version + i
                                /\ s.event.version = cache.version + i
                 /\ s.event.type = events[i].type /\ s.event.key = events[i].key
                 /\ s.event.value = events[i].value /\ s.event.last = events[i].last
                 /\ s.event.trimmed = events[i].trimmed
<1> DEFINE n == Len(events)
           step(i) == IF mark # 0
                      THEN [from |-> mark, version |-> mark, event |-> events[i]]
                      ELSE [from |-> cache.version + i - 1, version |-> cache.version + i,
                            event |-> [events[i] EXCEPT !.version = cache.version + i]]
<1>1. n \in Nat /\ DOMAIN events = 1..n /\ \A i \in 1..n : events[i] \in CacheEvent
      BY LenProperties
<1>2. cache.version \in Nat
      BY DEF TypeOK, Cache
<1>3. recordedSteps(events, mark) = [i \in 1..n |-> step(i)]
      BY <1>1 DEF recordedSteps
<1>4. ASSUME NEW i \in 1..n
      PROVE  /\ step(i) \in Step
             /\ mark # 0 => step(i).from = mark /\ step(i).version = mark /\ step(i).event = events[i]
             /\ mark = 0 => /\ step(i).from = cache.version + i - 1
                            /\ step(i).version = cache.version + i
                            /\ step(i).event.version = cache.version + i
             /\ step(i).event.type = events[i].type /\ step(i).event.key = events[i].key
             /\ step(i).event.value = events[i].value /\ step(i).event.last = events[i].last
             /\ step(i).event.trimmed = events[i].trimmed
  <2>1. events[i] \in CacheEvent /\ i \in Nat /\ cache.version + i - 1 \in Nat /\ cache.version + i \in Nat
        BY <1>1, <1>2
  <2> QED BY <2>1 DEF Step, CacheEvent
<1> HIDE DEF step
<1>5. recordedSteps(events, mark) \in [1..n -> Step]
      BY <1>3, <1>4
<1>6. recordedSteps(events, mark) \in Seq(Step) /\ Len(recordedSteps(events, mark)) = n
      BY <1>1, <1>5
<1>7. \A i \in 1..n : recordedSteps(events, mark)[i] = step(i)
      BY <1>3
<1> QED BY <1>4, <1>6, <1>7

\* A deletion that did not move the version.
Stalled(s) == s.event.type = "Deleted" /\ s.from = s.version

\* The ring keeps the newest steps, and remembers the newest stalled deletion
\* among the ones it drops.
LEMMA RecordProperty ==
    ASSUME TypeOK, NEW steps \in Seq(Step)
    PROVE  LET ring == record(steps)
               all == cache.history \o steps IN
           /\ ring.history \in Seq(Step)
           /\ Len(ring.history) <= config.historySize
           /\ ring.forgotStalled \in Nat
           /\ config.historySize = 0 =>
                 ring.history = cache.history /\ ring.forgotStalled = cache.forgotStalled
           /\ config.historySize > 0 =>
                 \E drop \in 0..Len(all) :
                    /\ Len(ring.history) = Len(all) - drop
                    /\ \A i \in 1..Len(ring.history) : ring.history[i] = all[drop + i]
                    /\ drop > 0 => Len(ring.history) = config.historySize
                    /\ cache.forgotStalled <= ring.forgotStalled
                    /\ \A j \in 1..drop : Stalled(all[j]) => all[j].version <= ring.forgotStalled
                    /\ \/ ring.forgotStalled = cache.forgotStalled
                       \/ \E j \in 1..drop : Stalled(all[j]) /\ ring.forgotStalled = all[j].version
<1> DEFINE all == cache.history \o steps
           N == config.historySize
           overflow == IF N > 0 /\ Len(all) > N THEN Len(all) - N ELSE 0
           J == {j \in 1..overflow : all[j].event.type = "Deleted" /\ all[j].from = all[j].version}
           stalled == {all[i].version : i \in J}
           S == {cache.forgotStalled} \cup stalled
           ring == record(steps)
<1>1. /\ cache.history \in Seq(Step) /\ cache.forgotStalled \in Nat /\ N \in Nat
      /\ Len(cache.history) <= N
      BY ConfigFacts DEF TypeOK, Cache
<1>2. all \in Seq(Step) /\ Len(all) \in Nat /\ \A i \in 1..Len(all) : all[i] \in Step
      BY <1>1, ConcatProperties, LenProperties
<1>3. ring.forgotStalled = Max(S)
      BY DEF record
<1>4. ring.history = IF N = 0 THEN cache.history ELSE SubSeq(all, overflow + 1, Len(all))
      BY DEF record
<1> HIDE DEF all, ring
<1> SUFFICES
        /\ ring.history \in Seq(Step)
        /\ Len(ring.history) <= N
        /\ ring.forgotStalled \in Nat
        /\ N = 0 => ring.history = cache.history /\ ring.forgotStalled = cache.forgotStalled
        /\ N > 0 =>
              \E drop \in 0..Len(all) :
                 /\ Len(ring.history) = Len(all) - drop
                 /\ \A i \in 1..Len(ring.history) : ring.history[i] = all[drop + i]
                 /\ drop > 0 => Len(ring.history) = N
                 /\ cache.forgotStalled <= ring.forgotStalled
                 /\ \A j \in 1..drop : Stalled(all[j]) => all[j].version <= ring.forgotStalled
                 /\ \/ ring.forgotStalled = cache.forgotStalled
                    \/ \E j \in 1..drop : Stalled(all[j]) /\ ring.forgotStalled = all[j].version
      BY DEF all, ring
<1>5. overflow \in 0..Len(all) /\ (overflow > 0 => Len(all) - overflow = N)
      /\ (N > 0 => Len(all) - overflow <= N) /\ (N = 0 => overflow = 0)
      BY <1>1, <1>2
<1> HIDE DEF overflow
<1>6. \A j \in 1..overflow : all[j].version \in Nat
  <2>1. \A j \in 1..overflow : j \in 1..Len(all)
        BY <1>2, <1>5
  <2> QED BY <1>2, <2>1 DEF Step
<1>7. IsFiniteSet(S) /\ S \subseteq Nat
  <2> DEFINE f == [i \in J |-> all[i].version]
  <2>1. J \in SUBSET (1..overflow) /\ IsFiniteSet(1..overflow)
        BY <1>5, <1>2, FS_Interval
  <2>2. IsFiniteSet(J)
        BY <2>1, FS_Subset
  <2> HIDE DEF J
  <2>3. f \in [J -> Nat] /\ stalled = {f[i] : i \in J}
        BY <1>6, <2>1
  <2>4. stalled \subseteq Nat
        BY <1>6, <2>1
  <2> HIDE DEF stalled, f
  <2>5. IsFiniteSet(stalled)
        BY <2>2, <2>3, ImageFinite
  <2>6. IsFiniteSet(S)
        BY <2>5, FS_Singleton, FS_Union
  <2> QED BY <1>1, <2>4, <2>6
<1>8. Max(S) \in S /\ \A y \in S : Max(S) >= y
  <2>1. S # {}
        OBVIOUS
  <2> HIDE DEF S
  <2> QED BY <1>7, <2>1, MaxProperty
<1> DEFINE m == Max(S)
<1>9. /\ m \in Nat /\ cache.forgotStalled <= m
      /\ \A j \in 1..overflow : Stalled(all[j]) => all[j].version <= m
      /\ m = cache.forgotStalled \/ \E j \in 1..overflow : Stalled(all[j]) /\ m = all[j].version
  <2>1. m \in S /\ \A y \in S : y \in Nat /\ m \in Nat /\ m >= y
        BY <1>7, <1>8
  <2>2. cache.forgotStalled \in S /\ \A j \in 1..overflow : Stalled(all[j]) => all[j].version \in S
        BY DEF Stalled
  <2>3. \A y \in S : y = cache.forgotStalled \/ \E j \in 1..overflow : Stalled(all[j]) /\ y = all[j].version
        BY DEF Stalled
  <2> HIDE DEF m, S
  <2>4. m \in Nat /\ \A y \in S : y <= m
        BY <2>1
  <2> QED BY <2>1, <2>2, <2>3, <2>4
<1>10. ring.forgotStalled = m
      BY <1>3
<1> HIDE DEF m, S
<1>11. CASE N = 0
  <2>1. ring.history = cache.history
        BY <1>4, <1>11
  <2>2. \A j \in 1..overflow : FALSE
        BY <1>5, <1>11
  <2>3. m = cache.forgotStalled
        BY <1>9, <2>2
  <2> QED BY <1>1, <1>9, <1>10, <1>11, <2>1, <2>3
<1>12. CASE N > 0
  <2>1. ring.history = SubSeq(all, overflow + 1, Len(all))
    <3>1. N # 0
          BY <1>1, <1>12
    <3> QED BY <1>4, <3>1, Zenon
  <2>2. \A i \in (overflow + 1)..Len(all) : all[i] \in Step
        BY <1>2, <1>5
  <2>3. overflow + 1 \in Int /\ Len(all) \in Int
        BY <1>2, <1>5
  <2>4. /\ ring.history \in Seq(Step)
        /\ Len(ring.history) = IF overflow + 1 <= Len(all) THEN Len(all) - (overflow + 1) + 1 ELSE 0
        /\ \A i \in 1..(Len(all) - (overflow + 1) + 1) : ring.history[i] = all[(overflow + 1) + i - 1]
        BY <2>1, <2>2, <2>3, SubSeqProperties
  <2>5. Len(ring.history) = Len(all) - overflow /\ Len(ring.history) \in Nat
        BY <1>2, <1>5, <2>4
  <2>6. \A i \in 1..Len(ring.history) : ring.history[i] = all[overflow + i]
    <3>1. \A i \in 1..Len(ring.history) : i \in 1..(Len(all) - (overflow + 1) + 1) /\ (overflow + 1) + i - 1 = overflow + i
          BY <1>2, <1>5, <2>5
    <3> QED BY <2>4, <3>1
  <2>7. Len(ring.history) <= N /\ (overflow > 0 => Len(ring.history) = N)
        BY <1>2, <1>5, <1>12, <2>5
  <2>8. N # 0
        BY <1>1, <1>12
  <2>9. \E drop \in 0..Len(all) : drop = overflow
        BY <1>5
  <2> QED BY <1>5, <1>9, <1>10, <1>12, <2>4, <2>5, <2>6, <2>7, <2>8, <2>9
<1>13. N = 0 \/ N > 0
      BY <1>1
<1> QED BY <1>11, <1>12, <1>13

Diffs == IF poll.full THEN fullDiff ELSE forwardDiff

LEMMA DiffType ==
    ASSUME TypeOK, NEW diff \in Diffs
    PROVE  diff.items \in Rows /\ diff.events \in Seq(CacheEvent)
<1>1. CASE poll.full
  <2>1. diff \in fullDiff
        BY <1>1 DEF Diffs
  <2>2. poll.rows \in Rows
        BY DEF TypeOK, Poll
  <2> QED BY <2>1, <2>2, FullDiffProperty
<1>2. CASE ~poll.full
  <2>1. diff \in forwardDiff
        BY <1>2 DEF Diffs
  <2>2. readForward \in Rows
        BY HeldFacts
  <2>3. /\ diff.items = [k \in Keys |->
              IF \E i \in 1..Len(poll.removed) : poll.removed[i].key = k /\ takes(i)
              THEN 0 ELSE readForward[k]]
        /\ diff.events \in Seq(CacheEvent)
        BY <2>1, ForwardDiffProperty
  <2> QED BY <2>2, <2>3 DEF Rows
<1> QED BY <1>1, <1>2

LEMMA AppliedType ==
    ASSUME TypeOK, NEW diff \in Diffs
    PROVE  applied(diff) \in Cache /\ Len(applied(diff).history) <= config.historySize
<1> DEFINE mark == markReached
           steps == recordedSteps(diff.events, mark)
           ring == record(steps)
           n == IF mark = 0 THEN Len(steps) ELSE IF steps = <<>> THEN 0 ELSE 1
           next == applied(diff)
<1>1. mark \in Nat
      BY MarkProperty
<1>2. diff.items \in Rows /\ diff.events \in Seq(CacheEvent)
      BY DiffType
<1>3. next = [items |-> diff.items, highestVersion |-> mark, version |-> cache.version + n,
              epoch |-> cache.epoch, history |-> ring.history,
              forgotStalled |-> ring.forgotStalled, polled |-> TRUE,
              lightweight |-> lightenLocked]
      BY DEF applied
<1> HIDE DEF mark, next
<1>4. steps \in Seq(Step)
      BY <1>1, <1>2, StepsProperty
<1> HIDE DEF steps
<1>5. ring.history \in Seq(Step) /\ Len(ring.history) <= config.historySize /\ ring.forgotStalled \in Nat
      BY <1>4, RecordProperty
<1>6. n \in Nat
      BY <1>4, LenProperties
<1> HIDE DEF n, ring
<1>7. cache.version + n \in Nat /\ cache.epoch \in Nat /\ lightenLocked \in BOOLEAN
      BY <1>6, LightenType DEF TypeOK, Cache
<1>8. next \in Cache /\ next.history = ring.history
      BY <1>1, <1>2, <1>3, <1>5, <1>7 DEF Cache
<1> QED BY <1>5, <1>8 DEF next

LEMMA CurrentVersionType ==
    ASSUME NEW c \in Cache
    PROVE  currentVersion(c) \in Nat
BY DEF Cache, currentVersion

LEMMA BroadcastType ==
    ASSUME TypeOK, NEW diff \in Diffs, NEW bookmark
    PROVE  broadcast(diff, bookmark) \in Seq(WatchEvent)
<1> DEFINE steps == recordedSteps(diff.events, markReached)
           events == [i \in DOMAIN steps |-> steps[i].event]
           v == currentVersion(applied(diff))
           mark == IF bookmark THEN <<Bookmark(v, FALSE)>> ELSE <<>>
<1>1. steps \in Seq(Step)
      BY MarkProperty, DiffType, StepsProperty
<1>2. v \in Nat
      BY AppliedType, CurrentVersionType
<1>3. events \in Seq(CacheEvent)
  <2>1. Len(steps) \in Nat /\ DOMAIN steps = 1..Len(steps) /\ \A i \in 1..Len(steps) : steps[i] \in Step
        BY <1>1, LenProperties
  <2> HIDE DEF steps
  <2>2. events \in [1..Len(steps) -> CacheEvent]
        BY <2>1 DEF Step
  <2> QED BY <2>1, <2>2
<1> HIDE DEF v
<1>4. mark \in Seq(WatchEvent)
  <2> DEFINE b == Bookmark(v, FALSE)
  <2>1. b \in WatchEvent
        BY <1>2 DEF Bookmark, WatchEvent
  <2> HIDE DEF b
  <2>2. <<b>> \in Seq(WatchEvent) /\ <<>> \in Seq(WatchEvent)
        BY <2>1
  <2> QED BY <2>2 DEF b
<1> HIDE DEF mark, events
<1>5. transitions(events) \in Seq(WatchEvent)
      BY <1>3, TransitionsType
<1>6. transitions(events) \o mark \in Seq(WatchEvent)
      BY <1>4, <1>5, ConcatProperties
<1> QED BY <1>6 DEF broadcast, mark, events, v

LEMMA MissedSinceType ==
    ASSUME TypeOK, NEW version \in Nat
    PROVE  missedSince(version) \in Seq(CacheEvent)
<1> DEFINE past == {i \in DOMAIN cache.history : movesForward(version, cache.history[i].version)}
           start == IF past = {} THEN Len(cache.history) + 1 ELSE Min(past)
           stalledDeletions == {i \in 1..(start - 1) :
                                /\ cache.history[i].event.type = "Deleted"
                                /\ cache.history[i].from = version
                                /\ cache.history[i].version = version}
           all == [i \in DOMAIN cache.history |-> cache.history[i].event]
           S == stalledDeletions \cup (start..Len(cache.history))
           n == Len(cache.history)
<1>1. n \in Nat /\ DOMAIN cache.history = 1..n /\ \A i \in 1..n : cache.history[i] \in Step
      BY LenProperties DEF TypeOK, Cache
<1>2. all \in [1..n -> CacheEvent]
      BY <1>1 DEF Step
<1>3. all \in Seq(CacheEvent) /\ Len(all) = n
      BY <1>1, <1>2
<1>4. start \in 1..(n + 1)
  <2>1. past \subseteq 1..n
        BY <1>1
  <2>2. past # {} => Min(past) \in past
    <3>1. past \subseteq Nat
          BY <1>1, <2>1
    <3> HIDE DEF past
    <3> QED BY <3>1, MinProperty
  <2> HIDE DEF past
  <2>3. CASE past = {}
    <3>1. start = n + 1
          BY <2>3
    <3> QED BY <1>1, <3>1
  <2>4. CASE past # {}
    <3>1. start = Min(past)
          BY <2>4
    <3>2. Min(past) \in 1..n
          BY <2>1, <2>2, <2>4
    <3> QED BY <1>1, <3>1, <3>2
  <2> QED BY <2>3, <2>4
<1> HIDE DEF start
<1>5. S \in SUBSET (1..Len(all))
      BY <1>1, <1>3, <1>4
<1> HIDE DEF all, S
<1>6. kept(all, S) \in Seq(CacheEvent)
      BY <1>3, <1>5, KeptProperty
<1> QED BY <1>6 DEF missedSince, all, S, start

LEMMA ReceivedType ==
    ASSUME NEW store \in Rows, NEW e \in WatchEvent
    PROVE  Received(store, e) \in Rows /\ e.version \in Nat
<1>1. CASE e.type = "Bookmark"
  <2>1. Received(store, e) = store
        BY <1>1 DEF Received
  <2> QED BY <2>1 DEF WatchEvent
<1>2. CASE e.type # "Bookmark"
  <2>1. e \in [type : ChangeTypes, key : Keys, value : Nat, version : Nat]
        BY <1>2 DEF WatchEvent
  <2>2. e.type \in ChangeTypes /\ e.key \in Keys /\ e.value \in Nat /\ e.version \in Nat
        BY <2>1
  <2>3. Received(store, e) \in {[store EXCEPT ![e.key] = e.value], [store EXCEPT ![e.key] = 0]}
        BY <2>2 DEF Received, ChangeTypes
  <2> QED BY <2>2, <2>3 DEF Rows
<1> QED BY <1>1, <1>2

LEMMA ClientFacts ==
    ASSUME TypeOK, NEW c \in Clients
    PROVE  /\ client[c] \in Client
           /\ client[c].pc \in {"new", "listing", "offline"} \cup Streaming
           /\ client[c].store \in Rows /\ client[c].at \in Nat
           /\ client[c].queue \in Seq(WatchEvent) /\ client[c].initial \in Seq(WatchEvent)
           /\ client[c].read \in Rows /\ client[c].overtaken \in BOOLEAN
BY DEF TypeOK, Client

LEMMA DisconnectedType ==
    ASSUME TypeOK, NEW c \in Clients
    PROVE  disconnected(client[c]) \in Client
BY ClientFacts, FreshTypes, NoRowsType, EmptySeq DEF disconnected, Client

\* A queue keeps its type when events are put into it anywhere.
LEMMA InsertedType ==
    ASSUME NEW S, NEW q \in Seq(S), NEW s \in Seq(S), NEW n \in 0..Len(q)
    PROVE  SubSeq(q, 1, n) \o s \o SubSeq(q, n + 1, Len(q)) \in Seq(S)
<1>1. Len(q) \in Nat /\ DOMAIN q = 1..Len(q) /\ \A i \in 1..Len(q) : q[i] \in S
      BY LenProperties
<1>2. SubSeq(q, 1, n) \in Seq(S) /\ SubSeq(q, n + 1, Len(q)) \in Seq(S)
      BY <1>1, SubSeqProperties
<1>3. SubSeq(q, 1, n) \o s \in Seq(S)
      BY <1>2, ConcatProperties
<1> QED BY <1>2, <1>3, ConcatProperties

LEMMA ClientOnlyType ==
    ASSUME TypeOK, UNCHANGED <<outside, cache, poll, seenAt>>,
           faults' \in [cuts : 0..config.maxCuts, restarts : 0..config.maxRestarts],
           client' \in [Clients -> Client]
    PROVE  TypeOK'
BY DEF TypeOK, outside, Cache, Poll, Client

LEMMA TableType ==
    ASSUME TypeOK, NEW k \in Keys, Write(k) \/ Delete(k)
    PROVE  TypeOK'
<1>1. /\ clock \in Nat /\ clock + 1 \in config.firstStamp..config.maxClock /\ rows[k] \in Nat
      /\ config.firstStamp \in Nat /\ config.maxClock \in Nat
      BY ConfigFacts DEF TypeOK, Write, Delete, Rows
<1>2. clock' = clock + 1 /\ rows' \in Rows
      BY <1>1 DEF TypeOK, Write, Delete, Rows
<1>3. tombs' \in Seq(Tombstone)
  <2>1. CASE tombs' = tombs
        BY <2>1 DEF TypeOK
  <2>2. CASE tombs' # tombs
    <3> DEFINE t == [key |-> k, at |-> clock + 1,
                     version |-> CASE Tombstones = "own" -> clock + 1
                                   [] Tombstones = "last" -> rows[k]
                                   [] OTHER -> 0,
                     row |-> IF Described THEN rows[k] ELSE 0]
    <3>1. tombs' = Append(tombs, t)
          BY <2>2 DEF Write, Delete
    <3>2. t \in Tombstone
      <4>1. (CASE Tombstones = "own" -> clock + 1
               [] Tombstones = "last" -> rows[k]
               [] OTHER -> 0) \in Nat
            BY <1>1
      <4> QED BY <1>1, <4>1 DEF Tombstone
    <3> HIDE DEF t
    <3> QED BY <3>1, <3>2, AppendProperties DEF TypeOK
  <2> QED BY <2>1, <2>2
<1>4. UNCHANGED <<config, cache, poll, client, faults, seenAt>>
      BY DEF Write, Delete
<1> QED BY <1>1, <1>2, <1>3, <1>4 DEF TypeOK, Cache, Poll, Client

LEMMA PollReadsType ==
    ASSUME TypeOK, PollBegins \/ PollReadsRows \/ PollReadsDeleted \/ PollFails
    PROVE  TypeOK'
<1>1. /\ IdlePoll \in Poll /\ poll \in Poll /\ cache.highestVersion \in Nat /\ clock \in Nat
      /\ Incremental \in BOOLEAN
      BY FreshTypes, TypedFacts DEF TypeOK
<1>2. poll' \in Poll
  <2>1. CASE PollBegins
        BY <1>1, <2>1, NoRowsType DEF PollBegins, IdlePoll, Poll
  <2>2. CASE PollReadsRows
    <3>1. rowsSince(IF poll.full THEN 0 ELSE poll.since) \in Rows
          BY RowsSinceType
    <3> QED BY <1>1, <2>2, <3>1 DEF PollReadsRows, Poll
  <2>3. CASE PollReadsDeleted
        BY <1>1, <2>3, DeletedSinceType DEF PollReadsDeleted, Poll
  <2>4. CASE PollFails
        BY <1>1, <2>4 DEF PollFails
  <2> QED BY <2>1, <2>2, <2>3, <2>4
<1>3. UNCHANGED <<outside, cache, client, faults, seenAt>>
      BY DEF PollBegins, PollReadsRows, PollReadsDeleted, PollFails
<1> QED BY <1>2, <1>3 DEF TypeOK, outside, Cache, Poll, Client

\* A poll's answer applied, in the terms of its diff.
LEMMA PollAppliesDiff ==
    ASSUME PollApplies
    PROVE  /\ poll.pc = "apply" /\ poll' = IdlePoll /\ seenAt' = poll.asOf
           /\ UNCHANGED <<config, rows, tombs, clock, faults>>
           /\ \E diff \in Diffs, bookmark \in BOOLEAN :
                 /\ cache' = applied(diff)
                 /\ client' = [c \in Clients |->
                       IF client[c].pc \in Streaming
                       THEN [client[c] EXCEPT
                                !.queue = client[c].queue \o broadcast(diff, bookmark)]
                       ELSE client[c]]
<1>1. PICK diff \in Diffs, bookmark \in {FALSE, \A c \in Clients : Len(client[c].queue) < MaxQueue} :
           /\ cache' = applied(diff)
           /\ client' = [c \in Clients |->
                 IF client[c].pc \in Streaming
                 THEN [client[c] EXCEPT !.queue = client[c].queue \o broadcast(diff, bookmark)]
                 ELSE client[c]]
      BY Zenon DEF PollApplies, Diffs
<1>2. bookmark \in BOOLEAN
      BY <1>1
<1>3. /\ poll.pc = "apply" /\ poll' = IdlePoll /\ seenAt' = poll.asOf
      /\ UNCHANGED <<config, rows, tombs, clock, faults>>
      BY DEF PollApplies, outside
<1> QED BY <1>1, <1>2, <1>3, Zenon

LEMMA PollAppliesType ==
    ASSUME TypeOK, PollApplies
    PROVE  TypeOK'
<1>1. PICK diff \in Diffs, bookmark \in BOOLEAN :
           /\ cache' = applied(diff)
           /\ client' = [c \in Clients |->
                 IF client[c].pc \in Streaming
                 THEN [client[c] EXCEPT !.queue = client[c].queue \o broadcast(diff, bookmark)]
                 ELSE client[c]]
      BY PollAppliesDiff
<1>2. cache' \in Cache /\ Len(cache'.history) <= config.historySize
      BY <1>1, AppliedType
<1>3. client' \in [Clients -> Client]
  <2> DEFINE sent == broadcast(diff, bookmark)
  <2>1. sent \in Seq(WatchEvent)
        BY BroadcastType
  <2> HIDE DEF sent
  <2>2. ASSUME NEW c \in Clients
        PROVE  [client[c] EXCEPT !.queue = client[c].queue \o sent] \in Client /\ client[c] \in Client
    <3>1. client[c].queue \o sent \in Seq(WatchEvent)
          BY <2>1, ClientFacts, ConcatProperties
    <3> QED BY <3>1, ClientFacts DEF Client
  <2> QED BY <1>1, <2>2 DEF sent
<1>4. poll' = IdlePoll /\ seenAt' = poll.asOf /\ UNCHANGED <<config, rows, tombs, clock, faults>>
      BY PollAppliesDiff
<1>5. poll' \in Poll /\ seenAt' \in Nat
      BY <1>4, FreshTypes DEF TypeOK, Poll
<1> QED BY <1>2, <1>3, <1>4, <1>5 DEF TypeOK, Cache, Poll, Client

LEMMA ClientType ==
    ASSUME TypeOK, NEW c \in Clients, ClientStep(c)
    PROVE  TypeOK'
<1> DEFINE u == client[c]
<1>0. /\ u \in Client /\ u.store \in Rows /\ u.at \in Nat /\ u.queue \in Seq(WatchEvent)
      /\ u.initial \in Seq(WatchEvent) /\ u.read \in Rows /\ u.overtaken \in BOOLEAN
      /\ cache \in Cache /\ cache.items \in Rows /\ rows \in Rows /\ currentVersion(cache) \in Nat
      /\ client \in [Clients -> Client] /\ NewClient \in Client
      BY ClientFacts, CurrentVersionType, FreshTypes DEF TypeOK, Cache
<1>1. SUFFICES ASSUME ~Cut(c)
               PROVE  /\ client' \in [Clients -> Client]
                      /\ UNCHANGED <<outside, cache, poll, faults, seenAt>>
  <2>1. CASE Cut(c)
    <3>1. disconnected(u) \in Client
          BY DisconnectedType
    <3>2. client' \in [Clients -> Client]
          BY <1>0, <2>1, <3>1 DEF Cut
    <3>3. faults' \in [cuts : 0..config.maxCuts, restarts : 0..config.maxRestarts]
          BY <2>1, ConfigFacts, SMTT(30) DEF Cut, TypeOK
    <3>4. UNCHANGED <<outside, cache, poll, seenAt>>
          BY <2>1 DEF Cut
    <3> QED BY <3>2, <3>3, <3>4, ClientOnlyType
  <2>2. CASE client' \in [Clients -> Client] /\ UNCHANGED <<outside, cache, poll, faults, seenAt>>
    <3>1. faults' \in [cuts : 0..config.maxCuts, restarts : 0..config.maxRestarts]
          BY <2>2 DEF TypeOK
    <3> QED BY <2>2, <3>1, ClientOnlyType
  <2> QED BY <2>1, <2>2
<1>2. CASE WatchInitial(c)
  <2> DEFINE q == initialEvents(cache.items, currentVersion(cache))
  <2>1. q \in Seq(WatchEvent)
        BY <1>0, InitialEventsType
  <2> HIDE DEF q
  <2>2. [NewClient EXCEPT !.pc = "starting", !.initial = q] \in Client
        BY <1>0, <2>1 DEF Client, Streaming, Prepending
  <2> QED BY <1>0, <1>2, <2>2 DEF WatchInitial, q
<1>3. CASE WatchSnapshot(c)
  <2>1. [NewClient EXCEPT !.pc = "snapshotting", !.at = currentVersion(cache)] \in Client
        BY <1>0 DEF Client, Streaming
  <2> QED BY <1>0, <1>3, <2>1 DEF WatchSnapshot
<1>4. CASE SnapshotRead(c)
  <2> DEFINE q == initialEvents(rows, u.at)
  <2>1. q \in Seq(WatchEvent)
        BY <1>0, InitialEventsType
  <2> HIDE DEF q
  <2>2. [u EXCEPT !.pc = "starting", !.at = 0, !.initial = q] \in Client
        BY <1>0, <2>1 DEF Client, Streaming, Prepending
  <2> QED BY <1>0, <1>4, <2>2 DEF SnapshotRead, q
<1>5. CASE ListStamps(c)
  <2>1. [NewClient EXCEPT !.pc = "listing", !.at = currentVersion(cache)] \in Client
        BY <1>0 DEF Client, Streaming
  <2> QED BY <1>0, <1>5, <2>1 DEF ListStamps
<1>6. CASE ListReads(c)
  <2>1. selected(rows) \in Rows
        BY <1>0, SelectedType
  <2> QED BY <1>0, <1>6, <2>1 DEF ListReads, Client
<1>7. CASE Resume(c)
  <2> DEFINE q == transitions(missedSince(u.at))
  <2>1. q \in Seq(WatchEvent)
        BY <1>0, MissedSinceType, TransitionsType
  <2> HIDE DEF q
  <2>2. client' = [client EXCEPT ![c] = [client[c] EXCEPT !.pc = "resuming", !.initial = q]]
        BY <1>0, <1>7 DEF Resume, q
  <2>3. [client[c] EXCEPT !.pc = "resuming", !.initial = q] \in Client
        BY <1>0, <2>1 DEF Client, Streaming, Prepending
  <2> QED BY <1>0, <1>7, <2>2, <2>3 DEF Resume
<1>8. CASE Expire(c)
      BY <1>0, <1>8 DEF Expire
<1>9. CASE ResumeFromRows(c)
  <2>1. rowsSince(u.at) \in Rows
        BY RowsSinceType
  <2> QED BY <1>0, <1>9, <2>1 DEF ResumeFromRows, Client, Streaming
<1>10. CASE ResumeFromTombstones(c)
  <2> DEFINE removed == kept(tombs, {i \in DOMAIN tombs :
                                   tombs[i].at > client[c].at /\ client[c].read[tombs[i].key] = 0})
             deletions == [i \in DOMAIN removed |-> tombstone(removed[i])]
             changes(order) == [i \in DOMAIN order |->
                cacheEvent("Modified", order[i], client[c].read[order[i]], client[c].read[order[i]], 0, FALSE)]
  <2>1. PICK order \in ascending({k \in Keys : client[c].read[k] # 0}, client[c].read) :
           client' = [client EXCEPT ![c] = [client[c] EXCEPT
               !.pc = "resuming", !.read = NoRows,
               !.initial = transitions(changes(order) \o deletions)]]
        BY <1>10 DEF ResumeFromTombstones
  <2>2. removed \in Seq(Tombstone)
    <3>1. tombs \in Seq(Tombstone)
          BY DEF TypeOK
    <3>2. {i \in DOMAIN tombs : tombs[i].at > client[c].at /\ client[c].read[tombs[i].key] = 0}
             \in SUBSET (1..Len(tombs))
          BY <3>1, LenProperties
    <3> QED BY <3>1, <3>2, KeptProperty
  <2> HIDE DEF removed
  <2>3. deletions \in Seq(CacheEvent)
    <3>1. Len(removed) \in Nat /\ DOMAIN removed = 1..Len(removed) /\ \A i \in 1..Len(removed) : removed[i] \in Tombstone
          BY <2>2, LenProperties
    <3>2. ASSUME NEW t \in Tombstone PROVE tombstone(t) \in CacheEvent
      <4>1. t.key \in Keys /\ t.version \in Nat /\ t.row \in Nat /\ cache.items[t.key] \in Nat
            BY <1>0 DEF Tombstone, Rows
      <4> QED BY <4>1, CacheEventType DEF tombstone, ChangeTypes
    <3>3. deletions \in [1..Len(removed) -> CacheEvent]
          BY <3>1, <3>2
    <3> QED BY <3>1, <3>3
  <2>4. changes(order) \in Seq(CacheEvent)
    <3> DEFINE S == {k \in Keys : client[c].read[k] # 0}
    <3>1. IsFiniteSet(S) /\ S \subseteq Keys
          BY KeysAssumption, FS_Subset
    <3>2. order \in orderings(S)
          BY <2>1, AscendingOrderings
    <3>3. DOMAIN order = 1..Len(order) /\ Len(order) \in Nat /\ \A i \in 1..Len(order) : order[i] \in S
          BY <3>1, <3>2, OrderingsProperty
    <3>4. \A i \in 1..Len(order) : order[i] \in Keys
          BY <3>3
    <3>5. ASSUME NEW k \in Keys
          PROVE cacheEvent("Modified", k, client[c].read[k], client[c].read[k], 0, FALSE) \in CacheEvent
      <4>1. client[c].read[k] \in Nat
            BY <1>0 DEF Rows
      <4> QED BY <4>1, CacheEventType DEF ChangeTypes
    <3>6. changes(order) \in [1..Len(order) -> CacheEvent]
          BY <3>3, <3>4, <3>5
    <3> HIDE DEF changes
    <3> QED BY <3>3, <3>6
  <2> DEFINE ch == changes(order)
             q == transitions(ch \o deletions)
  <2>5. ch \o deletions \in Seq(CacheEvent)
        BY <2>3, <2>4, ConcatProperties
  <2> HIDE DEF changes, deletions, ch
  <2>6. q \in Seq(WatchEvent)
        BY <2>5, TransitionsType
  <2>7. client' = [client EXCEPT ![c] = [client[c] EXCEPT !.pc = "resuming", !.read = NoRows, !.initial = q]]
        BY <2>1 DEF ch
  <2> HIDE DEF q
  <2>8. [client[c] EXCEPT !.pc = "resuming", !.read = NoRows, !.initial = q] \in Client
        BY <1>0, <2>6, NoRowsType DEF Client, Streaming, Prepending
  <2>9. UNCHANGED <<outside, cache, poll, faults, seenAt>>
        BY <1>10 DEF ResumeFromTombstones
  <2> QED BY <1>0, <2>7, <2>8, <2>9
<1>11. CASE WatchRefused(c)
      BY <1>0, <1>11 DEF WatchRefused
<1>12. CASE Deliver(c)
  <2> DEFINE e == Head(u.queue)
             synced == u.pc = "online" \/ (e.type = "Bookmark" /\ e.ends)
             store == Received(u.store, e)
             rest == Tail(u.queue)
             at == IF synced THEN e.version ELSE 0
             pc == IF synced THEN "online" ELSE "syncing"
  <2>1. u.queue # <<>>
        BY <1>12 DEF Deliver
  <2>2. e \in WatchEvent /\ rest \in Seq(WatchEvent)
        BY <1>0, <2>1, HeadTailProperties
  <2>3. store \in Rows /\ at \in Nat /\ pc \in Streaming
        BY <1>0, <2>2, ReceivedType DEF Streaming, Served
  <2>4. client' = [client EXCEPT ![c] = [client[c] EXCEPT !.pc = pc, !.at = at, !.store = store, !.queue = rest]]
        BY <1>12 DEF Deliver
  <2> HIDE DEF pc, at, store, rest
  <2>5. [client[c] EXCEPT !.pc = pc, !.at = at, !.store = store, !.queue = rest] \in Client
        BY <1>0, <2>2, <2>3 DEF Client
  <2> QED BY <1>0, <1>12, <2>4, <2>5 DEF Deliver
<1>13. CASE ResumeFromDatabase(c)
      BY <1>0, <1>13 DEF ResumeFromDatabase, Client, Streaming
<1>14. CASE Prepend(c)
  <2>1. PICK taken \in 0..Len(u.queue) :
           client' = [client EXCEPT ![c] = [client[c] EXCEPT
               !.pc = IF u.pc = "starting" THEN "syncing" ELSE "online",
               !.queue = SubSeq(u.queue, 1, taken) \o u.initial \o
                             SubSeq(u.queue, taken + 1, Len(u.queue)),
               !.initial = <<>>,
               !.overtaken = u.overtaken \/ (taken > 0 /\ u.initial # <<>>)]]
        BY <1>14 DEF Prepend
  <2> DEFINE q == SubSeq(u.queue, 1, taken) \o u.initial \o SubSeq(u.queue, taken + 1, Len(u.queue))
             o == u.overtaken \/ (taken > 0 /\ u.initial # <<>>)
             pc == IF u.pc = "starting" THEN "syncing" ELSE "online"
  <2>2. q \in Seq(WatchEvent) /\ o \in BOOLEAN /\ pc \in Streaming /\ <<>> \in Seq(WatchEvent)
        BY <1>0, InsertedType, EmptySeq DEF Streaming, Served
  <2> HIDE DEF q, o, pc
  <2>3. [client[c] EXCEPT !.pc = pc, !.queue = q, !.initial = <<>>, !.overtaken = o] \in Client
        BY <1>0, <2>2 DEF Client
  <2>4. client' = [client EXCEPT ![c] = [client[c] EXCEPT
                      !.pc = pc, !.queue = q, !.initial = <<>>, !.overtaken = o]]
        BY <2>1 DEF pc, q, o
  <2> QED BY <1>0, <1>14, <2>3, <2>4 DEF Prepend
<1> QED BY <1>1, <1>2, <1>3, <1>4, <1>5, <1>6, <1>7, <1>8, <1>9, <1>10, <1>11, <1>12, <1>13, <1>14
        DEF ClientStep

LEMMA RestartType ==
    ASSUME TypeOK, Restart
    PROVE  TypeOK'
<1>1. nextEpoch \in Nat
      BY DEF TypeOK, Cache, nextEpoch
<1>2. cache' \in Cache /\ Len(cache'.history) <= config.historySize
  <2>1. cache' = FreshCache(nextEpoch) /\ config.historySize \in Nat
        BY TypedFacts DEF Restart
  <2>2. FreshCache(nextEpoch) \in Cache /\ Len(FreshCache(nextEpoch).history) = 0
        BY <1>1, FreshTypes
  <2> QED BY <2>1, <2>2
<1>3. poll' \in Poll /\ seenAt' \in Nat
      BY FreshTypes DEF Restart
<1>4. client' \in [Clients -> Client]
  <2>1. \A c \in Clients : disconnected(client[c]) \in Client
        BY DisconnectedType
  <2> QED BY <2>1 DEF Restart
<1>5. faults' \in [cuts : 0..config.maxCuts, restarts : 0..config.maxRestarts]
  <2>1. config.maxRestarts \in Nat /\ faults \in [cuts : 0..config.maxCuts, restarts : 0..config.maxRestarts]
        BY TypedFacts DEF TypeOK
  <2>2. faults.restarts < config.maxRestarts /\ faults' = [faults EXCEPT !.restarts = faults.restarts + 1]
        BY DEF Restart
  <2>3. faults.restarts \in 0..config.maxRestarts /\ faults.restarts + 1 \in 0..config.maxRestarts
        BY <2>1, <2>2
  <2> QED BY <2>1, <2>2, <2>3
<1>6. UNCHANGED <<config, rows, tombs, clock>>
      BY DEF Restart, outside
<1> QED BY <1>2, <1>3, <1>4, <1>5, <1>6 DEF TypeOK, Cache, Poll, Client

LEMMA TypeStep ==
    ASSUME TypeOK, [Next]_vars
    PROVE  TypeOK'
<1>1. CASE UNCHANGED vars
      BY <1>1 DEF vars, TypeOK, Cache, Poll, Client
<1>2. CASE Next
      BY <1>2, TableType, PollReadsType, PollAppliesType, ClientType, RestartType
      DEF Next, PollStep
<1> QED BY <1>1, <1>2

LEMMA TypeInit ==
    ASSUME Init
    PROVE  TypeOK
<1>1. config \in Configs
      BY DEF Init
<1> QED BY <1>1, ConfigFacts, NoRowsType, FreshTypes, EmptySeq DEF Init, TypeOK

\* Every variable has its type in every reachable state, whatever the
\* configuration: the ring never holds more than historySize steps (watch.go,
\* record), and whatever the diffs, the replays and the selectors compute from
\* the table is an event a client can take.
THEOREM TypeCorrect == Spec => []TypeOK
<1>1. Init => TypeOK
      BY TypeInit
<1>2. TypeOK /\ [Next]_vars => TypeOK'
      BY TypeStep
<1> QED BY <1>1, <1>2, PTL DEF Spec

-----------------------------------------------------------------------------
(* The mark. *)

\* What each kind of step leaves alone.
LEMMA ClientStays ==
    ASSUME NEW c \in Clients, ClientStep(c)
    PROVE  UNCHANGED <<config, rows, tombs, clock, cache, poll, seenAt>>
BY DEF ClientStep, WatchInitial, WatchSnapshot, SnapshotRead, ListStamps, ListReads, Resume,
       Expire, ResumeFromDatabase, ResumeFromRows, ResumeFromTombstones, Prepend, WatchRefused,
       Deliver, Cut, outside

LEMMA StepKinds ==
    ASSUME [Next]_vars
    PROVE  /\ UNCHANGED config
           /\ \/ /\ \E k \in Keys : Write(k) \/ Delete(k)
                 /\ UNCHANGED <<cache, poll, client, seenAt>>
              \/ /\ PollBegins \/ PollReadsRows \/ PollReadsDeleted \/ PollFails
                 /\ UNCHANGED <<rows, tombs, clock, cache, client, seenAt>>
              \/ PollApplies /\ UNCHANGED <<rows, tombs, clock>>
              \/ /\ \E c \in Clients : ClientStep(c)
                 /\ UNCHANGED <<rows, tombs, clock, cache, poll, seenAt>>
              \/ Restart /\ UNCHANGED <<rows, tombs, clock>>
              \/ UNCHANGED vars
<1>1. CASE UNCHANGED vars
      BY <1>1 DEF vars
<1>2. CASE \E k \in Keys : Write(k) \/ Delete(k)
      BY <1>2 DEF Write, Delete
<1>3. CASE PollBegins \/ PollReadsRows \/ PollReadsDeleted \/ PollFails
      BY <1>3 DEF PollBegins, PollReadsRows, PollReadsDeleted, PollFails, outside
<1>4. CASE PollApplies
      BY <1>4 DEF PollApplies, outside
<1>5. CASE \E c \in Clients : ClientStep(c)
      BY <1>5, ClientStays
<1>6. CASE Restart
      BY <1>6 DEF Restart, outside
<1> QED BY <1>1, <1>2, <1>3, <1>4, <1>5, <1>6 DEF Next, PollStep

LEMMA AppliedFields ==
    ASSUME NEW diff
    PROVE  LET next == applied(diff)
               steps == recordedSteps(diff.events, markReached) IN
           /\ next.items = diff.items /\ next.highestVersion = markReached
           /\ next.version = cache.version +
                  IF markReached = 0 THEN Len(steps) ELSE IF steps = <<>> THEN 0 ELSE 1
           /\ next.epoch = cache.epoch /\ next.history = record(steps).history
           /\ next.forgotStalled = record(steps).forgotStalled
           /\ next.polled = TRUE /\ next.lightweight = lightenLocked
BY DEF applied

\* The mark bounds what is held, is empty until a versioned row was seen, and
\* stands still while a poll is under way; the first poll reads everything.
MarkInv ==
    /\ ~Versioned => cache.highestVersion = 0
    /\ Versioned => \A k \in Keys : cache.items[k] <= cache.highestVersion
    /\ Versioned /\ cache.highestVersion = 0 => cache.version = 1
    /\ poll.pc # "idle" =>
          /\ poll.since = cache.highestVersion
          /\ ~Incremental \/ cache.highestVersion = 0 => poll.full
    /\ Tombstones = "none" => tombs = <<>> /\ poll.removed = <<>> /\ poll.pc # "deleted"

LEMMA MarkInit ==
    ASSUME Init
    PROVE  MarkInv
BY TypeInit, TypedFacts DEF Init, MarkInv, FreshCache, NoRows, IdlePoll

LEMMA KeptOfEmpty ==
    ASSUME NEW f
    PROVE  kept(f, {}) = <<>>
<1>1. Cardinality({}) = 0
      BY FS_EmptySet
<1> QED BY <1>1 DEF kept

LEMMA AppliedItems ==
    ASSUME TypeOK, NEW diff \in Diffs, NEW k \in Keys
    PROVE  diff.items[k] \in {0, poll.rows[k], cache.items[k]}
<1>1. CASE poll.full
  <2>1. diff \in fullDiff
        BY <1>1 DEF Diffs
  <2> QED BY <2>1, FullDiffProperty
<1>2. CASE ~poll.full
  <2>1. diff \in forwardDiff
        BY <1>2 DEF Diffs
  <2>2. diff.items = [q \in Keys |->
              IF \E i \in 1..Len(poll.removed) : poll.removed[i].key = q /\ takes(i)
              THEN 0 ELSE readForward[q]]
        BY <2>1, ForwardDiffProperty
  <2>3. diff.items[k] = 0 \/ diff.items[k] = readForward[k]
        BY <2>2
  <2> QED BY <2>3 DEF readForward
<1> QED BY <1>1, <1>2

\* As long as no versioned row was seen, a poll has nothing to report.
LEMMA NothingYet ==
    ASSUME TypeOK, MarkInv, NEW diff \in Diffs, poll.pc = "apply", Versioned, markReached = 0
    PROVE  diff.events = <<>> /\ cache.highestVersion = 0
<1>1. cache.highestVersion = 0 /\ poll.full
      BY MarkProperty, TypedFacts DEF MarkInv
<1>2. \A k \in Keys : poll.rows[k] \in Nat /\ poll.rows[k] <= 0 /\ cache.items[k] \in Nat /\ cache.items[k] <= 0
      BY <1>1, MarkProperty, TypedFacts DEF MarkInv, Rows
<1>3. present \cup lost = {}
      BY <1>2 DEF present, lost
<1>4. diff \in fullDiff
      BY <1>1 DEF Diffs
<1>5. diff.events \in Seq(CacheEvent) /\ \A i \in 1..Len(diff.events) : FALSE
      BY <1>3, <1>4, FullDiffProperty
<1>6. Len(diff.events) \in Nat /\ ~(1 \in 1..Len(diff.events))
      BY <1>5, LenProperties
<1> QED BY <1>1, <1>5, <1>6, EmptySeq

LEMMA AppliedMark ==
    ASSUME TypeOK, MarkInv, NEW diff \in Diffs, poll.pc = "apply"
    PROVE  LET next == applied(diff) IN
           /\ ~Versioned => next.highestVersion = 0 /\ next.version >= cache.version
           /\ Versioned => /\ next.highestVersion >= cache.highestVersion
                           /\ \A k \in Keys : next.items[k] <= next.highestVersion
                           /\ next.highestVersion = 0 => next.version = 1
<1> DEFINE steps == recordedSteps(diff.events, markReached)
           next == applied(diff)
<1>1. /\ next.items = diff.items /\ next.highestVersion = markReached
      /\ next.version = cache.version +
             IF markReached = 0 THEN Len(steps) ELSE IF steps = <<>> THEN 0 ELSE 1
      BY AppliedFields
<1>2. markReached \in Nat /\ cache.version \in Nat
      BY MarkProperty, TypedFacts
<1>3. diff.events \in Seq(CacheEvent) /\ Len(diff.events) \in Nat
      BY DiffType, LenProperties
<1>4. Len(steps) = Len(diff.events)
      BY <1>2, <1>3, StepsProperty
<1> HIDE DEF next, steps
<1>5. CASE ~Versioned
  <2>1. markReached = 0
        BY <1>5, MarkProperty
  <2> QED BY <1>1, <1>2, <1>3, <1>4, <1>5, <2>1 DEF next
<1>6. CASE Versioned
  <2>1. cache.highestVersion <= markReached /\ \A k \in Keys : poll.rows[k] <= markReached
        BY <1>6, MarkProperty
  <2>2. ASSUME NEW k \in Keys PROVE next.items[k] <= markReached
    <3>1. next.items[k] \in {0, poll.rows[k], cache.items[k]}
          BY <1>1, AppliedItems
    <3>2. cache.items[k] <= cache.highestVersion
          BY <1>6 DEF MarkInv
    <3>3. cache.items[k] \in Nat /\ cache.highestVersion \in Nat /\ poll.rows[k] \in Nat
          BY TypedFacts DEF Rows
    <3> QED BY <1>2, <2>1, <3>1, <3>2, <3>3
  <2>3. ASSUME markReached = 0 PROVE next.version = 1
    <3>1. diff.events = <<>> /\ cache.highestVersion = 0
          BY <1>6, <2>3, NothingYet
    <3>2. Len(steps) = 0
          BY <1>4, <3>1
    <3>3. cache.version = 1
          BY <1>6, <3>1 DEF MarkInv
    <3> QED BY <1>1, <2>3, <3>2, <3>3
  <2>4. cache.highestVersion \in Nat
        BY TypedFacts
  <2> QED BY <1>1, <1>2, <1>6, <2>1, <2>2, <2>3, <2>4 DEF next
<1> QED BY <1>5, <1>6

LEMMA MarkStep ==
    ASSUME TypeOK, MarkInv, [Next]_vars
    PROVE  MarkInv'
<1>0. UNCHANGED config
      BY StepKinds
<1>1. CASE UNCHANGED vars
      BY <1>1 DEF vars, MarkInv, Versioned, Incremental, Tombstones
<1>2. CASE \E k \in Keys : Write(k) \/ Delete(k)
      BY <1>2 DEF MarkInv, Write, Delete, Versioned, Incremental, Tombstones
<1>3. CASE PollBegins
      BY <1>3 DEF MarkInv, PollBegins, IdlePoll, outside, Versioned, Incremental, Tombstones
<1>4. CASE PollReadsRows
      BY <1>4 DEF MarkInv, PollReadsRows, outside, Versioned, Incremental, Tombstones, TypeOK, Poll
<1>5. CASE PollReadsDeleted
      BY <1>5 DEF MarkInv, PollReadsDeleted, outside, Versioned, Incremental, Tombstones, TypeOK, Poll
<1>6. CASE PollFails
      BY <1>6 DEF MarkInv, PollFails, IdlePoll, outside, Versioned, Incremental, Tombstones
<1>7. CASE PollApplies
  <2>1. PICK diff \in Diffs : cache' = applied(diff)
        BY <1>7, PollAppliesDiff
  <2>2. poll.pc = "apply" /\ poll' = IdlePoll /\ UNCHANGED tombs
        BY <1>7, PollAppliesDiff
  <2>3. /\ ~Versioned => cache'.highestVersion = 0
        /\ Versioned => /\ \A k \in Keys : cache'.items[k] <= cache'.highestVersion
                        /\ cache'.highestVersion = 0 => cache'.version = 1
        BY <2>1, <2>2, AppliedMark
  <2>4. poll'.pc = "idle" /\ poll'.removed = <<>>
        BY <2>2 DEF IdlePoll
  <2> QED BY <1>0, <2>2, <2>3, <2>4 DEF MarkInv, Versioned, Incremental, Tombstones
<1>8. CASE \E c \in Clients : ClientStep(c)
      BY <1>8, ClientStays DEF MarkInv, Versioned, Incremental, Tombstones
<1>9. CASE Restart
  <2>1. /\ cache'.items = NoRows /\ cache'.highestVersion = 0 /\ cache'.version = nextEpoch
        /\ poll'.pc = "idle" /\ poll'.removed = <<>> /\ UNCHANGED <<config, tombs>>
        BY <1>9 DEF Restart, FreshCache, IdlePoll, outside
  <2>2. \A k \in Keys : cache'.items[k] = 0
        BY <2>1 DEF NoRows
  <2> QED BY <2>1, <2>2 DEF MarkInv, nextEpoch, Versioned, Incremental, Tombstones
<1> QED BY <1>1, <1>2, <1>3, <1>4, <1>5, <1>6, <1>7, <1>8, <1>9 DEF Next, PollStep

\* The version the cache answers with never goes back while the server lives
\* (watch.go, currentVersionLocked): neither on the counter, nor when the mark
\* takes over from the counter's first value, nor by a poll that reads less.
THEOREM VersionNeverBack == Spec => VersionMonotonic
<1>1. Init => TypeOK /\ MarkInv
      BY TypeInit, MarkInit
<1>2. TypeOK /\ MarkInv /\ [Next]_vars => TypeOK' /\ MarkInv'
      BY TypeStep, MarkStep
<1>3. TypeOK /\ MarkInv /\ [Next]_vars =>
         [faults'.restarts = faults.restarts => currentVersion(cache) <= currentVersion(cache)']_vars
  <2> SUFFICES ASSUME TypeOK, MarkInv, Next, faults'.restarts = faults.restarts
               PROVE  currentVersion(cache) <= currentVersion(cache)'
      BY DEF vars
  <2>1. currentVersion(cache) \in Nat /\ faults.restarts \in Nat
        BY CurrentVersionType, TypedFacts DEF TypeOK
  <2>2. CASE UNCHANGED cache
    <3>1. currentVersion(cache)' = currentVersion(cache)
          BY <2>2 DEF currentVersion
    <3> QED BY <2>1, <3>1
  <2>3. CASE PollApplies
    <3>1. PICK diff \in Diffs : cache' = applied(diff)
          BY <2>3, PollAppliesDiff
    <3>2. poll.pc = "apply"
          BY <2>3, PollAppliesDiff
    <3>3. /\ ~Versioned => cache'.highestVersion = 0 /\ cache'.version >= cache.version
          /\ Versioned => /\ cache'.highestVersion >= cache.highestVersion
                          /\ cache'.highestVersion = 0 => cache'.version = 1
          BY <3>1, <3>2, AppliedMark
    <3>4. cache' \in Cache
          BY <3>1, AppliedType
    <3>5. /\ cache'.highestVersion \in Nat /\ cache'.version \in Nat
          /\ cache.highestVersion \in Nat /\ cache.version \in Nat
          BY <3>4, TypedFacts DEF Cache
    <3>6. CASE ~Versioned
          BY <3>3, <3>5, <3>6 DEF currentVersion, MarkInv
    <3>7. CASE Versioned
          BY <3>3, <3>5, <3>7 DEF currentVersion, MarkInv
    <3> QED BY <3>6, <3>7
  <2>4. ~Restart
    <3>1. faults \in [cuts : 0..config.maxCuts, restarts : 0..config.maxRestarts]
          BY DEF TypeOK
    <3>2. Restart => faults' = [faults EXCEPT !.restarts = faults.restarts + 1]
          BY DEF Restart
    <3>3. Restart => faults'.restarts = faults.restarts + 1
          BY <3>1, <3>2
    <3> QED BY <2>1, <3>3
  <2> QED BY <2>2, <2>3, <2>4, StepKinds DEF vars
<1> QED BY <1>1, <1>2, <1>3, PTL DEF Spec, VersionMonotonic

-----------------------------------------------------------------------------
(* What the cache holds of the table. *)

ReadDone == poll.pc \in {"deleted", "apply"}
Only(r, k) == IF poll.full \/ r[k] > poll.since THEN r[k] ELSE 0

\* Stamps are of the past: rows, marks and tombstones; a row outlives only the
\* tombstones of earlier incarnations, and only a described one has a version.
StampInv ==
    /\ \A k \in Keys : rows[k] <= clock
    /\ cache.highestVersion <= clock
    /\ seenAt <= clock
    /\ \A i \in DOMAIN tombs :
          /\ tombs[i].at <= clock /\ tombs[i].version <= clock
          /\ ~Described => tombs[i].version = 0
          /\ rows[tombs[i].key] = 0 \/ rows[tombs[i].key] > tombs[i].at

\* What a poll has read, against the table as it has moved on since.
ReadInv ==
    ReadDone =>
        /\ poll.asOf <= clock /\ cache.highestVersion <= poll.asOf
        /\ \A k \in Keys :
              /\ poll.rows[k] <= poll.asOf
              /\ rows[k] # 0 /\ rows[k] <= poll.asOf => poll.rows[k] = Only(rows, k)
              /\ poll.asOf = clock => poll.rows[k] = Only(rows, k)

\* The tombstones a poll has read are past its mark; and it has all of them up to
\* the moment it read its rows.
RemovedInv ==
    /\ \A i \in DOMAIN poll.removed :
          /\ poll.removed[i].at > poll.since
          /\ \E j \in DOMAIN tombs : poll.removed[i] = tombs[j]
    /\ poll.pc = "apply" /\ ~poll.full /\ Tombstones # "none" =>
          \A j \in DOMAIN tombs : poll.since < tombs[j].at /\ tombs[j].at <= poll.asOf =>
              \E i \in DOMAIN poll.removed : poll.removed[i] = tombs[j]

\* Nothing at or below a mark that only rows move is waiting to be read.
BelowInv ==
    Versioned /\ ~Described =>
        \A k \in Keys : rows[k] # 0 /\ rows[k] <= cache.highestVersion =>
            cache.items[k] = rows[k]

\* A row that is gone and still held, or still to be applied, has a tombstone
\* that a later poll will return.
DeathInv ==
    Tombstones = "identity" =>
        \A k \in Keys : rows[k] = 0 =>
            /\ cache.items[k] # 0 =>
                  \E j \in DOMAIN tombs : tombs[j].key = k /\ tombs[j].at > cache.highestVersion
            /\ ReadDone /\ poll.rows[k] # 0 =>
                  \E j \in DOMAIN tombs : tombs[j].key = k /\ tombs[j].at > poll.asOf

TableInv == StampInv /\ ReadInv /\ RemovedInv /\ BelowInv /\ DeathInv

LEMMA TombFacts ==
    ASSUME TypeOK
    PROVE  /\ Len(tombs) \in Nat /\ DOMAIN tombs = 1..Len(tombs)
           /\ \A i \in 1..Len(tombs) :
                 /\ tombs[i] \in Tombstone
                 /\ tombs[i].key \in Keys /\ tombs[i].at \in Nat
                 /\ tombs[i].version \in Nat /\ tombs[i].row \in Nat
<1>1. tombs \in Seq(Tombstone)
      BY DEF TypeOK
<1>2. \A t \in Tombstone : t.key \in Keys /\ t.at \in Nat /\ t.version \in Nat /\ t.row \in Nat
      BY DEF Tombstone
<1> QED BY <1>1, <1>2, LenProperties

LEMMA TableInit ==
    ASSUME Init
    PROVE  TableInv /\ CacheTracks
<1>1. TypeOK /\ clock \in Nat
      BY TypeInit, TypedFacts
<1>2. /\ cache.polled = FALSE /\ cache.highestVersion = 0 /\ cache.items = NoRows /\ tombs = <<>>
      /\ poll.pc = "idle" /\ poll.removed = <<>> /\ seenAt = 0 /\ rows = NoRows
      BY DEF Init, FreshCache, IdlePoll
<1>3. /\ \A k \in Keys : rows[k] = 0 /\ cache.items[k] = 0
      /\ DOMAIN tombs = {} /\ DOMAIN poll.removed = {}
      BY <1>2 DEF NoRows
<1> QED BY <1>1, <1>2, <1>3
        DEF TableInv, StampInv, ReadInv, RemovedInv, BelowInv, DeathInv, CacheTracks, ReadDone

\* A write: its stamp is past everything a poll has read or the mark has reached.
LEMMA WriteTable ==
    ASSUME TypeOK, TableInv, NEW k \in Keys, Write(k)
    PROVE  TableInv'
<1>1. /\ clock' = clock + 1 /\ rows' = [rows EXCEPT ![k] = clock + 1]
      /\ UNCHANGED <<config, tombs, cache, poll, seenAt>>
      BY DEF Write
<1>2. /\ clock \in Nat /\ cache.highestVersion \in Nat /\ poll.asOf \in Nat /\ seenAt \in Nat
      /\ rows \in [Keys -> Nat] /\ poll.rows \in [Keys -> Nat] /\ poll.since \in Nat
      BY TypedFacts DEF TypeOK, Rows
<1>3. /\ rows'[k] = clock + 1 /\ \A q \in Keys : q # k => rows'[q] = rows[q]
      /\ \A q \in Keys : rows'[q] \in Nat
      BY <1>1, <1>2
<1>4. StampInv'
  <2>1. \A q \in Keys : rows'[q] <= clock'
        BY <1>1, <1>2, <1>3 DEF TableInv, StampInv
  <2>2. ASSUME NEW i \in DOMAIN tombs
        PROVE  /\ tombs[i].at <= clock' /\ tombs[i].version <= clock'
               /\ ~Described => tombs[i].version = 0
               /\ rows'[tombs[i].key] = 0 \/ rows'[tombs[i].key] > tombs[i].at
    <3>1. tombs[i].key \in Keys /\ tombs[i].at \in Nat /\ tombs[i].version \in Nat
          BY TombFacts
    <3>2. /\ tombs[i].at <= clock /\ tombs[i].version <= clock /\ (~Described => tombs[i].version = 0)
          /\ rows[tombs[i].key] = 0 \/ rows[tombs[i].key] > tombs[i].at
          BY DEF TableInv, StampInv
    <3>3. tombs[i].at <= clock + 1 /\ tombs[i].version <= clock + 1 /\ clock + 1 > tombs[i].at
          BY <1>2, <3>1, <3>2
    <3> QED BY <1>1, <1>3, <3>1, <3>2, <3>3
  <2>3. cache.highestVersion <= clock' /\ seenAt <= clock'
        BY <1>1, <1>2 DEF TableInv, StampInv
  <2> QED BY <1>1, <2>1, <2>2, <2>3 DEF StampInv, Described, Tombstones
<1>5. ReadInv'
  <2>1. SUFFICES ASSUME ReadDone, NEW q \in Keys
                 PROVE  /\ poll.asOf <= clock' /\ cache.highestVersion <= poll.asOf
                        /\ poll.asOf # clock'
                        /\ poll.rows[q] <= poll.asOf
                        /\ rows'[q] # 0 /\ rows'[q] <= poll.asOf => poll.rows[q] = Only(rows', q)
        BY <1>1 DEF ReadInv, ReadDone, Only, TableInv
  <2>2. poll.asOf <= clock /\ cache.highestVersion <= poll.asOf /\ poll.rows[q] <= poll.asOf
        /\ (rows[q] # 0 /\ rows[q] <= poll.asOf => poll.rows[q] = Only(rows, q))
        BY <2>1 DEF TableInv, ReadInv
  <2>3. poll.asOf <= clock' /\ poll.asOf # clock' /\ ~(clock + 1 <= poll.asOf)
        BY <1>1, <1>2, <2>2
  <2> QED BY <1>3, <2>2, <2>3 DEF Only
<1>6. RemovedInv'
      BY <1>1 DEF RemovedInv, TableInv, Tombstones
<1>7. BelowInv'
  <2>1. SUFFICES ASSUME Versioned, ~Described, NEW q \in Keys, rows'[q] # 0, rows'[q] <= cache.highestVersion
                 PROVE  cache.items[q] = rows'[q]
        BY <1>1 DEF BelowInv, Versioned, Described, Tombstones
  <2>2. cache.highestVersion <= clock
        BY DEF TableInv, StampInv
  <2>3. q # k
        BY <1>2, <1>3, <2>1, <2>2
  <2> QED BY <1>3, <2>1, <2>3 DEF TableInv, BelowInv
<1>8. DeathInv'
  <2>1. \A q \in Keys : rows'[q] = 0 => rows[q] = 0
        BY <1>2, <1>3
  <2> QED BY <1>1, <2>1 DEF DeathInv, TableInv, Tombstones, ReadDone
<1> QED BY <1>4, <1>5, <1>6, <1>7, <1>8 DEF TableInv

\* A deletion: its tombstone is past everything a poll has read.
LEMMA DeleteTable ==
    ASSUME TypeOK, MarkInv, TableInv, NEW k \in Keys, Delete(k)
    PROVE  TableInv'
<1> DEFINE t == [key |-> k, at |-> clock + 1,
                 version |-> CASE Tombstones = "own" -> clock + 1
                               [] Tombstones = "last" -> rows[k]
                               [] OTHER -> 0,
                 row |-> IF Described THEN rows[k] ELSE 0]
           n == Len(tombs)
<1>1. /\ clock' = clock + 1 /\ rows' = [rows EXCEPT ![k] = 0]
      /\ UNCHANGED <<config, cache, poll, seenAt>>
      /\ tombs' = IF Tombstones = "none" THEN tombs ELSE Append(tombs, t)
      BY DEF Delete
<1>2. /\ clock \in Nat /\ cache.highestVersion \in Nat /\ poll.asOf \in Nat /\ seenAt \in Nat
      /\ rows \in [Keys -> Nat] /\ poll.rows \in [Keys -> Nat] /\ poll.since \in Nat
      BY TypedFacts DEF TypeOK, Rows
<1>3. /\ rows'[k] = 0 /\ \A q \in Keys : q # k => rows'[q] = rows[q]
      /\ \A q \in Keys : rows'[q] \in Nat
      BY <1>1, <1>2
<1>4. /\ t.key = k /\ t.at = clock + 1 /\ t.version \in Nat /\ t.version <= clock + 1
      /\ (~Described => t.version = 0)
  <2>1. rows[k] \in Nat /\ rows[k] <= clock
        BY <1>2 DEF TableInv, StampInv
  <2>2. t.version \in {clock + 1, rows[k], 0} /\ (~Described => t.version = 0)
        BY DEF Described
  <2> HIDE DEF t
  <2>3. t.version \in Nat /\ t.version <= clock + 1
        BY <1>2, <2>1, <2>2
  <2> QED BY <2>2, <2>3 DEF t
<1>5. n \in Nat /\ DOMAIN tombs = 1..n
      BY TombFacts
<1> HIDE DEF t
<1>6. CASE Tombstones = "none"
  <2>1. tombs = <<>> /\ tombs' = <<>> /\ DOMAIN tombs' = {} /\ DOMAIN tombs = {} /\ poll.removed = <<>>
        BY <1>1, <1>6 DEF MarkInv
  <2>2. DOMAIN poll.removed = {}
        BY <2>1
  <2>3. StampInv'
    <3>1. cache.highestVersion <= clock + 1 /\ seenAt <= clock + 1 /\ \A q \in Keys : rows'[q] <= clock + 1
          BY <1>2, <1>3 DEF TableInv, StampInv
    <3> QED BY <1>1, <2>1, <3>1 DEF StampInv
  <2>4. RemovedInv'
        BY <1>1, <1>6, <2>1, <2>2 DEF RemovedInv, Tombstones
  <2>5. DeathInv'
        BY <1>1, <1>6 DEF DeathInv, Tombstones
  <2>6. ReadInv' /\ BelowInv'
    <3>1. ASSUME ReadDone, NEW q \in Keys
          PROVE  /\ poll.asOf <= clock' /\ cache.highestVersion <= poll.asOf
                 /\ poll.asOf # clock'
                 /\ poll.rows[q] <= poll.asOf
                 /\ rows'[q] # 0 /\ rows'[q] <= poll.asOf => poll.rows[q] = Only(rows', q)
      <4>1. poll.asOf <= clock /\ cache.highestVersion <= poll.asOf /\ poll.rows[q] <= poll.asOf
            /\ (rows[q] # 0 /\ rows[q] <= poll.asOf => poll.rows[q] = Only(rows, q))
            BY <3>1 DEF TableInv, ReadInv
      <4>2. poll.asOf <= clock' /\ poll.asOf # clock'
            BY <1>1, <1>2, <4>1
      <4> QED BY <1>3, <4>1, <4>2 DEF Only
    <3>2. ASSUME Versioned, ~Described, NEW q \in Keys, rows'[q] # 0, rows'[q] <= cache.highestVersion
          PROVE  cache.items[q] = rows'[q]
          BY <1>3, <3>2 DEF TableInv, BelowInv
    <3> QED BY <1>1, <3>1, <3>2 DEF ReadInv, ReadDone, Only, BelowInv, Versioned, Described, Tombstones
  <2> QED BY <2>3, <2>4, <2>5, <2>6 DEF TableInv
<1>7. CASE Tombstones # "none"
  <2>1. tombs' = Append(tombs, t)
        BY <1>1, <1>7
  <2>2. t \in Tombstone
    <3>1. TypeOK'
          BY TableType
    <3>2. tombs' \in Seq(Tombstone) /\ tombs \in Seq(Tombstone)
          BY <3>1 DEF TypeOK
    <3>3. Len(tombs') = n + 1 /\ tombs'[n + 1] = t
          BY <2>1, <3>2
    <3>4. n + 1 \in 1..Len(tombs')
          BY <1>5, <3>3
    <3> QED BY <3>2, <3>3, <3>4, ElementOfSeq
  <2>3. /\ DOMAIN tombs' = 1..(n + 1) /\ tombs'[n + 1] = t
        /\ \A i \in 1..n : tombs'[i] = tombs[i]
    <3>1. tombs \in Seq(Tombstone)
          BY DEF TypeOK
    <3> QED BY <1>5, <2>1, <2>2, <3>1, AppendProperties, LenProperties
  <2>4. \A i \in 1..(n + 1) : i \in 1..n \/ i = n + 1
        BY <1>5
  <2>5. \A i \in 1..n : i \in 1..(n + 1)
        BY <1>5
  <2>6. StampInv'
    <3>1. cache.highestVersion <= clock + 1 /\ seenAt <= clock + 1 /\ \A q \in Keys : rows'[q] <= clock + 1
          BY <1>2, <1>3 DEF TableInv, StampInv
    <3>2. ASSUME NEW i \in 1..(n + 1)
          PROVE  /\ tombs'[i].at <= clock + 1 /\ tombs'[i].version <= clock + 1
                 /\ ~Described => tombs'[i].version = 0
                 /\ rows'[tombs'[i].key] = 0 \/ rows'[tombs'[i].key] > tombs'[i].at
      <4>1. CASE i = n + 1
            BY <1>2, <1>3, <1>4, <2>3, <4>1
      <4>2. CASE i \in 1..n
        <5>1. tombs[i].key \in Keys /\ tombs[i].at \in Nat /\ tombs[i].version \in Nat
              BY <4>2, TombFacts
        <5>2. /\ tombs[i].at <= clock /\ tombs[i].version <= clock /\ (~Described => tombs[i].version = 0)
              /\ rows[tombs[i].key] = 0 \/ rows[tombs[i].key] > tombs[i].at
              BY <1>5, <4>2 DEF TableInv, StampInv
        <5>3. tombs[i].at <= clock + 1 /\ tombs[i].version <= clock + 1
              BY <1>2, <5>1, <5>2, SMTT(30)
        <5> QED BY <1>3, <2>3, <4>2, <5>1, <5>2, <5>3
      <4> QED BY <2>4, <4>1, <4>2
    <3> QED BY <1>1, <2>3, <3>1, <3>2 DEF StampInv, Described, Tombstones
  <2>7. ReadInv' /\ BelowInv'
    <3>1. ASSUME ReadDone, NEW q \in Keys
          PROVE  /\ poll.rows[q] <= poll.asOf
                 /\ rows'[q] # 0 /\ rows'[q] <= poll.asOf => poll.rows[q] = Only(rows', q)
      <4>1. poll.rows[q] <= poll.asOf
            /\ (rows[q] # 0 /\ rows[q] <= poll.asOf => poll.rows[q] = Only(rows, q))
            BY <3>1 DEF TableInv, ReadInv
      <4> QED BY <1>3, <4>1 DEF Only
    <3>2. ASSUME Versioned, ~Described, NEW q \in Keys, rows'[q] # 0, rows'[q] <= cache.highestVersion
          PROVE  cache.items[q] = rows'[q]
          BY <1>3, <3>2 DEF TableInv, BelowInv
    <3>3. ReadDone => poll.asOf <= clock' /\ cache.highestVersion <= poll.asOf /\ poll.asOf # clock'
      <4>1. ReadDone => poll.asOf <= clock /\ cache.highestVersion <= poll.asOf
            BY DEF TableInv, ReadInv
      <4> QED BY <1>1, <1>2, <4>1
    <3> QED BY <1>1, <3>1, <3>2, <3>3 DEF ReadInv, ReadDone, Only, BelowInv, Versioned, Described, Tombstones
  <2>8. RemovedInv'
    <3>1. ASSUME NEW i \in DOMAIN poll.removed
          PROVE  poll.removed[i].at > poll.since /\ \E j \in 1..(n + 1) : poll.removed[i] = tombs'[j]
          BY <1>5, <2>3, <2>5 DEF TableInv, RemovedInv
    <3>2. ASSUME poll.pc = "apply", ~poll.full, NEW j \in 1..(n + 1),
                 poll.since < tombs'[j].at, tombs'[j].at <= poll.asOf
          PROVE  \E i \in DOMAIN poll.removed : poll.removed[i] = tombs'[j]
      <4>1. poll.asOf <= clock
            BY <3>2 DEF TableInv, ReadInv, ReadDone
      <4>2. j # n + 1
            BY <1>2, <1>4, <2>3, <3>2, <4>1
      <4>3. j \in DOMAIN tombs /\ tombs'[j] = tombs[j]
            BY <1>5, <2>3, <2>4, <4>2
      <4> QED BY <1>7, <3>2, <4>3 DEF TableInv, RemovedInv
    <3> QED BY <1>1, <2>3, <3>1, <3>2 DEF RemovedInv, Tombstones
  <2>9. DeathInv'
    <3>1. SUFFICES ASSUME Tombstones = "identity", NEW q \in Keys, rows'[q] = 0
                   PROVE  /\ cache.items[q] # 0 => \E j \in 1..(n + 1) :
                                tombs'[j].key = q /\ tombs'[j].at > cache.highestVersion
                          /\ ReadDone /\ poll.rows[q] # 0 => \E j \in 1..(n + 1) :
                                tombs'[j].key = q /\ tombs'[j].at > poll.asOf
          BY <1>1, <2>3 DEF DeathInv, Tombstones, ReadDone
    <3>2. CASE q = k
      <4>1. n + 1 \in 1..(n + 1) /\ tombs'[n + 1].key = q
            BY <1>4, <1>5, <2>3, <3>2
      <4>2. tombs'[n + 1].at > cache.highestVersion
            BY <1>2, <1>4, <2>3 DEF TableInv, StampInv
      <4>3. ReadDone => tombs'[n + 1].at > poll.asOf
            BY <1>2, <1>4, <2>3 DEF TableInv, ReadInv
      <4> QED BY <4>1, <4>2, <4>3
    <3>3. CASE q # k
      <4>1. rows[q] = 0
            BY <1>3, <3>1, <3>3
      <4>2. /\ cache.items[q] # 0 => \E j \in 1..n : tombs[j].key = q /\ tombs[j].at > cache.highestVersion
            /\ ReadDone /\ poll.rows[q] # 0 => \E j \in 1..n : tombs[j].key = q /\ tombs[j].at > poll.asOf
            BY <1>5, <3>1, <4>1 DEF TableInv, DeathInv
      <4> QED BY <2>3, <2>5, <4>2
    <3> QED BY <3>2, <3>3
  <2> QED BY <2>6, <2>7, <2>8, <2>9 DEF TableInv
<1> QED BY <1>6, <1>7

LEMMA DeletedSinceProperty ==
    ASSUME TypeOK, NEW since
    PROVE  /\ \A i \in DOMAIN deletedSince(since) :
                 \E j \in DOMAIN tombs : deletedSince(since)[i] = tombs[j] /\ tombs[j].at > since
           /\ \A j \in DOMAIN tombs : tombs[j].at > since =>
                 \E i \in DOMAIN deletedSince(since) : deletedSince(since)[i] = tombs[j]
<1> DEFINE S == {i \in DOMAIN tombs : tombs[i].at > since}
           d == deletedSince(since)
<1>1. tombs \in Seq(Tombstone)
      BY DEF TypeOK
<1>2. S \in SUBSET (1..Len(tombs)) /\ d = kept(tombs, S)
      BY <1>1, LenProperties DEF deletedSince
<1>3. \A j \in DOMAIN tombs : tombs[j].at > since <=> j \in S
      OBVIOUS
<1>4. S \subseteq DOMAIN tombs
      OBVIOUS
<1> HIDE DEF S, d
<1>5. d \in Seq(Tombstone)
      BY <1>1, <1>2, KeptProperty
<1>6. PICK sel \in [1..Len(d) -> S] :
         /\ \A i \in 1..Len(d) : d[i] = tombs[sel[i]]
         /\ \A x \in S : \E i \in 1..Len(d) : sel[i] = x
      BY <1>1, <1>2, KeptProperty
<1>7. DOMAIN d = 1..Len(d)
      BY <1>5, LenProperties
<1>8. ASSUME NEW i \in DOMAIN d PROVE \E j \in DOMAIN tombs : d[i] = tombs[j] /\ tombs[j].at > since
  <2>1. sel[i] \in S /\ d[i] = tombs[sel[i]]
        BY <1>6, <1>7
  <2> QED BY <1>3, <1>4, <2>1
<1>9. ASSUME NEW j \in DOMAIN tombs, tombs[j].at > since PROVE \E i \in DOMAIN d : d[i] = tombs[j]
  <2>1. PICK i \in 1..Len(d) : sel[i] = j
        BY <1>3, <1>6, <1>9
  <2> QED BY <1>6, <1>7, <2>1
<1> QED BY <1>8, <1>9 DEF d

\* A step of a poll before its answer is applied.
LEMMA PollReadsTable ==
    ASSUME TypeOK, MarkInv, TableInv, PollBegins \/ PollReadsRows \/ PollReadsDeleted \/ PollFails
    PROVE  TableInv'
<1>1. UNCHANGED <<config, rows, tombs, clock, cache, seenAt>>
      BY DEF PollBegins, PollReadsRows, PollReadsDeleted, PollFails, outside
<1>2. StampInv' /\ BelowInv'
      BY <1>1 DEF TableInv, StampInv, BelowInv, Versioned, Described, Tombstones
<1>3. CASE PollBegins \/ PollFails
  <2>1. poll'.removed = <<>> /\ poll'.pc \in {"idle", "rows"}
    <3>1. CASE PollFails
          BY <3>1 DEF PollFails, IdlePoll
    <3>2. CASE PollBegins
      <4>1. PICK full : poll' = [IdlePoll EXCEPT !.pc = "rows", !.full = full, !.since = cache.highestVersion]
            BY <3>2 DEF PollBegins
      <4> QED BY <4>1 DEF IdlePoll
    <3> QED BY <1>3, <3>1, <3>2
  <2>2. DOMAIN poll'.removed = {}
        BY <2>1
  <2> QED BY <1>1, <1>2, <2>1, <2>2 DEF TableInv, ReadInv, RemovedInv, DeathInv, ReadDone, Tombstones
<1>4. CASE PollReadsRows
  <2>1. /\ poll.pc = "rows"
        /\ poll'.rows = rowsSince(IF poll.full THEN 0 ELSE poll.since)
        /\ poll'.asOf = clock /\ poll'.full = poll.full /\ poll'.since = poll.since
        /\ poll'.removed = poll.removed
        /\ poll'.pc = IF Tombstones # "none" /\ (~poll.full \/ cache.lightweight)
                      THEN "deleted" ELSE "apply"
        BY <1>4 DEF PollReadsRows, TypeOK, Poll
  <2>2. \A k \in Keys : rows[k] \in Nat /\ rows[k] <= clock
        BY TypedFacts DEF TableInv, StampInv, Rows
  <2>3. clock \in Nat /\ poll.since \in Nat
        BY TypedFacts
  <2>4. \A k \in Keys : poll'.rows[k] = IF poll.full \/ rows[k] > poll.since THEN rows[k] ELSE 0
        BY <2>1, <2>2 DEF rowsSince
  <2>5. ReadInv'
    <3>1. \A k \in Keys : poll'.rows[k] <= clock
          BY <2>2, <2>3, <2>4
    <3>2. cache.highestVersion <= clock
          BY DEF TableInv, StampInv
    <3> QED BY <1>1, <2>1, <2>3, <2>4, <3>1, <3>2 DEF ReadInv, Only
  <2>6. RemovedInv'
        BY <1>1, <2>1 DEF TableInv, RemovedInv, Tombstones
  <2>7. DeathInv'
    <3>1. \A k \in Keys : rows[k] = 0 => poll'.rows[k] = 0
          BY <2>4
    <3> QED BY <1>1, <3>1 DEF TableInv, DeathInv, Tombstones
  <2> QED BY <1>2, <2>5, <2>6, <2>7 DEF TableInv
<1>5. CASE PollReadsDeleted
  <2>1. /\ poll.pc = "deleted" /\ poll'.pc = "apply"
        /\ poll'.removed = deletedSince(poll.since)
        /\ poll'.rows = poll.rows /\ poll'.asOf = poll.asOf
        /\ poll'.full = poll.full /\ poll'.since = poll.since
        BY <1>5 DEF PollReadsDeleted, TypeOK, Poll
  <2>2. ReadInv' /\ DeathInv'
        BY <1>1, <2>1 DEF TableInv, ReadInv, DeathInv, ReadDone, Only, Tombstones
  <2>3. RemovedInv'
    <3> DEFINE d == deletedSince(poll.since)
    <3>1. /\ \A i \in DOMAIN d : \E j \in DOMAIN tombs : d[i] = tombs[j] /\ tombs[j].at > poll.since
          /\ \A j \in DOMAIN tombs : tombs[j].at > poll.since => \E i \in DOMAIN d : d[i] = tombs[j]
          BY DeletedSinceProperty
    <3>2. \A j \in DOMAIN tombs : poll.since < tombs[j].at => tombs[j].at > poll.since
      <4>1. \A j \in DOMAIN tombs : tombs[j].at \in Nat /\ poll.since \in Nat
            BY TombFacts, TypedFacts
      <4> QED BY <4>1
    <3> HIDE DEF d
    <3>3. /\ \A i \in DOMAIN d : d[i].at > poll.since /\ \E j \in DOMAIN tombs : d[i] = tombs[j]
          /\ \A j \in DOMAIN tombs : poll.since < tombs[j].at => \E i \in DOMAIN d : d[i] = tombs[j]
          BY <3>1, <3>2
    <3>4. poll'.removed = d
          BY <2>1 DEF d
    <3> QED BY <1>1, <2>1, <3>3, <3>4 DEF RemovedInv, Tombstones
  <2> QED BY <1>2, <2>2, <2>3 DEF TableInv
<1> QED BY <1>3, <1>4, <1>5

\* A row in the table that was there when the poll read is in the cache once the
\* poll is applied, unless tombstones move the mark.
LEMMA AppliedAlive ==
    ASSUME TypeOK, MarkInv, TableInv, poll.pc = "apply", ~Described, NEW diff \in Diffs,
           NEW k \in Keys, rows[k] # 0, rows[k] <= poll.asOf
    PROVE  diff.items[k] = rows[k]
<1>1. poll.rows[k] = Only(rows, k)
      BY DEF TableInv, ReadInv, ReadDone
<1>2. CASE poll.full
  <2>1. diff \in fullDiff
        BY <1>2 DEF Diffs
  <2> QED BY <1>1, <1>2, <2>1, FullDiffProperty DEF Only
<1>3. CASE ~poll.full
  <2>1. diff \in forwardDiff
        BY <1>3 DEF Diffs
  <2>2. diff.items[k] =
              IF \E i \in 1..Len(poll.removed) : poll.removed[i].key = k /\ takes(i)
              THEN 0 ELSE readForward[k]
        BY <2>1, ForwardItems
  <2>3. Incremental /\ Versioned /\ poll.since = cache.highestVersion
        BY <1>3, ConfigFacts DEF MarkInv, TypeOK
  <2>4. /\ rows[k] \in Nat /\ poll.since \in Nat /\ cache.highestVersion \in Nat
        /\ poll.rows[k] \in Nat /\ cache.items[k] \in Nat
        BY TypedFacts DEF Rows
  <2>5. readForward[k] = rows[k]
    <3>1. CASE rows[k] > poll.since
          BY <1>1, <3>1 DEF Only, readForward
    <3>2. CASE ~(rows[k] > poll.since)
      <4>1. rows[k] <= cache.highestVersion
            BY <2>3, <2>4, <3>2
      <4>2. cache.items[k] = rows[k]
            BY <2>3, <4>1 DEF TableInv, BelowInv
      <4> QED BY <1>1, <1>3, <3>2, <4>2 DEF Only, readForward
    <3> QED BY <3>1, <3>2
  <2>6. ASSUME NEW i \in 1..Len(poll.removed), poll.removed[i].key = k
        PROVE  ~takes(i)
    <3>1. poll.rows[k] # 0
      <4>1. PICK j \in DOMAIN tombs : poll.removed[i] = tombs[j]
            BY RemovedFacts DEF TableInv, RemovedInv
      <4>2. poll.removed[i].at > poll.since /\ poll.removed[i].at \in Nat
            BY RemovedFacts DEF TableInv, RemovedInv
      <4>3. rows[k] > tombs[j].at
            BY <2>6, <4>1 DEF TableInv, StampInv
      <4>4. rows[k] > poll.since
            BY <2>4, <4>1, <4>2, <4>3
      <4> QED BY <1>1, <4>4 DEF Only
    <3> QED BY <2>6, <3>1 DEF takes, stale
  <2> QED BY <2>2, <2>5, <2>6
<1> QED BY <1>2, <1>3

LEMMA MarkBelowRead ==
    ASSUME TypeOK, MarkInv, TableInv, poll.pc = "apply"
    PROVE  /\ markReached \in Nat /\ markReached <= clock
           /\ ~Described => markReached <= poll.asOf
<1>1. /\ markReached \in Nat /\ clock \in Nat /\ poll.asOf \in Nat /\ cache.highestVersion \in Nat
      /\ \A k \in Keys : poll.rows[k] \in Nat
      BY MarkProperty, TypedFacts DEF Rows
<1>2. poll.asOf <= clock /\ cache.highestVersion <= poll.asOf /\ \A k \in Keys : poll.rows[k] <= poll.asOf
      BY DEF TableInv, ReadInv, ReadDone
<1>3. ASSUME NEW i \in 1..Len(poll.removed)
      PROVE  /\ poll.removed[i].version \in Nat /\ poll.removed[i].version <= clock
             /\ (~Described => poll.removed[i].version = 0)
  <2>1. PICK j \in DOMAIN tombs : poll.removed[i] = tombs[j]
        BY RemovedFacts DEF TableInv, RemovedInv
  <2> QED BY <2>1, RemovedFacts DEF TableInv, StampInv
<1>4. ~Versioned => markReached = 0
      BY MarkProperty
<1>5. Versioned => \/ markReached = cache.highestVersion
                   \/ \E k \in Keys : markReached = poll.rows[k]
                   \/ \E i \in 1..Len(poll.removed) : markReached = poll.removed[i].version
      BY MarkProperty
<1>6. CASE ~Versioned
      BY <1>1, <1>4, <1>6
<1>7. CASE markReached = cache.highestVersion
      BY <1>1, <1>2, <1>7
<1>8. ASSUME NEW k \in Keys, markReached = poll.rows[k]
      PROVE  markReached <= clock /\ markReached <= poll.asOf
      BY <1>1, <1>2, <1>8
<1>9. ASSUME NEW i \in 1..Len(poll.removed), markReached = poll.removed[i].version
      PROVE  markReached <= clock /\ (~Described => markReached <= poll.asOf)
      BY <1>1, <1>3, <1>9
<1> QED BY <1>1, <1>5, <1>6, <1>7, <1>8, <1>9

\* A row held that is gone: the poll takes it, if its tombstone was there when
\* the rows were read.
LEMMA AppliedGone ==
    ASSUME TypeOK, MarkInv, TableInv, poll.pc = "apply", Tombstones = "identity", NEW diff \in Diffs,
           NEW k \in Keys, rows[k] = 0, diff.items[k] # 0
    PROVE  \E j \in DOMAIN tombs : tombs[j].key = k /\ tombs[j].at > poll.asOf
<1>0. ~Described /\ ReadDone
      BY DEF Described, ReadDone
<1>1. CASE poll.rows[k] # 0
      BY <1>0, <1>1 DEF TableInv, DeathInv
<1>2. CASE poll.rows[k] = 0
  <2>1. ~poll.full
    <3>1. SUFFICES ASSUME poll.full PROVE FALSE
          BY TypedFacts
    <3>2. diff \in fullDiff
          BY <3>1 DEF Diffs
    <3> QED BY <1>2, <3>2, FullDiffProperty
  <2>2. diff \in forwardDiff
        BY <2>1 DEF Diffs
  <2>3. diff.items[k] =
              IF \E i \in 1..Len(poll.removed) : poll.removed[i].key = k /\ takes(i)
              THEN 0 ELSE readForward[k]
        BY <2>2, ForwardItems
  <2>4. cache.items[k] # 0 /\ ~\E i \in 1..Len(poll.removed) : poll.removed[i].key = k /\ takes(i)
        BY <1>2, <2>3 DEF readForward
  <2>5. PICK j \in DOMAIN tombs : tombs[j].key = k /\ tombs[j].at > cache.highestVersion
        BY <2>4 DEF TableInv, DeathInv
  <2>6. poll.since = cache.highestVersion /\ tombs[j].at \in Nat /\ poll.since \in Nat /\ poll.asOf \in Nat
        BY TombFacts, TypedFacts DEF MarkInv
  <2>7. ASSUME tombs[j].at <= poll.asOf PROVE FALSE
    <3>1. PICK i \in DOMAIN poll.removed : poll.removed[i] = tombs[j]
      <4>1. poll.since < tombs[j].at
            BY <2>5, <2>6
      <4> QED BY <2>1, <2>7, <4>1 DEF TableInv, RemovedInv
    <3>2. i \in 1..Len(poll.removed) /\ poll.removed[i].key = k
          BY <2>5, <3>1, RemovedFacts
    <3>3. takes(i)
          BY <1>0, <1>2, <3>2 DEF takes, stale
    <3> QED BY <2>4, <3>2, <3>3
  <2>8. tombs[j].at > poll.asOf
        BY <2>6, <2>7
  <2> QED BY <2>5, <2>8
<1> QED BY <1>1, <1>2

LEMMA PollAppliesTable ==
    ASSUME TypeOK, MarkInv, TableInv, PollApplies
    PROVE  TableInv' /\ CacheTracks'
<1>1. PICK diff \in Diffs : cache' = applied(diff)
      BY PollAppliesDiff
<1>2. /\ poll.pc = "apply" /\ poll' = IdlePoll /\ seenAt' = poll.asOf
      /\ UNCHANGED <<config, rows, tombs, clock>>
      BY PollAppliesDiff
<1>3. cache'.items = diff.items /\ cache'.highestVersion = markReached
      BY <1>1, AppliedFields
<1>4. /\ poll'.pc = "idle" /\ poll'.removed = <<>> /\ DOMAIN poll'.removed = {}
      BY <1>2 DEF IdlePoll
<1>5. /\ markReached \in Nat /\ markReached <= clock /\ (~Described => markReached <= poll.asOf)
      BY <1>2, MarkBelowRead
<1>6. poll.asOf <= clock /\ poll.asOf \in Nat /\ clock \in Nat
      BY <1>2, TypedFacts DEF TableInv, ReadInv, ReadDone
<1>7. StampInv'
      BY <1>2, <1>3, <1>5, <1>6 DEF TableInv, StampInv, Described, Tombstones
<1>8. ReadInv' /\ RemovedInv'
      BY <1>4 DEF ReadInv, RemovedInv, ReadDone
<1>9. BelowInv'
  <2>1. SUFFICES ASSUME Versioned, ~Described, NEW k \in Keys, rows[k] # 0, rows[k] <= markReached
                 PROVE  diff.items[k] = rows[k]
        BY <1>2, <1>3 DEF BelowInv, Versioned, Described, Tombstones
  <2>2. rows[k] \in Nat
        BY TypedFacts DEF Rows
  <2>3. rows[k] <= poll.asOf
        BY <1>5, <1>6, <2>1, <2>2
  <2> QED BY <1>2, <2>1, <2>3, AppliedAlive
<1>10. DeathInv'
  <2>1. SUFFICES ASSUME Tombstones = "identity", NEW k \in Keys, rows[k] = 0, diff.items[k] # 0
                 PROVE  \E j \in DOMAIN tombs : tombs[j].key = k /\ tombs[j].at > markReached
        BY <1>2, <1>3, <1>4 DEF DeathInv, Tombstones, ReadDone
  <2>2. PICK j \in DOMAIN tombs : tombs[j].key = k /\ tombs[j].at > poll.asOf
        BY <1>2, <2>1, AppliedGone
  <2>3. ~Described /\ tombs[j].at \in Nat
        BY <2>1, TombFacts DEF Described
  <2>4. tombs[j].at > markReached
        BY <1>5, <1>6, <2>2, <2>3
  <2> QED BY <2>2, <2>4
<1>11. CacheTracks'
  <2>1. SUFFICES ASSUME poll.asOf = clock, ~Incremental \/ Tombstones = "identity"
                 PROVE  diff.items = rows
        BY <1>2, <1>3 DEF CacheTracks, Incremental, Tombstones
  <2>2. diff.items \in Rows /\ rows \in Rows
        BY DiffType, TypedFacts
  <2>3. ASSUME NEW k \in Keys PROVE diff.items[k] = rows[k]
    <3>1. rows[k] \in Nat /\ rows[k] <= clock
          BY <2>2 DEF TableInv, StampInv, Rows
    <3>2. ~Described
          BY <2>1, ConfigFacts DEF Described, TypeOK
    <3>3. CASE rows[k] # 0
          BY <1>2, <2>1, <3>1, <3>2, <3>3, AppliedAlive
    <3>4. CASE rows[k] = 0 /\ poll.full
      <4>1. poll.rows[k] = Only(rows, k)
            BY <1>2, <2>1 DEF TableInv, ReadInv, ReadDone
      <4>2. diff \in fullDiff
            BY <3>4 DEF Diffs
      <4> QED BY <3>4, <4>1, <4>2, FullDiffProperty DEF Only
    <3>5. CASE rows[k] = 0 /\ ~poll.full
      <4>1. Incremental
            BY <1>2, <3>5 DEF MarkInv
      <4>2. SUFFICES ASSUME diff.items[k] # 0 PROVE FALSE
            BY <3>5
      <4>3. PICK j \in DOMAIN tombs : tombs[j].key = k /\ tombs[j].at > poll.asOf
            BY <1>2, <2>1, <3>5, <4>1, <4>2, AppliedGone
      <4>4. tombs[j].at <= clock /\ tombs[j].at \in Nat
            BY TombFacts DEF TableInv, StampInv
      <4> QED BY <1>6, <2>1, <4>3, <4>4
    <3> QED BY <3>3, <3>4, <3>5
  <2> QED BY <2>2, <2>3 DEF Rows
<1> QED BY <1>7, <1>8, <1>9, <1>10, <1>11 DEF TableInv

LEMMA RestartTable ==
    ASSUME TypeOK, TableInv, Restart
    PROVE  TableInv' /\ CacheTracks'
<1>0. cache' = FreshCache(nextEpoch) /\ poll' = IdlePoll /\ seenAt' = 0 /\ UNCHANGED <<config, rows, tombs, clock>>
      BY DEF Restart, outside
<1>1. /\ cache'.items = NoRows /\ cache'.highestVersion = 0 /\ cache'.polled = FALSE
      /\ poll'.pc = "idle" /\ poll'.removed = <<>> /\ DOMAIN poll'.removed = {}
  <2>1. poll'.pc = "idle" /\ poll'.removed = <<>>
        BY <1>0 DEF IdlePoll
  <2> QED BY <1>0, <2>1 DEF FreshCache
<1>2. \A k \in Keys : cache'.items[k] = 0 /\ rows[k] \in Nat
      BY <1>1, TypedFacts DEF NoRows, Rows
<1>3. clock \in Nat
      BY TypedFacts
<1>4. StampInv'
      BY <1>0, <1>1, <1>3 DEF TableInv, StampInv, Described, Tombstones
<1>5. ReadInv' /\ RemovedInv' /\ CacheTracks'
      BY <1>1 DEF ReadInv, RemovedInv, ReadDone, CacheTracks
<1>6. BelowInv' /\ DeathInv'
      BY <1>0, <1>1, <1>2 DEF BelowInv, DeathInv, ReadDone
<1> QED BY <1>4, <1>5, <1>6 DEF TableInv

LEMMA TableStep ==
    ASSUME TypeOK, MarkInv, TableInv, CacheTracks, [Next]_vars
    PROVE  TableInv' /\ CacheTracks'
<1>1. CASE UNCHANGED <<config, rows, tombs, clock, cache, poll, seenAt>>
  <2>1. StampInv' /\ ReadInv' /\ RemovedInv'
        BY <1>1 DEF TableInv, StampInv, ReadInv, RemovedInv, ReadDone, Only, Described, Tombstones
  <2>2. BelowInv' /\ DeathInv' /\ CacheTracks'
        BY <1>1 DEF TableInv, BelowInv, DeathInv, CacheTracks, ReadDone, Versioned, Incremental,
                    Described, Tombstones
  <2> QED BY <2>1, <2>2 DEF TableInv
<1>2. CASE \E k \in Keys : Write(k) \/ Delete(k)
  <2>1. TableInv'
        BY <1>2, WriteTable, DeleteTable
  <2>2. clock' = clock + 1 /\ seenAt' = seenAt /\ seenAt <= clock /\ clock \in Nat /\ seenAt \in Nat
        BY <1>2, TypedFacts DEF Write, Delete, TableInv, StampInv, TypeOK
  <2>3. seenAt' # clock'
        BY <2>2
  <2> QED BY <2>1, <2>3 DEF CacheTracks
<1>3. CASE PollBegins \/ PollReadsRows \/ PollReadsDeleted \/ PollFails
  <2>1. UNCHANGED <<config, rows, clock, cache, seenAt>>
        BY <1>3 DEF PollBegins, PollReadsRows, PollReadsDeleted, PollFails, outside
  <2>2. CacheTracks'
        BY <2>1 DEF CacheTracks, Incremental, Tombstones
  <2> QED BY <1>3, <2>2, PollReadsTable
<1>4. CASE PollApplies
      BY <1>4, PollAppliesTable
<1>5. CASE Restart
      BY <1>5, RestartTable
<1> QED BY <1>1, <1>2, <1>3, <1>4, <1>5, StepKinds DEF vars

\* Everything at or below a mark that only rows move is in the cache, so no row
\* waits for a forward read that will not return it (watch.go, applyLocked): what
\* is committed after a poll's read has a later stamp, and a row found at the
\* mark was read by the poll that moved it there.
THEOREM MarkCovers == Spec => []NothingBelowMark
<1>1. Init => TypeOK /\ MarkInv /\ TableInv /\ CacheTracks
      BY TypeInit, MarkInit, TableInit
<1>2. TypeOK /\ MarkInv /\ TableInv /\ CacheTracks /\ [Next]_vars
         => TypeOK' /\ MarkInv' /\ TableInv' /\ CacheTracks'
      BY TypeStep, MarkStep, TableStep
<1>3. TypeOK /\ TableInv => NothingBelowMark
      BY ConfigFacts DEF TableInv, BelowInv, NothingBelowMark, TypeOK
<1> QED BY <1>1, <1>2, <1>3, PTL DEF Spec

\* A poll that read everything written so far leaves the cache equal to the table
\* (watch.go, applyLocked): with identity tombstones because a row that is gone
\* and still held has a tombstone past the mark, which the next forward poll
\* returns, and one that arrives together with its row is not applied to it.
THEOREM CacheTracksTable == Spec => []CacheTracks
<1>1. Init => TypeOK /\ MarkInv /\ TableInv /\ CacheTracks
      BY TypeInit, MarkInit, TableInit
<1>2. TypeOK /\ MarkInv /\ TableInv /\ CacheTracks /\ [Next]_vars
         => TypeOK' /\ MarkInv' /\ TableInv' /\ CacheTracks'
      BY TypeStep, MarkStep, TableStep
<1> QED BY <1>1, <1>2, PTL DEF Spec

-----------------------------------------------------------------------------
(* What the clients hold. *)

\* The configurations in which the ring alone has to account for what a client
\* missed: nothing but full reads shows a deletion, and a mapped version has a
\* ring, starts past the counter's first value, and has seen no restart.
RingSuffices ==
    /\ Tombstones = "none"
    /\ Versioned => config.historySize > 0 /\ config.firstStamp > 0 /\ faults.restarts = 0

\* Stamps tell rows apart and are past the first one; what a poll read at or
\* below the mark is held.
DistinctInv ==
    /\ \A k \in Keys : /\ rows[k] # 0 => rows[k] > config.firstStamp
                       /\ poll.rows[k] # 0 => poll.rows[k] > config.firstStamp
                       /\ poll.rows[k] <= clock /\ cache.items[k] <= clock
    /\ \A k, q \in Keys : /\ rows[k] # 0 /\ rows[k] = rows[q] => k = q
                          /\ poll.rows[k] # 0 /\ poll.rows[k] = poll.rows[q] => k = q
    /\ Versioned /\ ~Described /\ ReadDone =>
          \A k \in Keys : poll.rows[k] # 0 /\ poll.rows[k] <= cache.highestVersion =>
              cache.items[k] = poll.rows[k]

\* What a client that is sent an event holds of its row afterwards.
Heir(e) == IF matches(e.value) THEN e.value ELSE 0

\* A step behind which only deletions can have its version: the change that has
\* the version itself, or a deletion.
Settles(s) == s.event.version = s.version \/ s.event.type = "Deleted"

\* Steps in the order of their versions, up to the version of a cache: on the
\* counter they are consecutive and end at it, on a mapped version they start
\* where they end, the deletions of a version last.
Ordered(H, c) ==
    /\ \A i \in 1..Len(H) :
          /\ H[i].event.version <= H[i].version
          /\ ~Versioned => /\ H[i].version = c.version - Len(H) + i
                           /\ H[i].from = H[i].version - 1
                           /\ H[i].event.version = H[i].version
          /\ Versioned => /\ H[i].from = H[i].version
                          /\ 0 < H[i].version /\ H[i].version <= c.highestVersion
    /\ Versioned => \A i, j \in 1..Len(H) : i < j =>
          /\ H[i].version <= H[j].version
          /\ H[i].version = H[j].version /\ Settles(H[i]) => H[j].event.type = "Deleted"

\* The last step sent about a row tells what is held of it.
Tells(H, items) ==
    \A j \in 1..Len(H) :
        sends(H[j].event) /\ Heir(H[j].event) # selected(items)[H[j].event.key] =>
            \E i \in 1..Len(H) : /\ j < i /\ sends(H[i].event)
                                 /\ H[i].event.key = H[j].event.key

\* A client at a version has not seen a step, or cannot be told whether it has.
Owes(s, at) == s.version > at \/ (Stalled(s) /\ s.version = at)

\* The ring of a cache has something about a row for a client at a version.
Pending(c, at, k) ==
    \E i \in 1..Len(c.history) : /\ sends(c.history[i].event)
                                 /\ Owes(c.history[i], at)
                                 /\ c.history[i].event.key = k

\* replayable, of a cache.
Replayable(c, at) ==
    /\ at # currentVersion(c) => /\ at < currentVersion(c)
                                 /\ c.history # <<>>
                                 /\ c.history[1].from <= at
    /\ c.forgotStalled # 0 => at > c.forgotStalled

\* What a client holds of a row is what a cache does; or the client listed, and
\* read a row the cache has yet to see.
Agrees(c, k, x) ==
    \/ x = selected(c.items)[k]
    \/ config.byListing /\ (matches(c.items[k]) => rows[k] # c.items[k])

\* If the ring accounts for all since a version, a client that holds this much
\* at that version is right about every row nothing is pending of.
Caught(c, store, at) ==
    Replayable(c, at) => \A k \in Keys : Pending(c, at, k) \/ Agrees(c, k, store[k])

\* What a client holds after the first n events of its queue, and its version.
About(e, k) == e.type # "Bookmark" /\ e.key = k
View(store, q, n) ==
    [k \in Keys |->
        LET about == {i \in 1..n : About(q[i], k)}
        IN  IF about = {} THEN store[k] ELSE q[Max(about)].value]
VersionAt(u, n) == IF n = 0 THEN u.at ELSE u.queue[n].version
EndsInitial(e) == e.type = "Bookmark" /\ e.ends
Synced(u, n) == u.pc = "online" \/ \E j \in 1..n : EndsInitial(u.queue[j])

\* A client that streams will hold what the cache does; and wherever it is cut
\* off after its initial sync, the version it resumes from is one the ring makes
\* up for, or is refused.
Follows(c, u) ==
    /\ \A i \in 1..Len(u.queue) : u.queue[i].type = "Deleted" => u.queue[i].value = 0
    /\ \A k \in Keys : Agrees(c, k, View(u.store, u.queue, Len(u.queue))[k])
    /\ \A n \in 0..Len(u.queue) : Synced(u, n) =>
          /\ VersionAt(u, n) <= currentVersion(c)
          /\ Caught(c, View(u.store, u.queue, n), VersionAt(u, n))

\* A client as it is served once its initial events are in front of its queue.
Admitted(u) ==
    [u EXCEPT !.pc = IF u.pc = "starting" THEN "syncing" ELSE "online",
              !.queue = u.initial \o u.queue, !.initial = <<>>]

ClientOK(c, u) ==
    /\ u.pc \notin {"snapshotting", "replaying", "replayed"}
    /\ u.pc = "new" => u.at = 0
    /\ u.pc \in {"listing", "offline"} => u.queue = <<>>
    /\ u.pc = "listing" => u.at <= currentVersion(c) /\ config.byListing
    /\ ~u.overtaken =>
          /\ u.pc = "offline" => u.at <= currentVersion(c) /\ Caught(c, u.store, u.at)
          /\ u.pc \in {"starting", "syncing"} => u.at = 0
          /\ u.pc \in Served => Follows(c, u)
          /\ u.pc \in Prepending => Follows(c, Admitted(u))

RingOK ==
    /\ ~cache.lightweight
    /\ Ordered(cache.history, cache)
    /\ Tells(cache.history, cache.items)
    /\ \A c \in Clients : ClientOK(cache, client[c])

RingInv == DistinctInv /\ (RingSuffices => RingOK)

LEMMA JoinQueues ==
    ASSUME NEW s \in Seq(WatchEvent), NEW q \in Seq(WatchEvent), NEW r \in Seq(WatchEvent)
    PROVE  (s \o q) \o r = s \o (q \o r)
BY ConcatAssociative

LEMMA SplitQueue ==
    ASSUME NEW q \in Seq(WatchEvent), NEW n \in 1..Len(q)
    PROVE  /\ SubSeq(q, 1, n) \o <<>> = SubSeq(q, 1, n)
           /\ SubSeq(q, 1, n) \o SubSeq(q, n + 1, Len(q)) = q
<1>1. Len(q) \in Nat /\ \A j \in 1..Len(q) : q[j] \in WatchEvent
      BY LenProperties
<1>2. \A j \in 1..n : q[j] \in WatchEvent
      BY <1>1
<1>3. SubSeq(q, 1, n) \in Seq(WatchEvent)
      BY <1>1, <1>2, SubSeqProperties
<1>4. SubSeq(q, 1, n) \o SubSeq(q, n + 1, Len(q)) = SubSeq(q, 1, Len(q))
  <2>1. 1 \in Int /\ n \in 1..(Len(q) + 1) /\ Len(q) \in Int
        BY <1>1
  <2> QED BY <1>1, <2>1, ConcatAdjacentSubSeq
<1> QED BY <1>3, <1>4, ConcatEmptySeq, SubSeqFull

LEMMA AdmittedFields ==
    ASSUME NEW u \in Client
    PROVE  /\ Admitted(u).pc = (IF u.pc = "starting" THEN "syncing" ELSE "online")
           /\ Admitted(u).queue = u.initial \o u.queue /\ Admitted(u).queue \in Seq(WatchEvent)
           /\ Admitted(u).store = u.store /\ Admitted(u).at = u.at
           /\ Admitted(u) \in Client
<1>1. /\ u.initial \in Seq(WatchEvent) /\ u.queue \in Seq(WatchEvent)
      /\ <<>> \in Seq(WatchEvent)
      BY EmptySeq DEF Client
<1>2. u.initial \o u.queue \in Seq(WatchEvent)
      BY <1>1, ConcatProperties
<1> DEFINE q == u.initial \o u.queue
           pc == IF u.pc = "starting" THEN "syncing" ELSE "online"
<1>3. pc \in Streaming
      BY DEF Streaming, Served
<1>4. Admitted(u) = [u EXCEPT !.pc = pc, !.queue = q, !.initial = <<>>]
      BY DEF Admitted
<1> HIDE DEF q, pc
<1>5. /\ Admitted(u).pc = pc /\ Admitted(u).queue = q
      /\ Admitted(u).store = u.store /\ Admitted(u).at = u.at
      /\ Admitted(u) \in Client
      BY <1>1, <1>2, <1>3, <1>4 DEF Client, q
<1> QED BY <1>2, <1>5 DEF q, pc

LEMMA DistinctInit ==
    ASSUME Init
    PROVE  DistinctInv
BY TypeInit, TypedFacts DEF Init, DistinctInv, FreshCache, NoRows, IdlePoll, ReadDone

LEMMA DistinctStep ==
    ASSUME TypeOK, MarkInv, TableInv, DistinctInv, [Next]_vars
    PROVE  DistinctInv'
<1>0. /\ UNCHANGED config /\ clock \in Nat /\ config.firstStamp \in Nat /\ config.firstStamp <= clock
      /\ \A k \in Keys : rows[k] \in Nat /\ poll.rows[k] \in Nat /\ cache.items[k] \in Nat /\ rows[k] <= clock
      BY StepKinds, ConfigFacts, TypedFacts DEF TypeOK, Rows, TableInv, StampInv
<1>1. CASE UNCHANGED vars
      BY <1>1 DEF vars, DistinctInv, Versioned, Described, Tombstones, ReadDone
<1>2. ASSUME NEW k \in Keys, Write(k) \/ Delete(k) PROVE DistinctInv'
  <2>1. clock' = clock + 1 /\ UNCHANGED <<config, cache, poll>>
        BY <1>2 DEF Write, Delete
  <2>2. /\ rows'[k] \in {0, clock + 1}
        /\ \A q \in Keys : q # k => rows'[q] = rows[q]
        BY <1>2 DEF Write, Delete, TypeOK, Rows
  <2>3. \A p \in Keys : rows'[p] # 0 => rows'[p] > config.firstStamp
        BY <1>0, <2>2 DEF DistinctInv
  <2>4. \A p, q \in Keys : rows'[p] # 0 /\ rows'[p] = rows'[q] => p = q
        BY <1>0, <2>2 DEF DistinctInv
  <2>5. \A p \in Keys : poll.rows[p] <= clock' /\ cache.items[p] <= clock'
        BY <1>0, <2>1 DEF DistinctInv
  <2> QED BY <1>0, <2>1, <2>3, <2>4, <2>5 DEF DistinctInv, Versioned, Described, Tombstones, ReadDone
<1>3. CASE poll'.rows = NoRows /\ poll'.pc \in {"idle", "rows"} /\ UNCHANGED <<config, rows, clock, cache>>
  <2>1. \A k \in Keys : poll'.rows[k] = 0
        BY <1>3 DEF NoRows
  <2> QED BY <1>0, <1>3, <2>1 DEF DistinctInv, ReadDone
<1>4. CASE PollBegins
      BY <1>3, <1>4 DEF PollBegins, IdlePoll, outside
<1>5. CASE PollFails
      BY <1>3, <1>5 DEF PollFails, IdlePoll, outside
<1>6. CASE PollReadsRows
  <2> DEFINE since == IF poll.full THEN 0 ELSE poll.since
  <2>1. poll'.rows = rowsSince(since) /\ UNCHANGED <<config, rows, clock, cache>>
        BY <1>6 DEF PollReadsRows, outside, TypeOK, Poll
  <2>2. \A k \in Keys : poll'.rows[k] = 0 \/ poll'.rows[k] = rows[k]
        BY <2>1 DEF rowsSince
  <2>3. \A k \in Keys : poll'.rows[k] <= clock
        BY <1>0, <2>2
  <2> QED BY <1>0, <2>1, <2>2, <2>3 DEF DistinctInv, Versioned, Described, Tombstones, TableInv, BelowInv
<1>7. CASE PollReadsDeleted
  <2>1. poll'.rows = poll.rows /\ poll.pc = "deleted" /\ UNCHANGED <<config, rows, clock, cache>>
        BY <1>7 DEF PollReadsDeleted, outside, TypeOK, Poll
  <2> QED BY <1>0, <2>1 DEF DistinctInv, Versioned, Described, Tombstones, ReadDone
<1>8. CASE PollApplies
  <2>1. PICK diff \in Diffs : cache' = applied(diff)
        BY <1>8, PollAppliesDiff
  <2>2. poll' = IdlePoll /\ UNCHANGED <<config, rows, clock>>
        BY <1>8, PollAppliesDiff
  <2>3. \A k \in Keys : poll'.rows[k] = 0 /\ poll'.pc = "idle"
        BY <2>2 DEF IdlePoll, NoRows
  <2>4. cache'.items = diff.items
        BY <2>1, AppliedFields
  <2>5. \A k \in Keys : cache'.items[k] <= clock
        BY <1>0, <2>4, AppliedItems DEF DistinctInv
  <2> QED BY <1>0, <2>2, <2>3, <2>5 DEF DistinctInv, ReadDone
<1>9. CASE \E c \in Clients : ClientStep(c)
      BY <1>9, ClientStays DEF DistinctInv, Versioned, Described, Tombstones, ReadDone
<1>10. CASE Restart
  <2>1. /\ cache'.items = NoRows /\ poll'.rows = NoRows /\ poll'.pc = "idle"
        /\ UNCHANGED <<config, rows, clock>>
        BY <1>10 DEF Restart, FreshCache, IdlePoll, outside
  <2>2. \A k \in Keys : cache'.items[k] = 0 /\ poll'.rows[k] = 0
        BY <2>1 DEF NoRows
  <2> QED BY <1>0, <2>1, <2>2 DEF DistinctInv, ReadDone
<1> QED BY <1>1, <1>2, <1>4, <1>5, <1>6, <1>7, <1>8, <1>9, <1>10 DEF Next, PollStep

\* The view of a row is the last of the events about it, or what the store holds.
LEMMA ViewProperty ==
    ASSUME NEW store, NEW q, NEW n \in Nat, NEW k \in Keys
    PROVE  \/ /\ \A i \in 1..n : ~About(q[i], k)
              /\ View(store, q, n)[k] = store[k]
           \/ \E i \in 1..n : /\ About(q[i], k)
                              /\ \A j \in 1..n : j > i => ~About(q[j], k)
                              /\ View(store, q, n)[k] = q[i].value
<1> DEFINE about == {i \in 1..n : About(q[i], k)}
<1>1. View(store, q, n)[k] = IF about = {} THEN store[k] ELSE q[Max(about)].value
      BY DEF View
<1>2. about \subseteq 1..n /\ about \subseteq Nat /\ IsFiniteSet(about)
  <2>1. about \subseteq 1..n
        OBVIOUS
  <2>2. IsFiniteSet(1..n) /\ 1..n \subseteq Nat
        BY FS_Interval
  <2> HIDE DEF about
  <2> QED BY <2>1, <2>2, FS_Subset
<1>3. CASE about = {}
      BY <1>1, <1>3
<1>4. CASE about # {}
  <2>1. Max(about) \in about /\ \A j \in about : j <= Max(about)
    <3> HIDE DEF about
    <3> QED BY <1>2, <1>4, MaxProperty
  <2>2. View(store, q, n)[k] = q[Max(about)].value
        BY <1>1, <1>4
  <2> DEFINE m == Max(about)
  <2>3. m \in 1..n /\ About(q[m], k)
        BY <2>1
  <2>4. ASSUME NEW j \in 1..n, j > m PROVE ~About(q[j], k)
        BY <1>2, <2>1, <2>4
  <2> QED BY <2>2, <2>3, <2>4
<1> QED BY <1>3, <1>4

\* So it is determined by the last event about the row ...
LEMMA ViewLast ==
    ASSUME NEW store, NEW q, NEW n \in Nat, NEW k \in Keys, NEW i \in 1..n,
           About(q[i], k), \A j \in 1..n : j > i => ~About(q[j], k)
    PROVE  View(store, q, n)[k] = q[i].value
<1>1. PICK m \in 1..n : /\ About(q[m], k)
                        /\ \A j \in 1..n : j > m => ~About(q[j], k)
                        /\ View(store, q, n)[k] = q[m].value
      BY ViewProperty
<1>2. ~(m > i) /\ ~(i > m)
      BY <1>1
<1> QED BY <1>1, <1>2

\* ... and does not see what is behind the prefix.
LEMMA ViewPrefix ==
    ASSUME NEW store, NEW q, NEW r, NEW n \in Nat, \A i \in 1..n : q[i] = r[i]
    PROVE  View(store, q, n) = View(store, r, n)
<1>1. ASSUME NEW k \in Keys PROVE View(store, q, n)[k] = View(store, r, n)[k]
  <2>1. CASE \A i \in 1..n : ~About(q[i], k)
    <3>1. \A i \in 1..n : ~About(r[i], k)
          BY <2>1
    <3> QED BY <2>1, <3>1, ViewProperty
  <2>2. CASE \E i \in 1..n : About(q[i], k)
    <3>1. PICK i \in 1..n : /\ About(q[i], k)
                            /\ \A j \in 1..n : j > i => ~About(q[j], k)
                            /\ View(store, q, n)[k] = q[i].value
          BY <2>2, ViewProperty
    <3>2. About(r[i], k) /\ \A j \in 1..n : j > i => ~About(r[j], k)
          BY <3>1
    <3>3. View(store, r, n)[k] = r[i].value
          BY <3>2, ViewLast
    <3> QED BY <3>1, <3>3
  <2> QED BY <2>1, <2>2
<1>2. View(store, q, n) = [k \in Keys |-> View(store, q, n)[k]] /\ View(store, r, n) = [k \in Keys |-> View(store, r, n)[k]]
      BY DEF View
<1> QED BY <1>1, <1>2

\* Taking the first event of a queue leaves every later view as it was.
LEMMA ViewTail ==
    ASSUME NEW store \in Rows, NEW q \in Seq(WatchEvent), q # <<>>, NEW n \in 0..(Len(q) - 1),
           q[1].type = "Deleted" => q[1].value = 0
    PROVE  View(Received(store, Head(q)), Tail(q), n) = View(store, q, n + 1)
<1> DEFINE next == Received(store, Head(q))
           t == Tail(q)
<1>1. /\ Len(q) \in Nat /\ Len(q) > 0 /\ Len(t) = Len(q) - 1 /\ n \in Nat /\ n + 1 \in Nat
      /\ \A i \in 1..Len(t) : t[i] = q[i + 1]
      /\ Head(q) = q[1] /\ q[1] \in WatchEvent
      BY HeadTailProperties, EmptySeq, LenProperties
<1>2. ASSUME NEW k \in Keys
      PROVE  next[k] = IF About(q[1], k) THEN q[1].value ELSE store[k]
  <2>1. q[1].type \in ChangeTypes \cup {"Bookmark"} /\ (q[1].type # "Bookmark" => q[1].key \in Keys)
        BY <1>1 DEF WatchEvent
  <2>2. CASE q[1].type = "Bookmark"
        BY <1>1, <2>2 DEF Received, About
  <2>3. CASE q[1].type \in {"Added", "Modified"}
    <3>1. next = [store EXCEPT ![q[1].key] = q[1].value]
          BY <1>1, <2>3 DEF Received
    <3> QED BY <2>1, <2>3, <3>1 DEF About, Rows
  <2>4. CASE q[1].type = "Deleted"
    <3>1. next = [store EXCEPT ![q[1].key] = 0]
          BY <1>1, <2>4 DEF Received
    <3> QED BY <2>1, <2>4, <3>1 DEF About, Rows
  <2> QED BY <2>1, <2>2, <2>3, <2>4 DEF ChangeTypes
<1>2a. n + 1 \in Nat
      BY <1>1
<1>3. ASSUME NEW k \in Keys PROVE View(next, t, n)[k] = View(store, q, n + 1)[k]
  <2>1. \A i \in 1..n : i \in 1..Len(t) /\ i + 1 \in 1..(n + 1) /\ t[i] = q[i + 1]
        BY <1>1
  <2>2. \A j \in 1..(n + 1) : j = 1 \/ (j - 1 \in 1..n /\ t[j - 1] = q[j])
        BY <1>1
  <2> HIDE DEF next, t
  <2>3. CASE \A i \in 1..n : ~About(t[i], k)
    <3>1. View(next, t, n)[k] = next[k]
          BY <1>1, <2>3, ViewProperty
    <3>2. \A j \in 1..(n + 1) : j = 1 \/ ~About(q[j], k)
          BY <2>2, <2>3
    <3>3. CASE About(q[1], k)
      <4>1. 1 \in 1..(n + 1) /\ \A j \in 1..(n + 1) : j > 1 => ~About(q[j], k)
            BY <1>1, <3>2
      <4>2. View(store, q, n + 1)[k] = q[1].value
            BY <1>1, <3>3, <4>1, ViewLast
      <4> QED BY <1>2, <3>1, <3>3, <4>2 DEF next
    <3>4. CASE ~About(q[1], k)
      <4>1. View(store, q, n + 1)[k] = store[k]
            BY <1>1, <3>2, <3>4, ViewProperty
      <4> QED BY <1>2, <3>1, <3>4, <4>1 DEF next
    <3> QED BY <3>3, <3>4
  <2>4. CASE \E i \in 1..n : About(t[i], k)
    <3>1. PICK i \in 1..n : /\ About(t[i], k)
                            /\ \A j \in 1..n : j > i => ~About(t[j], k)
                            /\ View(next, t, n)[k] = t[i].value
          BY <1>1, <2>4, ViewProperty, SMTT(30)
    <3>2. i + 1 \in 1..(n + 1) /\ About(q[i + 1], k)
          BY <2>1, <3>1
    <3>3. ASSUME NEW j \in 1..(n + 1), j > i + 1 PROVE ~About(q[j], k)
      <4>1. j # 1 /\ j - 1 > i
            BY <3>3
      <4> QED BY <2>2, <3>1, <4>1
    <3>4. View(store, q, n + 1)[k] = q[i + 1].value
          BY <1>2a, <3>2, <3>3, ViewLast
    <3> QED BY <2>1, <3>1, <3>4
  <2> QED BY <2>3, <2>4
<1>4. View(next, t, n) = [k \in Keys |-> View(next, t, n)[k]] /\ View(store, q, n + 1) = [k \in Keys |-> View(store, q, n + 1)[k]]
      BY DEF View
<1> HIDE DEF next, t
<1>5. View(next, t, n) = View(store, q, n + 1)
      BY <1>3, <1>4
<1> QED BY <1>5 DEF next, t

\* Events added to a queue are seen by the views past it.
LEMMA ViewConcat ==
    ASSUME NEW store, NEW q \in Seq(WatchEvent), NEW r \in Seq(WatchEvent), NEW p \in 0..Len(r),
           NEW k \in Keys
    PROVE  \/ /\ \A i \in 1..p : ~About(r[i], k)
              /\ View(store, q \o r, Len(q) + p)[k] = View(store, q, Len(q))[k]
           \/ \E i \in 1..p : /\ About(r[i], k)
                              /\ \A j \in 1..p : j > i => ~About(r[j], k)
                              /\ View(store, q \o r, Len(q) + p)[k] = r[i].value
<1> DEFINE s == q \o r
           m == Len(q)
<1>1. /\ m \in Nat /\ p \in Nat /\ m + p \in Nat /\ Len(r) \in Nat
      /\ \A i \in 1..m : s[i] = q[i]
      /\ \A i \in 1..p : s[m + i] = r[i]
      BY LenProperties, ConcatProperties
<1> HIDE DEF s, m
<1>1a. m \in Nat /\ m + p \in Nat
      BY <1>1
<1>2. \A i \in 1..(m + p) : i \in 1..m \/ (i - m \in 1..p /\ i = m + (i - m))
      BY <1>1
<1>3. CASE \A i \in 1..p : ~About(r[i], k)
  <2>1. \A i \in 1..(m + p) : i \in 1..m \/ ~About(s[i], k)
        BY <1>1, <1>2, <1>3
  <2>2. CASE \A i \in 1..m : ~About(q[i], k)
    <3>1. \A i \in 1..(m + p) : ~About(s[i], k)
          BY <1>1, <2>1, <2>2
    <3>2. View(store, s, m + p)[k] = store[k]
          BY <1>1, <3>1, ViewProperty
    <3>3. View(store, q, m)[k] = store[k]
          BY <1>1, <2>2, ViewProperty
    <3> QED BY <1>3, <3>2, <3>3 DEF s, m
  <2>3. CASE \E i \in 1..m : About(q[i], k)
    <3>1. PICK i \in 1..m : /\ About(q[i], k)
                            /\ \A j \in 1..m : j > i => ~About(q[j], k)
                            /\ View(store, q, m)[k] = q[i].value
          BY <1>1a, <2>3, ViewProperty, SMTT(30)
    <3>2. i \in 1..(m + p) /\ About(s[i], k) /\ s[i] = q[i]
          BY <1>1, <3>1
    <3>3. \A j \in 1..(m + p) : j > i => ~About(s[j], k)
          BY <1>1, <2>1, <3>1
    <3>4. View(store, s, m + p)[k] = s[i].value
          BY <1>1a, <3>2, <3>3, ViewLast
    <3> QED BY <1>3, <3>1, <3>2, <3>4 DEF s, m
  <2> QED BY <2>2, <2>3
<1>4. CASE \E i \in 1..p : About(r[i], k)
  <2>1. PICK i \in 1..p : About(r[i], k) /\ \A j \in 1..p : j > i => ~About(r[j], k)
        BY <1>1, <1>4, ViewProperty
  <2>2. m + i \in 1..(m + p) /\ About(s[m + i], k) /\ s[m + i] = r[i]
        BY <1>1, <2>1
  <2>3. ASSUME NEW j \in 1..(m + p), j > m + i PROVE ~About(s[j], k)
    <3>1. j - m \in 1..p /\ j - m > i /\ j = m + (j - m)
          BY <1>1, <2>3
    <3> QED BY <1>1, <2>1, <3>1
  <2>4. View(store, s, m + p)[k] = s[m + i].value
        BY <1>1, <2>2, <2>3, ViewLast, SMTT(30)
  <2> QED BY <2>1, <2>2, <2>4 DEF s, m
<1> QED BY <1>3, <1>4

\* Without a deletion query, an event of a diff is about a row that changes, tells
\* what is held of it afterwards and before, and every such row has one.
\* Versioned rows come in the order of their versions, past the mark, and
\* deletions behind them.
LEMMA DiffProperty ==
    ASSUME TypeOK, MarkInv, DistinctInv, Tombstones = "none", ~cache.lightweight, poll.pc = "apply",
           NEW diff \in Diffs
    PROVE  LET E == diff.events IN
           /\ \A i \in 1..Len(E) :
                 LET k == E[i].key IN
                 /\ diff.items[k] # cache.items[k]
                 /\ E[i].value = diff.items[k] /\ E[i].last = cache.items[k] /\ E[i].trimmed = FALSE
                 /\ E[i].type = IF diff.items[k] = 0 THEN "Deleted"
                                ELSE IF cache.items[k] = 0 THEN "Added" ELSE "Modified"
                 /\ Versioned => /\ E[i].version <= markReached
                                 /\ E[i].type # "Deleted" => /\ cache.highestVersion < E[i].version
                                                             /\ config.firstStamp < E[i].version
           /\ \A k \in Keys : diff.items[k] # cache.items[k] =>
                 \E i \in 1..Len(E) : E[i].key = k
           /\ Versioned => \A i, j \in 1..Len(E) : i < j /\ E[j].type # "Deleted" =>
                 E[i].type # "Deleted" /\ E[i].version < E[j].version
<1> DEFINE E == diff.events
<1>1. /\ poll.removed = <<>> /\ ~Described /\ ~lightenLocked /\ lightenLocked = FALSE
      BY LightenType DEF MarkInv, Described, lightenLocked
<1>2. ASSUME NEW k \in Keys
      PROVE  /\ cache.items[k] \in Nat /\ poll.rows[k] \in Nat /\ markReached \in Nat
             /\ cache.highestVersion \in Nat /\ config.firstStamp \in Nat
             /\ Versioned => /\ poll.rows[k] <= markReached /\ cache.items[k] <= markReached
                             /\ k \in present => /\ cache.highestVersion < poll.rows[k]
                                                 /\ config.firstStamp < poll.rows[k]
  <2>1. /\ cache.items[k] \in Nat /\ poll.rows[k] \in Nat /\ cache.highestVersion \in Nat
        /\ config.firstStamp \in Nat
        BY TypedFacts, ConfigFacts DEF Rows, TypeOK
  <2>2. ASSUME Versioned
        PROVE  /\ poll.rows[k] <= markReached /\ cache.highestVersion <= markReached
               /\ cache.items[k] <= cache.highestVersion
        BY <2>2, MarkProperty DEF MarkInv
  <2>3. ASSUME Versioned, k \in present
        PROVE  cache.highestVersion < poll.rows[k] /\ config.firstStamp < poll.rows[k]
    <3>1. poll.rows[k] # 0 /\ poll.rows[k] # cache.items[k]
          BY <2>3 DEF present
    <3>2. ~(poll.rows[k] <= cache.highestVersion)
          BY <1>1, <2>3, <3>1 DEF DistinctInv, ReadDone
    <3>3. config.firstStamp < poll.rows[k]
          BY <2>1, <3>1 DEF DistinctInv
    <3> QED BY <2>1, <3>2, <3>3
  <2> QED BY <2>1, <2>2, <2>3, MarkProperty
<1>3. ASSUME NEW k \in present
      PROVE  /\ moved(k).type = IF cache.items[k] = 0 THEN "Added" ELSE "Modified"
             /\ moved(k).key = k /\ moved(k).value = poll.rows[k] /\ moved(k).last = cache.items[k]
             /\ moved(k).trimmed = FALSE /\ moved(k).version = stamp(poll.rows[k])
      BY <1>1 DEF moved, cacheEvent
<1>4. ASSUME NEW k \in lost
      PROVE  gone(k) = cacheEvent("Deleted", k, 0, stamp(cache.items[k]), cache.items[k], FALSE)
  <2>1. {i \in DOMAIN poll.removed : poll.removed[i].key = k /\ Described} = {}
        BY <1>1
  <2> QED BY <1>1, <2>1 DEF gone
<1>5. present \subseteq Keys /\ lost \subseteq Keys
      BY KeySetsFinite
<1>6. \A k, q \in present : poll.rows[k] = poll.rows[q] => k = q
      BY <1>5 DEF present, DistinctInv
<1>7. CASE poll.full
  <2>1. diff \in fullDiff
        BY <1>7 DEF Diffs
  <2>2. /\ diff.items = poll.rows
        /\ \A i \in 1..Len(E) : /\ E[i].key \in present \cup lost
                                /\ E[i] = IF E[i].key \in lost THEN gone(E[i].key) ELSE moved(E[i].key)
        /\ \A k \in present \cup lost : \E i \in 1..Len(E) : E[i].key = k
        /\ Versioned => \A i, j \in 1..Len(E) : i < j /\ E[j].key \in present =>
              /\ E[i].key \in present /\ poll.rows[E[i].key] <= poll.rows[E[j].key]
              /\ E[i].key # E[j].key
        BY <2>1, FullDiffProperty, SMTT(30)
  <2> HIDE DEF E
  <2>3. \A k \in Keys : k \in present \cup lost <=> poll.rows[k] # cache.items[k]
        BY DEF present, lost
  <2>4. ASSUME NEW i \in 1..Len(E), E[i].key \in lost
        PROVE  LET k == E[i].key IN
               /\ diff.items[k] = 0 /\ cache.items[k] # 0
               /\ E[i].value = 0 /\ E[i].last = cache.items[k] /\ E[i].trimmed = FALSE
               /\ E[i].type = "Deleted" /\ (Versioned => E[i].version <= markReached)
    <3> DEFINE k == E[i].key
    <3>1. E[i] = cacheEvent("Deleted", k, 0, stamp(cache.items[k]), cache.items[k], FALSE)
          BY <1>4, <2>2, <2>4
    <3>2. diff.items[k] = 0 /\ cache.items[k] # 0 /\ k \in Keys
          BY <2>2, <2>4 DEF lost
    <3> HIDE DEF k
    <3>3. /\ E[i].value = 0 /\ E[i].last = cache.items[k] /\ E[i].trimmed = FALSE
          /\ E[i].type = "Deleted" /\ E[i].version = stamp(cache.items[k])
          BY <3>1 DEF cacheEvent
    <3>4. Versioned => E[i].version <= markReached
          BY <1>2, <3>2, <3>3 DEF stamp
    <3> QED BY <3>2, <3>3, <3>4 DEF k
  <2>5. ASSUME NEW i \in 1..Len(E), E[i].key \in present
        PROVE  LET k == E[i].key IN
               /\ diff.items[k] # cache.items[k] /\ diff.items[k] # 0
               /\ E[i].value = diff.items[k] /\ E[i].last = cache.items[k] /\ E[i].trimmed = FALSE
               /\ E[i].type = IF cache.items[k] = 0 THEN "Added" ELSE "Modified"
               /\ Versioned => /\ E[i].version = poll.rows[k] /\ E[i].version <= markReached
                               /\ cache.highestVersion < E[i].version
                               /\ config.firstStamp < E[i].version
    <3> DEFINE k == E[i].key
    <3>1. k \notin lost
          BY <2>5 DEF present, lost
    <3>2. E[i] = moved(k)
          BY <2>2, <3>1
    <3>3. k \in Keys /\ k \in present /\ diff.items[k] # cache.items[k] /\ diff.items[k] # 0 /\ diff.items[k] = poll.rows[k]
          BY <2>2, <2>5 DEF present
    <3> HIDE DEF k
    <3>4. /\ E[i].type = IF cache.items[k] = 0 THEN "Added" ELSE "Modified"
          /\ E[i].value = poll.rows[k] /\ E[i].last = cache.items[k]
          /\ E[i].trimmed = FALSE /\ E[i].version = stamp(poll.rows[k])
          BY <1>3, <3>2, <3>3, ZenonT(40)
    <3>5. Versioned => E[i].version = poll.rows[k]
          BY <3>4 DEF stamp
    <3> QED BY <1>2, <3>3, <3>4, <3>5 DEF k
  <2>6. ASSUME Versioned, NEW i \in 1..Len(E), NEW j \in 1..Len(E), i < j, E[j].type # "Deleted"
        PROVE  E[i].type # "Deleted" /\ E[i].version < E[j].version
    <3>1. E[j].key \in present
          BY <2>2, <2>4, <2>6
    <3>2. /\ E[i].key \in present /\ poll.rows[E[i].key] <= poll.rows[E[j].key]
          /\ E[i].key # E[j].key
          BY <2>2, <2>6, <3>1
    <3>3. poll.rows[E[i].key] # poll.rows[E[j].key]
          BY <1>6, <3>1, <3>2
    <3>4. E[i].version = poll.rows[E[i].key] /\ E[j].version = poll.rows[E[j].key]
          BY <2>5, <2>6, <3>1, <3>2
    <3>5. poll.rows[E[i].key] \in Nat /\ poll.rows[E[j].key] \in Nat
          BY <1>2, <1>5, <3>1, <3>2
    <3>6. E[i].type # "Deleted"
          BY <2>5, <3>2
    <3> QED BY <3>2, <3>3, <3>4, <3>5, <3>6
  <2>7. \A k \in Keys : diff.items[k] # cache.items[k] => \E i \in 1..Len(E) : E[i].key = k
        BY <2>2, <2>3
  <2>8. ASSUME NEW i \in 1..Len(E)
        PROVE  LET k == E[i].key IN
               /\ diff.items[k] # cache.items[k]
               /\ E[i].value = diff.items[k] /\ E[i].last = cache.items[k] /\ E[i].trimmed = FALSE
               /\ E[i].type = IF diff.items[k] = 0 THEN "Deleted"
                              ELSE IF cache.items[k] = 0 THEN "Added" ELSE "Modified"
               /\ Versioned => /\ E[i].version <= markReached
                               /\ E[i].type # "Deleted" => /\ cache.highestVersion < E[i].version
                                                           /\ config.firstStamp < E[i].version
    <3>1. CASE E[i].key \in lost
          BY <2>4, <3>1
    <3>2. CASE E[i].key \in present
          BY <2>5, <3>2
    <3> QED BY <2>2, <3>1, <3>2
  <2> QED BY <2>6, <2>7, <2>8 DEF E
<1>8. CASE ~poll.full
  <2>1. diff \in forwardDiff
        BY <1>8 DEF Diffs
  <2>2. Len(poll.removed) = 0 /\ 1..Len(poll.removed) = {}
        BY <1>1
  <2>3. diff.items = readForward
    <3>1. diff.items = [k \in Keys |->
             IF \E i \in 1..Len(poll.removed) : poll.removed[i].key = k /\ takes(i)
             THEN 0 ELSE readForward[k]]
          BY <2>1, ForwardDiffProperty
    <3>2. diff.items = [k \in Keys |-> readForward[k]]
          BY <2>2, <3>1
    <3> QED BY <3>2 DEF readForward
  <2>4. PICK m \in 0..Len(E) :
           /\ \A i \in 1..m : E[i].key \in present /\ E[i] = moved(E[i].key)
           /\ \A k \in present : \E i \in 1..m : E[i].key = k
           /\ \A i, j \in 1..m : i < j => /\ poll.rows[E[i].key] <= poll.rows[E[j].key]
                                          /\ E[i].key # E[j].key
           /\ \E sel \in [1..(Len(E) - m) -> 1..Len(poll.removed)] : TRUE
        BY <2>1, ForwardDiffProperty
  <2>5. E \in Seq(CacheEvent) /\ Len(E) \in Nat
        BY <2>1, ForwardDiffProperty, LenProperties
  <2> HIDE DEF E
  <2>6. m = Len(E)
    <3>1. PICK sel \in [1..(Len(E) - m) -> 1..Len(poll.removed)] : TRUE
          BY <2>4
    <3>2. ~(1 \in 1..(Len(E) - m))
          BY <2>2, <3>1
    <3> QED BY <2>5, <3>2
  <2>7. \A k \in Keys : /\ k \in present <=> diff.items[k] # cache.items[k]
                        /\ k \in present => diff.items[k] = poll.rows[k] /\ diff.items[k] # 0
        BY <2>3 DEF present, readForward
  <2>8. ASSUME NEW i \in 1..Len(E)
        PROVE  LET k == E[i].key IN
               /\ diff.items[k] # cache.items[k] /\ k \in present
               /\ E[i].value = diff.items[k] /\ E[i].last = cache.items[k] /\ E[i].trimmed = FALSE
               /\ E[i].type = IF diff.items[k] = 0 THEN "Deleted"
                              ELSE IF cache.items[k] = 0 THEN "Added" ELSE "Modified"
               /\ E[i].type # "Deleted"
               /\ Versioned => /\ E[i].version = poll.rows[k] /\ E[i].version <= markReached
                               /\ cache.highestVersion < E[i].version
                               /\ config.firstStamp < E[i].version
    <3> DEFINE k == E[i].key
    <3>1. E[i] = moved(k) /\ k \in present
          BY <2>4, <2>6
    <3>2. k \in Keys /\ diff.items[k] # cache.items[k] /\ diff.items[k] # 0 /\ diff.items[k] = poll.rows[k]
          BY <1>5, <2>7, <3>1
    <3> HIDE DEF k
    <3>3. /\ E[i].type = IF cache.items[k] = 0 THEN "Added" ELSE "Modified"
          /\ E[i].value = poll.rows[k] /\ E[i].last = cache.items[k]
          /\ E[i].trimmed = FALSE /\ E[i].version = stamp(poll.rows[k])
          BY <1>3, <3>1
    <3>4. Versioned => E[i].version = poll.rows[k]
          BY <3>3 DEF stamp
    <3> QED BY <1>2, <3>1, <3>2, <3>3, <3>4 DEF k
  <2>9. ASSUME Versioned, NEW i \in 1..Len(E), NEW j \in 1..Len(E), i < j
        PROVE  E[i].version < E[j].version
    <3>1. /\ poll.rows[E[i].key] <= poll.rows[E[j].key] /\ E[i].key # E[j].key
          /\ E[i].key \in present /\ E[j].key \in present
          BY <2>4, <2>6, <2>9
    <3>2. poll.rows[E[i].key] # poll.rows[E[j].key]
          BY <1>6, <3>1
    <3>3. E[i].version = poll.rows[E[i].key] /\ E[j].version = poll.rows[E[j].key]
          BY <2>8, <2>9
    <3>4. poll.rows[E[i].key] \in Nat /\ poll.rows[E[j].key] \in Nat
          BY <1>2, <1>5, <3>1
    <3> QED BY <3>1, <3>2, <3>3, <3>4
  <2>10. \A k \in Keys : diff.items[k] # cache.items[k] => \E i \in 1..Len(E) : E[i].key = k
        BY <2>4, <2>6, <2>7
  <2> QED BY <2>8, <2>9, <2>10 DEF E
<1> QED BY <1>7, <1>8

\* What the steps of a poll say, and where they stand.
NewStep(s, i, items) ==
    /\ s.event.key \in Keys
    /\ items[s.event.key] # cache.items[s.event.key]
    /\ s.event.value = items[s.event.key]
    /\ ~sends(s.event) => /\ ~matches(items[s.event.key])
                          /\ selected(items)[s.event.key] = selected(cache.items)[s.event.key]
    /\ s.event.version <= s.version
    /\ ~Versioned => /\ s.from = cache.version + i - 1 /\ s.version = cache.version + i
                     /\ s.event.version = s.version
    /\ Versioned => /\ s.from = markReached /\ s.version = markReached /\ markReached > 0
                    /\ s.event.type # "Deleted" => /\ cache.highestVersion < markReached
                                                   /\ config.firstStamp < markReached
                    /\ s.event.type = "Deleted" => cache.highestVersion > 0

LEMMA NewSteps ==
    ASSUME TypeOK, MarkInv, DistinctInv, RingSuffices, ~cache.lightweight, poll.pc = "apply",
           NEW diff \in Diffs
    PROVE  LET S == recordedSteps(diff.events, markReached) IN
           /\ S \in Seq(Step)
           /\ \A i \in 1..Len(S) : NewStep(S[i], i, diff.items)
           /\ \A k \in Keys : diff.items[k] # cache.items[k] =>
                 \E i \in 1..Len(S) : S[i].event.key = k
           /\ Versioned => \A i, j \in 1..Len(S) :
                 i < j /\ S[i].version = S[j].version /\ Settles(S[i]) => S[j].event.type = "Deleted"
<1> DEFINE S == recordedSteps(diff.events, markReached)
           E == diff.events
<1>1. Tombstones = "none"
      BY DEF RingSuffices
<1>2. /\ \A i \in 1..Len(E) :
           LET k == E[i].key IN
           /\ diff.items[k] # cache.items[k]
           /\ E[i].value = diff.items[k] /\ E[i].last = cache.items[k] /\ E[i].trimmed = FALSE
           /\ E[i].type = IF diff.items[k] = 0 THEN "Deleted"
                          ELSE IF cache.items[k] = 0 THEN "Added" ELSE "Modified"
           /\ Versioned => /\ E[i].version <= markReached
                           /\ E[i].type # "Deleted" => /\ cache.highestVersion < E[i].version
                                                       /\ config.firstStamp < E[i].version
      /\ \A k \in Keys : diff.items[k] # cache.items[k] => \E i \in 1..Len(E) : E[i].key = k
      /\ Versioned => \A i, j \in 1..Len(E) : i < j /\ E[j].type # "Deleted" =>
            E[i].type # "Deleted" /\ E[i].version < E[j].version
      BY <1>1, DiffProperty
<1>3. /\ E \in Seq(CacheEvent) /\ Len(E) \in Nat /\ \A i \in 1..Len(E) : E[i] \in CacheEvent
      /\ diff.items \in Rows
      BY DiffType, LenProperties
<1>4. markReached \in Nat /\ cache.version \in Nat /\ cache.highestVersion \in Nat /\ config.firstStamp \in Nat
      BY MarkProperty, TypedFacts, ConfigFacts DEF TypeOK
<1>5. /\ S \in Seq(Step) /\ Len(S) = Len(E)
      /\ \A i \in 1..Len(E) :
           /\ markReached # 0 => S[i].from = markReached /\ S[i].version = markReached /\ S[i].event = E[i]
           /\ markReached = 0 => /\ S[i].from = cache.version + i - 1
                                 /\ S[i].version = cache.version + i
                                 /\ S[i].event.version = cache.version + i
           /\ S[i].event.type = E[i].type /\ S[i].event.key = E[i].key
           /\ S[i].event.value = E[i].value /\ S[i].event.last = E[i].last
           /\ S[i].event.trimmed = E[i].trimmed
      BY <1>3, <1>4, StepsProperty
<1> HIDE DEF S, E
<1>6. ASSUME Versioned, NEW i \in 1..Len(E) PROVE markReached > 0
  <2>1. E # <<>>
        BY <1>3, <1>6, EmptySeq
  <2>2. markReached # 0
        BY <1>6, <2>1, NothingYet DEF E
  <2> QED BY <1>4, <2>2
<1>7. ASSUME NEW i \in 1..Len(E) PROVE NewStep(S[i], i, diff.items)
  <2> DEFINE k == E[i].key
             e == S[i].event
  <2>1. k \in Keys /\ e.key = k /\ diff.items[k] \in Nat /\ cache.items[k] \in Nat
        BY <1>3, <1>5, TypedFacts DEF CacheEvent, Rows
  <2>2. /\ diff.items[k] # cache.items[k] /\ e.value = diff.items[k] /\ e.last = cache.items[k]
        /\ e.trimmed = FALSE
        /\ e.type = IF diff.items[k] = 0 THEN "Deleted"
                    ELSE IF cache.items[k] = 0 THEN "Added" ELSE "Modified"
        BY <1>2, <1>5
  <2>3. /\ selected(diff.items)[k] = IF matches(diff.items[k]) THEN diff.items[k] ELSE 0
        /\ selected(cache.items)[k] = IF matches(cache.items[k]) THEN cache.items[k] ELSE 0
        BY <2>1 DEF selected
  <2>4. ASSUME ~sends(e)
        PROVE  /\ ~matches(diff.items[k]) /\ selected(diff.items)[k] = selected(cache.items)[k]
    <3>1. ~matches(diff.items[k])
          BY <2>2, <2>4 DEF sends
    <3>2. matches(cache.items[k]) => cache.items[k] # 0
          BY DEF matches
    <3>3. CASE matches(cache.items[k])
      <4>1. e.type \in {"Deleted", "Modified"}
            BY <2>2, <3>2, <3>3
      <4>2. mayHaveHeld(e) /\ matchedBefore(e)
            BY <2>2, <3>3 DEF mayHaveHeld, matchedBefore
      <4> QED BY <2>4, <4>1, <4>2 DEF sends
    <3> QED BY <2>3, <3>1, <3>3
  <2>5. ASSUME ~Versioned
        PROVE  S[i].from = cache.version + i - 1 /\ S[i].version = cache.version + i /\ e.version = S[i].version
    <3>1. markReached = 0
          BY <2>5, MarkProperty
    <3> QED BY <1>5, <3>1
  <2>6. ASSUME Versioned
        PROVE  /\ S[i].from = markReached /\ S[i].version = markReached /\ markReached > 0
               /\ e.version <= markReached
               /\ e.type # "Deleted" => cache.highestVersion < markReached /\ config.firstStamp < markReached
               /\ e.type = "Deleted" => cache.highestVersion > 0
    <3>1. markReached > 0
          BY <1>6, <2>6
    <3>2. S[i].from = markReached /\ S[i].version = markReached /\ e = E[i]
          BY <1>4, <1>5, <3>1
    <3>3. e.version <= markReached /\ e.version \in Nat
          BY <1>2, <1>3, <2>6, <3>2 DEF CacheEvent
    <3>4. e.type # "Deleted" => cache.highestVersion < e.version /\ config.firstStamp < e.version
          BY <1>2, <2>6, <3>2
    <3>5. e.type = "Deleted" => cache.items[k] # 0
          BY <2>2
    <3>6. cache.items[k] <= cache.highestVersion
          BY <2>1, <2>6 DEF MarkInv
    <3> HIDE DEF e, k
    <3> QED BY <1>4, <2>1, <3>1, <3>2, <3>3, <3>4, <3>5, <3>6
  <2>7. S[i].version \in Nat
    <3>1. S[i] \in Step
          BY <1>5, ElementOfSeq
    <3> QED BY <3>1 DEF Step
  <2>8. e.version <= S[i].version
        BY <2>5, <2>6, <2>7
  <2>9. ~sends(e) => ~matches(diff.items[k]) /\ selected(diff.items)[k] = selected(cache.items)[k]
        BY <2>4
  <2> HIDE DEF k
  <2> QED BY <2>1, <2>2, <2>5, <2>6, <2>8, <2>9 DEF NewStep
<1>8. \A k \in Keys : diff.items[k] # cache.items[k] => \E i \in 1..Len(S) : S[i].event.key = k
      BY <1>2, <1>5
<1>9. ASSUME Versioned, NEW i \in 1..Len(E), NEW j \in 1..Len(E), i < j, Settles(S[i]),
             S[j].event.type # "Deleted"
      PROVE  FALSE
  <2>1. markReached # 0
        BY <1>4, <1>6, <1>9
  <2>2. E[j].type # "Deleted" /\ (E[i].version = markReached \/ E[i].type = "Deleted")
        BY <1>5, <1>9, <2>1 DEF Settles
  <2>3. E[i].type # "Deleted" /\ E[i].version < E[j].version /\ E[j].version <= markReached
        BY <1>2, <1>9, <2>2
  <2>4. E[j].version \in Nat
        BY <1>3 DEF CacheEvent
  <2> QED BY <1>4, <2>2, <2>3, <2>4
<1>10. Versioned => \A i, j \in 1..Len(E) :
          i < j /\ S[i].version = S[j].version /\ Settles(S[i]) => S[j].event.type = "Deleted"
       BY <1>9
<1> QED BY <1>5, <1>7, <1>8, <1>10 DEF S, E

\* A poll's answer about to be applied, the ring's steps with those it adds, and
\* the ring when the oldest of them are dropped.
Ready(diff) ==
    TypeOK /\ MarkInv /\ DistinctInv /\ RingSuffices /\ RingOK /\ poll.pc = "apply" /\ diff \in Diffs
NewPart(diff) == recordedSteps(diff.events, markReached)
All(diff) == cache.history \o NewPart(diff)
Shortened(all, drop, d) ==
    /\ drop \in 0..Len(all)
    /\ Len(d.history) = Len(all) - drop
    /\ \A i \in 1..Len(d.history) : d.history[i] = all[drop + i]
    /\ \A j \in 1..drop : Stalled(all[j]) => all[j].version <= d.forgotStalled

LEMMA AllProperty ==
    ASSUME NEW diff, Ready(diff)
    PROVE  LET h == Len(cache.history)
               S == NewPart(diff) IN
           /\ h \in Nat /\ Len(S) \in Nat
           /\ S \in Seq(Step) /\ All(diff) \in Seq(Step)
           /\ Len(All(diff)) = h + Len(S)
           /\ \A i \in 1..h : cache.history[i] \in Step /\ All(diff)[i] = cache.history[i]
           /\ \A i \in 1..Len(S) : S[i] \in Step /\ All(diff)[h + i] = S[i]
           /\ \A i \in 1..Len(S) : NewStep(S[i], i, diff.items)
           /\ \A i \in 1..Len(All(diff)) :
                 /\ All(diff)[i] \in Step
                 /\ i \in 1..h \/ (i - h \in 1..Len(S) /\ All(diff)[i] = S[i - h])
           /\ \A k \in Keys : diff.items[k] # cache.items[k] =>
                 \E i \in 1..Len(S) : S[i].event.key = k
           /\ Versioned => \A i, j \in 1..Len(S) :
                 i < j /\ S[i].version = S[j].version /\ Settles(S[i]) => S[j].event.type = "Deleted"
<1> DEFINE h == Len(cache.history)
           S == NewPart(diff)
<1>1. /\ S \in Seq(Step)
      /\ \A i \in 1..Len(S) : NewStep(S[i], i, diff.items)
      /\ \A k \in Keys : diff.items[k] # cache.items[k] => \E i \in 1..Len(S) : S[i].event.key = k
      /\ Versioned => \A i, j \in 1..Len(S) :
            i < j /\ S[i].version = S[j].version /\ Settles(S[i]) => S[j].event.type = "Deleted"
      BY NewSteps DEF Ready, RingOK, NewPart
<1>2. cache.history \in Seq(Step)
      BY TypedFacts DEF Ready, TypeOK, Cache
<1> HIDE DEF S
<1>3. /\ h \in Nat /\ Len(S) \in Nat /\ All(diff) \in Seq(Step) /\ Len(All(diff)) = h + Len(S)
      /\ \A i \in 1..(h + Len(S)) :
            All(diff)[i] = IF i <= h THEN cache.history[i] ELSE S[i - h]
      BY <1>1, <1>2, ConcatProperties, LenProperties DEF All, S
<1>4. /\ \A i \in 1..h : cache.history[i] \in Step
      /\ \A i \in 1..Len(S) : S[i] \in Step
      /\ \A i \in 1..Len(All(diff)) : All(diff)[i] \in Step
      BY <1>1, <1>2, <1>3, ElementOfSeq
<1> HIDE DEF h
<1>5. \A i \in 1..h : i \in 1..(h + Len(S)) /\ i <= h
      BY <1>3
<1>6. \A i \in 1..Len(S) : h + i \in 1..(h + Len(S)) /\ ~(h + i <= h) /\ (h + i) - h = i
      BY <1>3
<1>7. \A i \in 1..(h + Len(S)) : i \in 1..h \/ (i - h \in 1..Len(S) /\ ~(i <= h))
      BY <1>3
<1> QED BY <1>1, <1>3, <1>4, <1>5, <1>6, <1>7 DEF S, h

LEMMA AllOrdered ==
    ASSUME NEW diff, Ready(diff)
    PROVE  Ordered(All(diff), applied(diff))
<1> DEFINE h == Len(cache.history)
           S == NewPart(diff)
           all == All(diff)
           d == applied(diff)
           H == cache.history
<1>1. /\ h \in Nat /\ Len(S) \in Nat /\ Len(all) = h + Len(S)
      /\ \A i \in 1..h : H[i] \in Step /\ all[i] = H[i]
      /\ \A i \in 1..Len(S) : S[i] \in Step /\ NewStep(S[i], i, diff.items)
      /\ \A i \in 1..Len(all) :
            /\ all[i] \in Step
            /\ i \in 1..h \/ (i - h \in 1..Len(S) /\ all[i] = S[i - h])
      /\ Versioned => \A i, j \in 1..Len(S) :
            i < j /\ S[i].version = S[j].version /\ Settles(S[i]) => S[j].event.type = "Deleted"
      BY AllProperty
<1>2. /\ markReached \in Nat /\ cache.version \in Nat /\ cache.highestVersion \in Nat
      /\ ~Versioned => markReached = 0
      /\ Versioned => cache.highestVersion <= markReached
      BY MarkProperty, TypedFacts DEF Ready
<1>3. d.highestVersion = markReached
      BY AppliedFields
<1>4. ~Versioned => d.version = cache.version + Len(S)
      BY <1>2, AppliedFields DEF NewPart
<1>5. Ordered(H, cache)
      BY DEF Ready, RingOK
<1> HIDE DEF h, S, all, d, H
<1>6. ASSUME NEW i \in 1..Len(all)
      PROVE  /\ all[i].event.version <= all[i].version
             /\ ~Versioned => /\ all[i].version = d.version - Len(all) + i
                              /\ all[i].from = all[i].version - 1
                              /\ all[i].event.version = all[i].version
             /\ Versioned => /\ all[i].from = all[i].version
                             /\ 0 < all[i].version /\ all[i].version <= d.highestVersion
  <2>1. CASE i \in 1..h
    <3>1. all[i] = H[i] /\ all[i] \in Step
          BY <1>1, <2>1
    <3>2. /\ H[i].event.version <= H[i].version
          /\ ~Versioned => /\ H[i].version = cache.version - h + i
                           /\ H[i].from = H[i].version - 1
                           /\ H[i].event.version = H[i].version
          /\ Versioned => /\ H[i].from = H[i].version
                          /\ 0 < H[i].version /\ H[i].version <= cache.highestVersion
          BY <1>5, <2>1 DEF Ordered, h, H
    <3>3. all[i].version \in Nat
          BY <3>1 DEF Step
    <3>4. ~Versioned => cache.version - h + i = d.version - Len(all) + i
          BY <1>1, <1>2, <1>4, <2>1
    <3> QED BY <1>2, <1>3, <3>1, <3>2, <3>3, <3>4
  <2>2. CASE i - h \in 1..Len(S) /\ all[i] = S[i - h]
    <3> DEFINE j == i - h
    <3>1. NewStep(S[j], j, diff.items) /\ all[i] = S[j]
          BY <1>1, <2>2
    <3>2. ~Versioned => cache.version + j = d.version - Len(all) + i /\ cache.version + j - 1 = (cache.version + j) - 1
          BY <1>1, <1>2, <1>4, <2>2
    <3> HIDE DEF j
    <3> QED BY <1>2, <1>3, <3>1, <3>2 DEF NewStep
  <2> QED BY <1>1, <2>1, <2>2
<1>7. ASSUME Versioned, NEW i \in 1..Len(all), NEW j \in 1..Len(all), i < j
      PROVE  /\ all[i].version <= all[j].version
             /\ all[i].version = all[j].version /\ Settles(all[i]) => all[j].event.type = "Deleted"
  <2>1. all[i].version \in Nat /\ all[j].version \in Nat
        BY <1>1 DEF Step
  <2>2. CASE j \in 1..h
    <3>1. i \in 1..h
          BY <1>1, <1>7, <2>2
    <3>2. all[i] = H[i] /\ all[j] = H[j]
          BY <1>1, <2>2, <3>1
    <3> QED BY <1>5, <1>7, <2>2, <3>1, <3>2 DEF Ordered, h, H
  <2>3. CASE j - h \in 1..Len(S) /\ all[j] = S[j - h]
    <3>1. NewStep(S[j - h], j - h, diff.items)
          BY <1>1, <2>3
    <3>2. /\ all[j].version = markReached
          /\ all[j].event.type # "Deleted" => cache.highestVersion < markReached
          BY <1>7, <2>3, <3>1 DEF NewStep
    <3>3. CASE i \in 1..h
      <4>1. all[i].version <= cache.highestVersion
            BY <1>1, <1>5, <1>7, <3>3 DEF Ordered, h, H
      <4> QED BY <1>2, <1>7, <2>1, <3>2, <4>1
    <3>4. CASE i - h \in 1..Len(S) /\ all[i] = S[i - h]
      <4>1. NewStep(S[i - h], i - h, diff.items)
            BY <1>1, <3>4
      <4>2. all[i].version = markReached
            BY <1>7, <3>4, <4>1 DEF NewStep
      <4>3. i - h < j - h
            BY <1>1, <1>7
      <4>4. S[i - h].version = S[j - h].version /\ Settles(S[i - h]) => S[j - h].event.type = "Deleted"
            BY <1>1, <1>7, <2>3, <3>4, <4>3
      <4> QED BY <2>1, <2>3, <3>2, <3>4, <4>2, <4>4
    <3> QED BY <1>1, <3>3, <3>4
  <2> QED BY <1>1, <2>2, <2>3
<1>8. Ordered(all, d)
      BY <1>6, <1>7 DEF Ordered
<1> QED BY <1>8 DEF all, d

\* The last word about a row is the last sent step's, of the old ones if the poll
\* sends none.
LEMMA AllTells ==
    ASSUME NEW diff, Ready(diff)
    PROVE  Tells(All(diff), diff.items)
<1> DEFINE h == Len(cache.history)
           S == NewPart(diff)
           all == All(diff)
           H == cache.history
<1>1. /\ h \in Nat /\ Len(S) \in Nat /\ Len(all) = h + Len(S)
      /\ \A i \in 1..h : H[i] \in Step /\ all[i] = H[i]
      /\ \A i \in 1..Len(S) : /\ S[i] \in Step /\ NewStep(S[i], i, diff.items)
                              /\ all[h + i] = S[i]
      /\ \A i \in 1..Len(all) :
            /\ all[i] \in Step
            /\ i \in 1..h \/ (i - h \in 1..Len(S) /\ all[i] = S[i - h])
      /\ \A k \in Keys : diff.items[k] # cache.items[k] => \E i \in 1..Len(S) : S[i].event.key = k
      BY AllProperty
<1>2. Tells(H, cache.items)
      BY DEF Ready, RingOK
<1>3. SUFFICES ASSUME NEW j \in 1..Len(all), sends(all[j].event),
                      Heir(all[j].event) # selected(diff.items)[all[j].event.key]
               PROVE  \E i \in 1..Len(all) : /\ j < i /\ sends(all[i].event)
                                             /\ all[i].event.key = all[j].event.key
      BY DEF Tells
<1> HIDE DEF h, S, all, H
<1> DEFINE k == all[j].event.key
<1>4. k \in Keys
      BY <1>1 DEF Step, CacheEvent
<1>5. CASE j - h \in 1..Len(S) /\ all[j] = S[j - h]
  <2>1. NewStep(S[j - h], j - h, diff.items)
        BY <1>1, <1>5
  <2>2. all[j].event.value = diff.items[k]
        BY <1>5, <2>1 DEF NewStep
  <2>3. selected(diff.items)[k] = IF matches(diff.items[k]) THEN diff.items[k] ELSE 0
        BY <1>4 DEF selected
  <2> QED BY <1>3, <2>2, <2>3 DEF Heir
<1>6. CASE j \in 1..h
  <2>1. all[j] = H[j]
        BY <1>1, <1>6
  <2>2. CASE Heir(H[j].event) # selected(cache.items)[k]
    <3>1. PICK i \in 1..h : j < i /\ sends(H[i].event) /\ H[i].event.key = k
          BY <1>2, <1>3, <1>6, <2>1, <2>2 DEF Tells, h, H
    <3>2. all[i] = H[i] /\ i \in 1..Len(all)
          BY <1>1
    <3> QED BY <3>1, <3>2
  <2>3. CASE Heir(H[j].event) = selected(cache.items)[k]
    <3>1. selected(cache.items)[k] # selected(diff.items)[k]
          BY <1>3, <2>1, <2>3
    <3>2. diff.items[k] # cache.items[k]
          BY <1>4, <3>1 DEF selected
    <3>3. PICK i \in 1..Len(S) : S[i].event.key = k
          BY <1>1, <1>4, <3>2
    <3>4. sends(S[i].event)
          BY <1>1, <3>1, <3>3 DEF NewStep
    <3>5. h + i \in 1..Len(all) /\ j < h + i /\ all[h + i] = S[i]
          BY <1>1, <1>6
    <3> QED BY <3>3, <3>4, <3>5
  <2> QED BY <2>2, <2>3
<1> QED BY <1>1, <1>5, <1>6

\* The ring drops its oldest steps.  With no ring, on the counter, it drops all,
\* and none of them is stalled.
LEMMA AllShortened ==
    ASSUME NEW diff, Ready(diff)
    PROVE  /\ \E drop \in 0..Len(All(diff)) : Shortened(All(diff), drop, applied(diff))
           /\ cache.forgotStalled <= applied(diff).forgotStalled
<1> DEFINE all == All(diff)
           d == applied(diff)
           ring == record(NewPart(diff))
<1>1. /\ NewPart(diff) \in Seq(Step) /\ all \in Seq(Step) /\ Len(all) \in Nat
      /\ \A i \in 1..Len(all) : all[i] \in Step
      BY AllProperty, LenProperties, ElementOfSeq
<1>2. d.history = ring.history /\ d.forgotStalled = ring.forgotStalled
      BY AppliedFields DEF NewPart
<1>3. /\ TypeOK /\ config.historySize \in Nat /\ cache.history \in Seq(Step)
      /\ Len(cache.history) <= config.historySize /\ cache.forgotStalled \in Nat
      BY ConfigFacts, TypedFacts DEF Ready, TypeOK, Cache
<1>4. Ordered(all, d)
      BY AllOrdered
<1>5. CASE config.historySize = 0
  <2>1. ring.history = cache.history /\ ring.forgotStalled = cache.forgotStalled
        BY <1>1, <1>3, <1>5, RecordProperty
  <2>2. Len(cache.history) = 0
        BY <1>3, <1>5, LenProperties
  <2>3. ~Versioned
        BY <1>5 DEF Ready, RingSuffices
  <2> HIDE DEF all, d, ring
  <2>4. \A j \in 1..Len(all) : ~Stalled(all[j])
    <3> SUFFICES ASSUME NEW j \in 1..Len(all) PROVE ~(all[j].from = all[j].version)
        BY DEF Stalled
    <3>1. all[j].from = all[j].version - 1 /\ all[j].version \in Nat
          BY <1>1, <1>4, <2>3 DEF Ordered, Step
    <3> QED BY <3>1
  <2>5. Len(d.history) = 0 /\ Len(all) - Len(all) = 0 /\ Len(all) \in 0..Len(all) /\ 1..Len(d.history) = {}
        BY <1>1, <1>2, <2>1, <2>2
  <2>6. Shortened(all, Len(all), d)
        BY <2>4, <2>5 DEF Shortened
  <2> QED BY <1>2, <1>3, <2>1, <2>5, <2>6 DEF all, d
<1>6. CASE config.historySize > 0
  <2>1. PICK drop \in 0..Len(all) :
           /\ Len(ring.history) = Len(all) - drop
           /\ \A i \in 1..Len(ring.history) : ring.history[i] = all[drop + i]
           /\ cache.forgotStalled <= ring.forgotStalled
           /\ \A j \in 1..drop : Stalled(all[j]) => all[j].version <= ring.forgotStalled
        BY <1>1, <1>3, <1>6, RecordProperty DEF All
  <2>2. Shortened(all, drop, d)
        BY <1>2, <2>1 DEF Shortened
  <2> QED BY <1>2, <2>1, <2>2
<1> QED BY <1>3, <1>5, <1>6

LEMMA ShortenedFacts ==
    ASSUME NEW all \in Seq(Step), NEW drop, NEW d, Shortened(all, drop, d)
    PROVE  /\ drop \in Nat /\ Len(all) \in Nat /\ Len(d.history) \in Nat
           /\ \A i \in 1..Len(d.history) : /\ drop + i \in 1..Len(all)
                                           /\ d.history[i] = all[drop + i] /\ all[drop + i] \in Step
           /\ \A x \in 1..Len(all) : x > drop =>
                 x - drop \in 1..Len(d.history) /\ d.history[x - drop] = all[x]
<1>1. /\ drop \in 0..Len(all) /\ Len(d.history) = Len(all) - drop
      /\ \A i \in 1..Len(d.history) : d.history[i] = all[drop + i]
      BY DEF Shortened
<1>2. Len(all) \in Nat /\ \A i \in 1..Len(all) : all[i] \in Step
      BY LenProperties, ElementOfSeq
<1>3. drop \in Nat /\ Len(d.history) \in Nat /\ \A i \in 1..Len(d.history) : drop + i \in 1..Len(all)
      BY <1>1, <1>2
<1>4. ASSUME NEW x \in 1..Len(all), x > drop
      PROVE  x - drop \in 1..Len(d.history) /\ drop + (x - drop) = x
      BY <1>1, <1>2, <1>3, <1>4
<1> QED BY <1>1, <1>2, <1>3, <1>4

LEMMA ShortenedOrdered ==
    ASSUME NEW all \in Seq(Step), NEW drop, NEW d, d.version \in Nat, Shortened(all, drop, d), Ordered(all, d)
    PROVE  Ordered(d.history, d)
<1> DEFINE H == d.history
<1>1. /\ drop \in Nat /\ Len(all) \in Nat /\ Len(H) \in Nat /\ Len(H) = Len(all) - drop
      /\ \A i \in 1..Len(H) : /\ drop + i \in 1..Len(all)
                              /\ H[i] = all[drop + i] /\ all[drop + i] \in Step
      BY ShortenedFacts DEF Shortened
<1> HIDE DEF H
<1>2. ASSUME NEW i \in 1..Len(H)
      PROVE  /\ H[i].event.version <= H[i].version
             /\ ~Versioned => /\ H[i].version = d.version - Len(H) + i
                              /\ H[i].from = H[i].version - 1
                              /\ H[i].event.version = H[i].version
             /\ Versioned => /\ H[i].from = H[i].version
                             /\ 0 < H[i].version /\ H[i].version <= d.highestVersion
  <2>1. d.version - Len(all) + (drop + i) = d.version - Len(H) + i
        BY <1>1
  <2> QED BY <1>1, <2>1 DEF Ordered
<1>3. ASSUME Versioned, NEW i \in 1..Len(H), NEW j \in 1..Len(H), i < j
      PROVE  /\ H[i].version <= H[j].version
             /\ H[i].version = H[j].version /\ Settles(H[i]) => H[j].event.type = "Deleted"
  <2>1. drop + i < drop + j /\ drop + i \in 1..Len(all) /\ drop + j \in 1..Len(all)
        BY <1>1, <1>3
  <2>2. \A a, b \in 1..Len(all) : a < b =>
           /\ all[a].version <= all[b].version
           /\ all[a].version = all[b].version /\ Settles(all[a]) => all[b].event.type = "Deleted"
        BY <1>3 DEF Ordered
  <2>3. H[i] = all[drop + i] /\ H[j] = all[drop + j]
        BY <1>1
  <2> QED BY <2>1, <2>2, <2>3
<1>4. Ordered(H, d)
      BY <1>2, <1>3 DEF Ordered
<1> QED BY <1>4 DEF H

LEMMA ShortenedTells ==
    ASSUME NEW all \in Seq(Step), NEW drop, NEW d, Shortened(all, drop, d), NEW items, Tells(all, items)
    PROVE  Tells(d.history, items)
<1> DEFINE H == d.history
<1>1. /\ drop \in Nat /\ Len(all) \in Nat /\ Len(H) \in Nat
      /\ \A i \in 1..Len(H) : drop + i \in 1..Len(all) /\ H[i] = all[drop + i]
      /\ \A x \in 1..Len(all) : x > drop => x - drop \in 1..Len(H) /\ H[x - drop] = all[x]
      BY ShortenedFacts
<1>2. SUFFICES ASSUME NEW j \in 1..Len(H), sends(H[j].event),
                      Heir(H[j].event) # selected(items)[H[j].event.key]
               PROVE  \E i \in 1..Len(H) : /\ j < i /\ sends(H[i].event)
                                           /\ H[i].event.key = H[j].event.key
      BY DEF Tells
<1> HIDE DEF H
<1>3. PICK x \in 1..Len(all) : /\ drop + j < x /\ sends(all[x].event)
                               /\ all[x].event.key = all[drop + j].event.key
      BY <1>1, <1>2 DEF Tells
<1>4. x > drop /\ j < x - drop
      BY <1>1, <1>3
<1>5. x - drop \in 1..Len(H) /\ H[x - drop] = all[x] /\ H[j] = all[drop + j]
      BY <1>1, <1>4
<1>6. sends(H[x - drop].event) /\ H[x - drop].event.key = H[j].event.key
      BY <1>3, <1>5
<1> DEFINE i == x - drop
<1>7. i \in 1..Len(H) /\ j < i /\ sends(H[i].event) /\ H[i].event.key = H[j].event.key
      BY <1>4, <1>5, <1>6
<1> HIDE DEF i
<1> QED BY <1>7

\* A step that a client at a replayable version has yet to see is in the ring.
LEMMA NotDropped ==
    ASSUME NEW all \in Seq(Step), NEW drop, NEW d \in Cache, Shortened(all, drop, d), Ordered(all, d),
           ~Versioned => d.highestVersion = 0,
           NEW at \in Nat, Replayable(d, at), NEW x \in 1..Len(all), Owes(all[x], at)
    PROVE  x > drop
<1>1. /\ drop \in Nat /\ Len(all) \in Nat /\ Len(d.history) \in Nat /\ Len(d.history) = Len(all) - drop
      /\ \A i \in 1..Len(d.history) : drop + i \in 1..Len(all) /\ d.history[i] = all[drop + i]
      BY ShortenedFacts DEF Shortened
<1>2. all[x] \in Step /\ \A i \in 1..Len(all) : all[i] \in Step
      BY ElementOfSeq
<1>3. /\ d.forgotStalled \in Nat /\ d.highestVersion \in Nat /\ d.version \in Nat /\ currentVersion(d) \in Nat
      BY CurrentVersionType DEF Cache
<1>4. all[x].version \in Nat /\ all[x].from \in Nat
      BY <1>2 DEF Step
<1>5. SUFFICES ASSUME x <= drop PROVE FALSE
      BY <1>1
<1>6. CASE Stalled(all[x]) /\ all[x].version = at
  <2>1. all[x].version <= d.forgotStalled
        BY <1>5, <1>6, <1>1 DEF Shortened
  <2>2. all[x].from = all[x].version
        BY <1>6 DEF Stalled
  <2>3. Versioned /\ all[x].version > 0
    <3>1. ~Versioned => all[x].from = all[x].version - 1
          BY DEF Ordered
    <3>2. Versioned
          BY <1>4, <2>2, <3>1
    <3> QED BY <3>2 DEF Ordered
  <2>4. d.forgotStalled # 0
        BY <1>3, <1>4, <2>1, <2>3
  <2>5. at > d.forgotStalled
        BY <2>4 DEF Replayable
  <2> QED BY <1>3, <1>4, <1>6, <2>1, <2>5
<1>7. CASE all[x].version > at
  <2>1. all[x].version <= currentVersion(d)
    <3>1. CASE Versioned
      <4>1. 0 < all[x].version /\ all[x].version <= d.highestVersion
            BY <3>1 DEF Ordered
      <4> QED BY <1>3, <1>4, <4>1 DEF currentVersion
    <3>2. CASE ~Versioned
      <4>1. all[x].version = d.version - Len(all) + x
            BY <3>2 DEF Ordered
      <4> QED BY <1>1, <1>3, <3>2, <4>1 DEF currentVersion
    <3> QED BY <3>1, <3>2
  <2>2. at # currentVersion(d)
        BY <1>3, <1>4, <1>7, <2>1
  <2>3. d.history # <<>> /\ d.history[1].from <= at
        BY <2>2 DEF Replayable
  <2>4. d.history \in Seq(Step)
        BY DEF Cache
  <2>5. 1 \in 1..Len(d.history)
        BY <2>3, <2>4, EmptySeq, <1>1
  <2>6. drop + 1 \in 1..Len(all) /\ d.history[1] = all[drop + 1] /\ x < drop + 1
        BY <1>1, <1>5, <2>5
  <2>7. all[drop + 1].from \in Nat /\ all[drop + 1].version \in Nat
        BY <1>2, <2>6 DEF Step
  <2>8. all[x].version <= all[drop + 1].from
    <3>1. CASE Versioned
      <4>1. all[x].version <= all[drop + 1].version /\ all[drop + 1].from = all[drop + 1].version
            BY <2>6, <3>1 DEF Ordered
      <4> QED BY <4>1
    <3>2. CASE ~Versioned
      <4>1. /\ all[x].version = d.version - Len(all) + x
            /\ all[drop + 1].version = d.version - Len(all) + (drop + 1)
            /\ all[drop + 1].from = all[drop + 1].version - 1
            BY <2>6, <3>2 DEF Ordered
      <4> QED BY <1>1, <1>3, <1>5, <4>1
    <3> QED BY <3>1, <3>2
  <2> QED BY <1>4, <1>7, <2>3, <2>6, <2>7, <2>8
<1> QED BY <1>6, <1>7 DEF Owes

LEMMA AppliedFacts ==
    ASSUME NEW diff, Ready(diff)
    PROVE  LET d == applied(diff) IN
           /\ d \in Cache /\ d.items = diff.items /\ diff.items \in Rows
           /\ d.highestVersion = markReached /\ d.highestVersion \in Nat /\ d.version \in Nat
           /\ d.forgotStalled \in Nat /\ d.history \in Seq(Step)
           /\ ~Versioned => /\ d.highestVersion = 0 /\ cache.highestVersion = 0
                            /\ d.version = cache.version + Len(NewPart(diff))
           /\ Versioned => cache.highestVersion <= d.highestVersion
           /\ Versioned /\ cache.highestVersion = 0 => cache.version = 1
           /\ currentVersion(cache) \in Nat /\ currentVersion(d) \in Nat
           /\ currentVersion(cache) <= currentVersion(d)
<1> DEFINE d == applied(diff)
<1>1. TypeOK /\ MarkInv /\ poll.pc = "apply" /\ diff \in Diffs
      BY DEF Ready
<1>2. d \in Cache /\ diff.items \in Rows
      BY <1>1, AppliedType, DiffType
<1>3. /\ d.items = diff.items /\ d.highestVersion = markReached
      /\ d.version = cache.version +
            IF markReached = 0 THEN Len(NewPart(diff)) ELSE IF NewPart(diff) = <<>> THEN 0 ELSE 1
      BY AppliedFields DEF NewPart
<1>4. /\ ~Versioned => d.highestVersion = 0 /\ d.version >= cache.version
      /\ Versioned => /\ d.highestVersion >= cache.highestVersion
                      /\ d.highestVersion = 0 => d.version = 1
      BY <1>1, AppliedMark
<1> HIDE DEF d
<1>5. /\ d.highestVersion \in Nat /\ d.version \in Nat /\ d.forgotStalled \in Nat /\ d.history \in Seq(Step)
      /\ cache.highestVersion \in Nat /\ cache.version \in Nat
      BY <1>1, <1>2, TypedFacts DEF Cache
<1>6. currentVersion(cache) \in Nat /\ currentVersion(d) \in Nat
      BY <1>5 DEF currentVersion
<1>7. /\ ~Versioned => cache.highestVersion = 0
      /\ Versioned /\ cache.highestVersion = 0 => cache.version = 1
      BY <1>1 DEF MarkInv
<1>8. currentVersion(cache) <= currentVersion(d)
      BY <1>4, <1>5, <1>7 DEF currentVersion
<1>9. ~Versioned => markReached = 0
      BY <1>3, <1>4
<1> QED BY <1>2, <1>3, <1>4, <1>5, <1>6, <1>7, <1>8, <1>9 DEF d

\* A client at no later a version than the cache's has yet to see the steps of a
\* poll: they move the version, or they are deletions that stall.
LEMMA NewOwed ==
    ASSUME NEW diff, Ready(diff), NEW at \in Nat, at <= currentVersion(cache),
           NEW i \in 1..Len(NewPart(diff))
    PROVE  Owes(NewPart(diff)[i], at)
<1> DEFINE s == NewPart(diff)[i]
<1>1. NewStep(s, i, diff.items) /\ s \in Step
      BY AllProperty
<1>2. /\ markReached \in Nat /\ cache.highestVersion \in Nat /\ cache.version \in Nat
      /\ ~Versioned => cache.highestVersion = 0
      /\ Versioned => cache.highestVersion <= markReached
      /\ Versioned /\ cache.highestVersion = 0 => cache.version = 1
      BY AppliedFacts, TypedFacts, MarkProperty DEF Ready
<1>3. config.firstStamp \in Nat /\ (Versioned => config.firstStamp > 0)
      BY ConfigFacts DEF Ready, TypeOK, RingSuffices
<1> HIDE DEF s
<1>4. CASE ~Versioned
  <2>1. s.version = cache.version + i
        BY <1>1, <1>4 DEF NewStep
  <2>2. at <= cache.version
        BY <1>2, <1>4 DEF currentVersion
  <2> QED BY <1>2, <2>1, <2>2 DEF Owes, s
<1>5. CASE Versioned /\ s.event.type = "Deleted"
  <2>1. s.from = s.version /\ s.version = markReached /\ cache.highestVersion > 0
        BY <1>1, <1>5 DEF NewStep
  <2>2. Stalled(s)
        BY <1>5, <2>1 DEF Stalled
  <2>3. at <= markReached
        BY <1>2, <1>5, <2>1 DEF currentVersion
  <2> QED BY <1>2, <2>1, <2>2, <2>3 DEF Owes, s
<1>6. CASE Versioned /\ s.event.type # "Deleted"
  <2>1. s.version = markReached /\ cache.highestVersion < markReached /\ config.firstStamp < markReached
        BY <1>1, <1>6 DEF NewStep
  <2>2. at < markReached
    <3>1. CASE cache.highestVersion = 0
          BY <1>2, <1>3, <1>6, <2>1, <3>1 DEF currentVersion
    <3>2. CASE cache.highestVersion # 0
          BY <1>2, <2>1, <3>2 DEF currentVersion
    <3> QED BY <3>1, <3>2
  <2> QED BY <1>2, <2>1, <2>2 DEF Owes, s
<1> QED BY <1>4, <1>5, <1>6

\* What a client holds of a row stays right if the poll sends nothing about it.
LEMMA AgreesStays ==
    ASSUME NEW diff, Ready(diff), NEW k \in Keys, NEW x, Agrees(cache, k, x),
           \A i \in 1..Len(NewPart(diff)) :
               NewPart(diff)[i].event.key = k => ~sends(NewPart(diff)[i].event)
    PROVE  Agrees(applied(diff), k, x)
<1> DEFINE d == applied(diff)
<1>1. d.items = diff.items
      BY AppliedFacts
<1> HIDE DEF d
<1>2. /\ selected(d.items)[k] = IF matches(d.items[k]) THEN d.items[k] ELSE 0
      /\ selected(cache.items)[k] = IF matches(cache.items[k]) THEN cache.items[k] ELSE 0
      BY DEF selected
<1>3. CASE d.items[k] = cache.items[k]
      BY <1>2, <1>3 DEF Agrees, d
<1>4. CASE d.items[k] # cache.items[k]
  <2>1. PICK i \in 1..Len(NewPart(diff)) : NewPart(diff)[i].event.key = k
        BY <1>1, <1>4, AllProperty
  <2>2. NewStep(NewPart(diff)[i], i, diff.items) /\ ~sends(NewPart(diff)[i].event)
        BY <2>1, AllProperty
  <2>3. ~matches(d.items[k]) /\ selected(d.items)[k] = selected(cache.items)[k]
        BY <1>1, <2>1, <2>2 DEF NewStep
  <2> QED BY <2>3 DEF Agrees, d
<1> QED BY <1>3, <1>4

\* What is owed to a client whose version the ring accounts for is pending.
LEMMA OwedPending ==
    ASSUME NEW diff, Ready(diff), NEW at \in Nat, Replayable(applied(diff), at),
           NEW x \in 1..Len(All(diff)), sends(All(diff)[x].event), Owes(All(diff)[x], at)
    PROVE  Pending(applied(diff), at, All(diff)[x].event.key)
<1> DEFINE d == applied(diff)
           all == All(diff)
<1>1. all \in Seq(Step) /\ d \in Cache /\ (~Versioned => d.highestVersion = 0) /\ Ordered(all, d)
      BY AllProperty, AppliedFacts, AllOrdered
<1>2. PICK drop \in 0..Len(all) : Shortened(all, drop, d)
      BY AllShortened
<1> HIDE DEF d, all
<1>3. x > drop
      BY <1>1, <1>2, NotDropped DEF d, all
<1>4. x - drop \in 1..Len(d.history) /\ d.history[x - drop] = all[x]
      BY <1>1, <1>2, <1>3, ShortenedFacts, SMTT(40) DEF all
<1> DEFINE i == x - drop
<1>5. i \in 1..Len(d.history) /\ d.history[i] = all[x]
      BY <1>4
<1> HIDE DEF i
<1>6. sends(d.history[i].event) /\ Owes(d.history[i], at) /\ d.history[i].event.key = all[x].event.key
      BY <1>5 DEF all
<1> QED BY <1>5, <1>6 DEF Pending, d, all

\* A version the ring accounts for after a poll it accounted for before.
LEMMA ReplayableBefore ==
    ASSUME NEW diff, Ready(diff), NEW at \in Nat, at <= currentVersion(cache), Replayable(applied(diff), at)
    PROVE  Replayable(cache, at)
<1> DEFINE d == applied(diff)
           all == All(diff)
           h == Len(cache.history)
<1>1. /\ all \in Seq(Step) /\ d \in Cache /\ Ordered(all, d) /\ d.version \in Nat
      /\ d.history \in Seq(Step) /\ d.forgotStalled \in Nat
      /\ currentVersion(cache) \in Nat /\ currentVersion(d) \in Nat
      /\ currentVersion(cache) <= currentVersion(d)
      BY AllProperty, AppliedFacts, AllOrdered
<1>2. PICK drop \in 0..Len(all) : Shortened(all, drop, d)
      BY AllShortened
<1>3. /\ h \in Nat /\ cache.history \in Seq(Step) /\ cache.forgotStalled \in Nat
      /\ Len(NewPart(diff)) \in Nat /\ Len(all) = h + Len(NewPart(diff))
      /\ \A i \in 1..h : all[i] = cache.history[i]
      /\ \A i \in 1..Len(all) : all[i] \in Step
  <2>1. cache.history \in Seq(Step) /\ cache.forgotStalled \in Nat
        BY DEF Ready, TypeOK, Cache
  <2> QED BY <2>1, AllProperty
<1>4. cache.forgotStalled <= d.forgotStalled
      BY AllShortened
<1> HIDE DEF d, all, h
<1>5. cache.forgotStalled # 0 => at > cache.forgotStalled
  <2>1. d.forgotStalled # 0 => at > d.forgotStalled
        BY DEF Replayable, d
  <2> QED BY <1>1, <1>3, <1>4, <2>1
<1>6. ASSUME at # currentVersion(cache)
      PROVE  cache.history # <<>> /\ cache.history[1].from <= at
  <2>1. at < currentVersion(cache) /\ at # currentVersion(d)
        BY <1>1, <1>6
  <2>2. d.history # <<>> /\ d.history[1].from <= at
        BY <2>1 DEF Replayable, d
  <2>3. 1 \in 1..Len(d.history)
        BY <1>1, <2>2, EmptySeq, LenProperties
  <2>4. drop + 1 \in 1..Len(all) /\ d.history[1] = all[drop + 1]
        BY <1>1, <1>2, <2>3, ShortenedFacts
  <2>5. 1 \in 1..Len(all) /\ (drop + 1 = 1 \/ 1 < drop + 1)
        BY <1>3, <2>4
  <2>6. /\ all[1].from \in Nat /\ all[drop + 1].from \in Nat
        /\ all[1].version \in Nat /\ all[drop + 1].version \in Nat
        BY <1>3, <2>4, <2>5 DEF Step
  <2>7. all[1].from <= all[drop + 1].from
    <3>1. CASE Versioned
      <4>1. all[1].from = all[1].version /\ all[drop + 1].from = all[drop + 1].version
            BY <1>1, <2>4, <2>5, <3>1 DEF Ordered
      <4>2. 1 < drop + 1 => all[1].version <= all[drop + 1].version
            BY <1>1, <2>4, <2>5, <3>1 DEF Ordered
      <4> QED BY <2>5, <2>6, <4>1, <4>2
    <3>2. CASE ~Versioned
      <4>1. /\ all[1].from = all[1].version - 1 /\ all[drop + 1].from = all[drop + 1].version - 1
            /\ all[1].version = d.version - Len(all) + 1
            /\ all[drop + 1].version = d.version - Len(all) + (drop + 1)
            BY <1>1, <2>4, <2>5, <3>2 DEF Ordered
      <4>2. drop \in Nat /\ Len(all) \in Nat /\ d.version \in Nat
            BY <1>1, <1>2, <1>3
      <4> QED BY <4>1, <4>2
    <3> QED BY <3>1, <3>2
  <2>8. all[1].from <= at
        BY <2>2, <2>4, <2>6, <2>7
  <2>9. CASE h = 0
    <3>1. 1 \in 1..Len(NewPart(diff)) /\ all[1] = NewPart(diff)[1]
      <4>1. 1 \in 1..Len(NewPart(diff))
            BY <1>3, <2>5, <2>9
      <4>2. all[h + 1] = NewPart(diff)[1] /\ h + 1 = 1
            BY <2>9, <4>1, AllProperty DEF all, h
      <4> QED BY <4>1, <4>2
    <3>2. NewStep(all[1], 1, diff.items)
          BY <3>1, AllProperty
    <3>3. currentVersion(cache) <= all[1].from
      <4>1. /\ cache.version \in Nat /\ cache.highestVersion \in Nat /\ markReached \in Nat
            /\ ~Versioned => cache.highestVersion = 0
            /\ Versioned => cache.highestVersion <= markReached
            /\ Versioned /\ cache.highestVersion = 0 => cache.version = 1
            BY AppliedFacts, TypedFacts, MarkProperty DEF Ready
      <4>2. ~Versioned => all[1].from = cache.version + 1 - 1
            BY <3>2 DEF NewStep
      <4>3. Versioned => all[1].from = markReached /\ markReached > 0
            BY <3>2 DEF NewStep
      <4> QED BY <4>1, <4>2, <4>3 DEF currentVersion
    <3> QED BY <1>1, <2>1, <2>6, <2>8, <3>3
  <2>10. CASE h # 0
    <3>1. 1 \in 1..h
          BY <1>3, <2>10
    <3>2. all[1] = cache.history[1] /\ cache.history # <<>>
          BY <1>3, <3>1 DEF h
    <3> QED BY <2>8, <3>2
  <2> QED BY <2>9, <2>10
<1>7. at # currentVersion(cache) => at < currentVersion(cache)
      BY <1>1
<1> QED BY <1>5, <1>6, <1>7 DEF Replayable

\* So a client the ring could make up for is one it still makes up for.
LEMMA CaughtApplied ==
    ASSUME NEW diff, Ready(diff), NEW store, NEW at \in Nat, at <= currentVersion(cache),
           Caught(cache, store, at)
    PROVE  Caught(applied(diff), store, at)
<1> DEFINE d == applied(diff)
           all == All(diff)
           h == Len(cache.history)
           S == NewPart(diff)
<1>1. SUFFICES ASSUME Replayable(d, at), NEW k \in Keys, ~Pending(d, at, k)
               PROVE  Agrees(d, k, store[k])
      BY DEF Caught
<1>2. Replayable(cache, at)
      BY <1>1, ReplayableBefore
<1>3. /\ h \in Nat /\ Len(S) \in Nat /\ Len(all) = h + Len(S)
      /\ \A i \in 1..h : all[i] = cache.history[i]
      /\ \A i \in 1..Len(S) : all[h + i] = S[i]
      BY AllProperty
<1>4. \A x \in 1..Len(all) : sends(all[x].event) /\ Owes(all[x], at) => all[x].event.key # k
      BY <1>1, OwedPending
<1> HIDE DEF d, all, h, S
<1>5. ~Pending(cache, at, k)
  <2> SUFFICES ASSUME NEW i \in 1..h, sends(cache.history[i].event), Owes(cache.history[i], at),
                      cache.history[i].event.key = k
               PROVE  FALSE
      BY DEF Pending, h
  <2>1. i \in 1..Len(all) /\ all[i] = cache.history[i]
        BY <1>3
  <2> QED BY <1>4, <2>1
<1>6. Agrees(cache, k, store[k])
      BY <1>2, <1>5 DEF Caught
<1>7. ASSUME NEW i \in 1..Len(S), S[i].event.key = k PROVE ~sends(S[i].event)
  <2>1. Owes(S[i], at)
        BY NewOwed DEF S
  <2>2. h + i \in 1..Len(all) /\ all[h + i] = S[i]
        BY <1>3
  <2> QED BY <1>4, <1>7, <2>1, <2>2
<1> QED BY <1>6, <1>7, AgreesStays DEF S, d

\* The events sent are those of the rows whose selection changes, in their order.
LEMMA TransitionsProperty ==
    ASSUME NEW events \in Seq(CacheEvent)
    PROVE  LET B == transitions(events) IN
           /\ B \in Seq(WatchEvent) /\ Len(B) \in Nat
           /\ \E sel \in [1..Len(B) -> 1..Len(events)] :
                 /\ \A p \in 1..Len(B) :
                       LET e == events[sel[p]] IN
                       /\ sends(e) /\ B[p].type # "Bookmark" /\ B[p].key = e.key
                       /\ B[p].value = Heir(e) /\ B[p].version = e.version
                       /\ B[p].type = "Deleted" => B[p].value = 0
                 /\ \A p, r \in 1..Len(B) : p < r => sel[p] < sel[r]
                 /\ \A x \in 1..Len(events) : sends(events[x]) => \E p \in 1..Len(B) : sel[p] = x
<1> DEFINE all == [i \in DOMAIN events |-> transition(events[i])]
           T == {i \in DOMAIN events : sends(events[i])}
           B == kept(all, T)
           n == Len(events)
<1>1. n \in Nat /\ DOMAIN events = 1..n /\ \A i \in 1..n : events[i] \in CacheEvent
      BY LenProperties, ElementOfSeq
<1>2. all \in [1..n -> WatchEvent]
      BY <1>1, TransitionType
<1>3. all \in Seq(WatchEvent) /\ Len(all) = n
      BY <1>1, <1>2
<1>4. T \in SUBSET (1..Len(all))
      BY <1>1, <1>3
<1>5. \A i \in 1..n : all[i] = transition(events[i])
      BY <1>1
<1>6. \A i \in 1..n : i \in T <=> sends(events[i])
      BY <1>1
<1>7. B = transitions(events)
      BY DEF transitions
<1> HIDE DEF all, T, n
<1>8. B \in Seq(WatchEvent)
      BY <1>3, <1>4, KeptProperty
<1>9. PICK sel \in [1..Len(B) -> T] :
         /\ \A i \in 1..Len(B) : B[i] = all[sel[i]]
         /\ \A i, j \in 1..Len(B) : i < j => sel[i] < sel[j]
         /\ \A x \in T : \E i \in 1..Len(B) : sel[i] = x
  <2>1. all \in Seq(WatchEvent)
        BY <1>3
  <2> QED BY <1>4, <2>1, KeptProperty, SMTT(60)
<1> HIDE DEF B
<1>10. sel \in [1..Len(B) -> 1..n] /\ \A p \in 1..Len(B) : sel[p] \in T /\ sel[p] \in 1..n
      BY <1>3, <1>4, <1>9
<1>11. ASSUME NEW p \in 1..Len(B)
       PROVE  LET e == events[sel[p]] IN
              /\ sends(e) /\ B[p].type # "Bookmark" /\ B[p].key = e.key
              /\ B[p].value = Heir(e) /\ B[p].version = e.version
              /\ B[p].type = "Deleted" => B[p].value = 0
  <2>1. sends(events[sel[p]]) /\ B[p] = transition(events[sel[p]])
        BY <1>5, <1>6, <1>9, <1>10
  <2> DEFINE e == events[sel[p]]
  <2> HIDE DEF e
  <2>2. /\ transition(e).type # "Bookmark" /\ transition(e).key = e.key
        /\ transition(e).value = Heir(e) /\ transition(e).version = e.version
        /\ transition(e).type = "Deleted" => transition(e).value = 0
    <3>1. CASE matches(e.value)
          BY <3>1 DEF transition, Event, Heir
    <3>2. CASE ~matches(e.value)
          BY <3>2 DEF transition, Event, Heir
    <3> QED BY <3>1, <3>2
  <2> QED BY <2>1, <2>2 DEF e
<1>12. \A x \in 1..n : sends(events[x]) => \E p \in 1..Len(B) : sel[p] = x
      BY <1>6, <1>9
<1>13. Len(B) \in Nat
      BY <1>8, LenProperties
<1> QED BY <1>7, <1>8, <1>9, <1>10, <1>11, <1>12, <1>13 DEF n

\* A client is sent the news of every row whose selection changes, in the order
\* of the steps, then a bookmark or nothing.
LEMMA BroadcastProperty ==
    ASSUME NEW diff, Ready(diff), NEW bookmark \in BOOLEAN
    PROVE  LET r == broadcast(diff, bookmark)
               S == NewPart(diff) IN
           /\ r \in Seq(WatchEvent) /\ Len(r) \in Nat
           /\ \E t \in 0..Len(r), sel \in [1..Len(r) -> Nat] :
                 /\ \A i \in 1..t :
                       /\ sel[i] \in 1..Len(S) /\ sends(S[sel[i]].event)
                       /\ About(r[i], S[sel[i]].event.key)
                       /\ r[i].value = selected(diff.items)[r[i].key]
                       /\ r[i].version = S[sel[i]].event.version
                       /\ r[i].type = "Deleted" => r[i].value = 0
                 /\ \A i, j \in 1..t : i < j => sel[i] < sel[j]
                 /\ \A x \in 1..Len(S) : sends(S[x].event) => \E i \in 1..t : sel[i] = x
                 /\ \A i \in 1..Len(r) : i > t =>
                       r[i].type = "Bookmark" /\ r[i].version = currentVersion(applied(diff))
<1> DEFINE r == broadcast(diff, bookmark)
           S == NewPart(diff)
           events == [i \in DOMAIN S |-> S[i].event]
           T == transitions(events)
           b == Bookmark(currentVersion(applied(diff)), FALSE)
           M == IF bookmark THEN <<b>> ELSE <<>>
<1>1. /\ S \in Seq(Step) /\ Len(S) \in Nat /\ \A i \in 1..Len(S) : S[i] \in Step /\ NewStep(S[i], i, diff.items)
      BY AllProperty
<1>2. r = T \o M
      BY DEF broadcast, NewPart
<1>3. r \in Seq(WatchEvent)
      BY BroadcastType DEF Ready
<1> HIDE DEF S
<1>4. events \in Seq(CacheEvent) /\ Len(events) = Len(S) /\ \A i \in 1..Len(S) : events[i] = S[i].event
  <2>1. DOMAIN S = 1..Len(S)
        BY <1>1, LenProperties
  <2>2. events \in [1..Len(S) -> CacheEvent]
        BY <1>1, <2>1 DEF Step
  <2> QED BY <1>1, <2>1, <2>2
<1> HIDE DEF events
<1>5. T \in Seq(WatchEvent) /\ Len(T) \in Nat
      BY <1>4, TransitionsProperty
<1>6. PICK g \in [1..Len(T) -> 1..Len(events)] :
         /\ \A p \in 1..Len(T) :
               LET e == events[g[p]] IN
               /\ sends(e) /\ T[p].type # "Bookmark" /\ T[p].key = e.key
               /\ T[p].value = Heir(e) /\ T[p].version = e.version
               /\ T[p].type = "Deleted" => T[p].value = 0
         /\ \A p, x \in 1..Len(T) : p < x => g[p] < g[x]
         /\ \A x \in 1..Len(events) : sends(events[x]) => \E p \in 1..Len(T) : g[p] = x
      BY <1>4, TransitionsProperty
<1> HIDE DEF T, b, r
<1>7. /\ M \in Seq({b}) /\ Len(M) \in {0, 1} /\ \A i \in 1..Len(M) : M[i] = b
  <2>1. CASE bookmark
        BY <2>1
  <2>2. CASE ~bookmark
        BY <2>2
  <2> QED BY <2>1, <2>2
<1> HIDE DEF M
<1>8. /\ Len(r) = Len(T) + Len(M) /\ Len(r) \in Nat
      /\ \A i \in 1..Len(T) : r[i] = T[i]
      /\ \A i \in 1..Len(r) : i > Len(T) => r[i] = b
  <2>1. T \in Seq(WatchEvent \cup {b}) /\ M \in Seq(WatchEvent \cup {b})
        BY <1>5, <1>7
  <2>2. /\ Len(r) = Len(T) + Len(M)
        /\ \A i \in 1..(Len(T) + Len(M)) : r[i] = IF i <= Len(T) THEN T[i] ELSE M[i - Len(T)]
        BY <1>2, <2>1, ConcatProperties
  <2>3. Len(M) \in Nat
        BY <1>7
  <2>4. \A i \in 1..Len(T) : i \in 1..(Len(T) + Len(M)) /\ i <= Len(T)
        BY <1>5, <2>3
  <2>5. \A i \in 1..Len(r) : i > Len(T) => ~(i <= Len(T)) /\ i - Len(T) \in 1..Len(M)
        BY <1>5, <2>2, <2>3
  <2> QED BY <1>5, <1>7, <2>2, <2>3, <2>4, <2>5
<1> DEFINE sel == [i \in 1..Len(r) |-> IF i \in 1..Len(T) THEN g[i] ELSE 0]
<1>9. /\ Len(T) \in 0..Len(r) /\ \A i \in 1..Len(T) : i \in 1..Len(r)
      BY <1>5, <1>7, <1>8
<1>10. /\ sel \in [1..Len(r) -> Nat] /\ \A i \in 1..Len(T) : sel[i] = g[i] /\ g[i] \in 1..Len(S)
  <2>1. \A i \in 1..Len(T) : g[i] \in 1..Len(S)
        BY <1>4, <1>6
  <2>2. \A i \in 1..Len(T) : g[i] \in Nat
        BY <1>1, <2>1
  <2> QED BY <1>9, <2>1, <2>2
<1> HIDE DEF sel
<1>11. ASSUME NEW i \in 1..Len(T)
       PROVE  /\ sel[i] \in 1..Len(S) /\ sends(S[sel[i]].event)
              /\ About(r[i], S[sel[i]].event.key)
              /\ r[i].value = selected(diff.items)[r[i].key]
              /\ r[i].version = S[sel[i]].event.version
              /\ r[i].type = "Deleted" => r[i].value = 0
  <2> DEFINE e == S[sel[i]].event
  <2>1. sel[i] \in 1..Len(S) /\ events[g[i]] = e /\ r[i] = T[i]
        BY <1>4, <1>8, <1>10
  <2>2. /\ sends(e) /\ T[i].type # "Bookmark" /\ T[i].key = e.key
        /\ T[i].value = Heir(e) /\ T[i].version = e.version
        /\ T[i].type = "Deleted" => T[i].value = 0
        BY <1>6, <2>1
  <2>3. e.key \in Keys /\ e.value = diff.items[e.key]
        BY <1>1, <2>1 DEF NewStep
  <2> HIDE DEF e
  <2>4. Heir(e) = selected(diff.items)[e.key]
        BY <2>3 DEF Heir, selected
  <2> QED BY <2>1, <2>2, <2>4 DEF About, e
<1>12. \A i, j \in 1..Len(T) : i < j => sel[i] < sel[j]
      BY <1>6, <1>10
<1>13. \A x \in 1..Len(S) : sends(S[x].event) => \E i \in 1..Len(T) : sel[i] = x
      BY <1>4, <1>6, <1>10
<1>14. \A i \in 1..Len(r) : i > Len(T) =>
          r[i].type = "Bookmark" /\ r[i].version = currentVersion(applied(diff))
      BY <1>8 DEF b, Bookmark
<1>15. \E t \in 0..Len(r), f \in [1..Len(r) -> Nat] :
          /\ \A i \in 1..t :
                /\ f[i] \in 1..Len(S) /\ sends(S[f[i]].event)
                /\ About(r[i], S[f[i]].event.key)
                /\ r[i].value = selected(diff.items)[r[i].key]
                /\ r[i].version = S[f[i]].event.version
                /\ r[i].type = "Deleted" => r[i].value = 0
          /\ \A i, j \in 1..t : i < j => f[i] < f[j]
          /\ \A x \in 1..Len(S) : sends(S[x].event) => \E i \in 1..t : f[i] = x
          /\ \A i \in 1..Len(r) : i > t =>
                r[i].type = "Bookmark" /\ r[i].version = currentVersion(applied(diff))
      BY <1>9, <1>10, <1>11, <1>12, <1>13, <1>14, Zenon
<1> QED BY <1>3, <1>8, <1>15 DEF r, S

\* A client that streams follows the cache through a poll: at every event of it a
\* cut leaves a version from which the rest is owed.
LEMMA FollowsApplied ==
    ASSUME NEW diff, Ready(diff), NEW bookmark \in BOOLEAN, NEW u \in Client, Follows(cache, u)
    PROVE  Follows(applied(diff), [u EXCEPT !.queue = u.queue \o broadcast(diff, bookmark)])
<1> DEFINE d == applied(diff)
           r == broadcast(diff, bookmark)
           q == u.queue
           m == Len(q)
           S == NewPart(diff)
           w == [u EXCEPT !.queue = q \o r]
           V == View(u.store, q, m)
<1>1. r \in Seq(WatchEvent) /\ Len(r) \in Nat
      BY BroadcastProperty
<1>2. PICK t \in 0..Len(r), sel \in [1..Len(r) -> Nat] :
         /\ \A i \in 1..t :
               /\ sel[i] \in 1..Len(S) /\ sends(S[sel[i]].event)
               /\ About(r[i], S[sel[i]].event.key)
               /\ r[i].value = selected(diff.items)[r[i].key]
               /\ r[i].version = S[sel[i]].event.version
               /\ r[i].type = "Deleted" => r[i].value = 0
         /\ \A i, j \in 1..t : i < j => sel[i] < sel[j]
         /\ \A x \in 1..Len(S) : sends(S[x].event) => \E i \in 1..t : sel[i] = x
         /\ \A i \in 1..Len(r) : i > t => r[i].type = "Bookmark" /\ r[i].version = currentVersion(d)
      BY BroadcastProperty
<1>3. /\ d.items = diff.items /\ d.highestVersion = markReached
      /\ d.highestVersion \in Nat /\ d.version \in Nat
      /\ ~Versioned => d.highestVersion = 0 /\ d.version = cache.version + Len(S)
      /\ currentVersion(cache) \in Nat /\ currentVersion(d) \in Nat /\ currentVersion(cache) <= currentVersion(d)
      BY AppliedFacts
<1>4. q \in Seq(WatchEvent) /\ m \in Nat /\ u.at \in Nat /\ u.store \in Rows
      BY LenProperties DEF Client
<1> HIDE DEF r
<1>5. /\ w.queue = q \o r /\ w.store = u.store /\ w.at = u.at /\ w.pc = u.pc
      /\ Len(w.queue) = m + Len(r)
      /\ \A i \in 1..m : w.queue[i] = q[i]
      /\ \A i \in 1..Len(r) : w.queue[m + i] = r[i]
  <2>1. w.queue = q \o r /\ w.store = u.store /\ w.at = u.at /\ w.pc = u.pc
        BY DEF Client
  <2>2. /\ Len(q \o r) = m + Len(r)
        /\ \A i \in 1..(m + Len(r)) : (q \o r)[i] = IF i <= m THEN q[i] ELSE r[i - m]
        BY <1>1, <1>4, ConcatProperties
  <2>3. \A i \in 1..m : i \in 1..(m + Len(r)) /\ i <= m
        BY <1>1, <1>4
  <2>4. \A i \in 1..Len(r) : m + i \in 1..(m + Len(r)) /\ ~(m + i <= m) /\ (m + i) - m = i
        BY <1>1, <1>4
  <2> HIDE DEF w, m, q
  <2>5. \A i \in 1..m : (q \o r)[i] = q[i]
        BY <2>2, <2>3
  <2>6. ASSUME NEW i \in 1..Len(r) PROVE (q \o r)[m + i] = r[i]
    <3>1. (q \o r)[m + i] = r[(m + i) - m]
          BY <2>2, <2>4, Zenon
    <3>2. (m + i) - m = i
          BY <2>4
    <3> QED BY <3>1, <3>2, Zenon
  <2> QED BY <2>1, <2>2, <2>5, <2>6, Zenon
<1>6. /\ \A i \in 1..m : q[i].type = "Deleted" => q[i].value = 0
      /\ \A k \in Keys : Agrees(cache, k, V[k])
      /\ \A n \in 0..m : Synced(u, n) => VersionAt(u, n) <= currentVersion(cache) /\ Caught(cache, View(u.store, q, n), VersionAt(u, n))
      BY DEF Follows
<1>7. /\ cache.version \in Nat /\ markReached \in Nat
      /\ Len(S) \in Nat /\ Len(cache.history) \in Nat /\ Len(All(diff)) = Len(cache.history) + Len(S)
      /\ \A i \in 1..Len(S) : S[i] \in Step /\ NewStep(S[i], i, diff.items) /\ All(diff)[Len(cache.history) + i] = S[i]
      /\ Versioned => \A i, j \in 1..Len(S) :
            i < j /\ S[i].version = S[j].version /\ Settles(S[i]) => S[j].event.type = "Deleted"
  <2>1. cache.version \in Nat /\ markReached \in Nat
        BY TypedFacts, MarkProperty DEF Ready
  <2> QED BY <2>1, AllProperty
<1> HIDE DEF d, q, m, S, w, V
\* What is held of a row at a place among the new events.
<1>8. ASSUME NEW p \in 0..Len(r), NEW k \in Keys
      PROVE  \/ /\ \A i \in 1..p : ~About(r[i], k)
                /\ View(w.store, w.queue, m + p)[k] = V[k]
             \/ Agrees(d, k, View(w.store, w.queue, m + p)[k])
  <2>1. \/ /\ \A i \in 1..p : ~About(r[i], k)
           /\ View(u.store, q \o r, m + p)[k] = V[k]
        \/ \E i \in 1..p : /\ About(r[i], k)
                           /\ \A j \in 1..p : j > i => ~About(r[j], k)
                           /\ View(u.store, q \o r, m + p)[k] = r[i].value
    <3>1. q \in Seq(WatchEvent) /\ r \in Seq(WatchEvent)
          BY <1>1, <1>4
    <3> QED BY <3>1, ViewConcat, SMTT(60) DEF m, V
  <2>2. ASSUME NEW i \in 1..p, About(r[i], k) PROVE r[i].value = selected(d.items)[k]
    <3>1. i \in 1..Len(r) /\ r[i].type # "Bookmark" /\ r[i].key = k
          BY <1>1, <2>2 DEF About
    <3>2. i \in 1..t
          BY <1>1, <1>2, <3>1
    <3> QED BY <1>2, <1>3, <3>1, <3>2
  <2> QED BY <1>5, <2>1, <2>2 DEF Agrees
\* A row no sent event of the poll is about.
<1>9. ASSUME NEW k \in Keys, \A x \in 1..Len(S) : S[x].event.key = k => ~sends(S[x].event)
      PROVE  Agrees(d, k, V[k])
      BY <1>6, <1>9, AgreesStays DEF S, d
\* Once all the events of the poll are taken.
<1>10. ASSUME NEW p \in t..Len(r), NEW k \in Keys
       PROVE  Agrees(d, k, View(w.store, w.queue, m + p)[k])
  <2>1. p \in 0..Len(r) /\ \A i \in 1..t : i \in 1..p
        BY <1>1, <1>2
  <2>2. CASE \A i \in 1..p : ~About(r[i], k)
    <3>1. ASSUME NEW x \in 1..Len(S), S[x].event.key = k, sends(S[x].event) PROVE FALSE
      <4>1. PICK i \in 1..t : sel[i] = x
            BY <1>2, <3>1
      <4>2. About(r[i], k)
            BY <1>2, <3>1, <4>1
      <4> QED BY <2>1, <2>2, <4>1, <4>2
    <3>2. Agrees(d, k, V[k])
          BY <1>9, <3>1
    <3> QED BY <1>8, <2>1, <3>2
  <2>3. CASE ~(\A i \in 1..p : ~About(r[i], k))
        BY <1>8, <2>1, <2>3
  <2> QED BY <2>2, <2>3
<1>11. ASSUME NEW n \in 0..m, Synced(w, n)
       PROVE  VersionAt(w, n) <= currentVersion(d) /\ Caught(d, View(w.store, w.queue, n), VersionAt(w, n))
  <2>1. \A i \in 1..n : i \in 1..m /\ w.queue[i] = q[i]
        BY <1>4, <1>5
  <2>2. Synced(u, n)
        BY <1>5, <1>11, <2>1 DEF Synced, q
  <2>3. VersionAt(w, n) = VersionAt(u, n) /\ VersionAt(u, n) \in Nat
    <3>1. CASE n = 0
          BY <1>4, <1>5, <3>1 DEF VersionAt
    <3>2. CASE n # 0
      <4>1. n \in 1..m /\ n \in 1..n
            BY <1>4, <3>2
      <4>2. q[n] \in WatchEvent
            BY <1>4, <4>1, ElementOfSeq DEF m
      <4> QED BY <2>1, <3>2, <4>1, <4>2 DEF VersionAt, WatchEvent, q
    <3> QED BY <3>1, <3>2
  <2>4. View(w.store, w.queue, n) = View(u.store, q, n)
    <3>1. n \in Nat /\ \A i \in 1..n : w.queue[i] = q[i]
          BY <1>4, <2>1
    <3>2. View(u.store, w.queue, n) = View(u.store, q, n)
          BY <3>1, ViewPrefix
    <3> QED BY <1>5, <3>2
  <2>5. VersionAt(u, n) <= currentVersion(cache) /\ Caught(cache, View(u.store, q, n), VersionAt(u, n))
        BY <1>6, <2>2
  <2>6. Caught(d, View(u.store, q, n), VersionAt(u, n))
        BY <2>3, <2>5, CaughtApplied DEF d
  <2> QED BY <1>3, <2>3, <2>4, <2>5, <2>6
<1>12. ASSUME NEW p \in 1..Len(r)
       PROVE  VersionAt(w, m + p) <= currentVersion(d) /\ Caught(d, View(w.store, w.queue, m + p), VersionAt(w, m + p))
  <2>1. VersionAt(w, m + p) = r[p].version
    <3>1. m + p # 0
          BY <1>1, <1>4
    <3> QED BY <1>5, <3>1 DEF VersionAt
  <2>2. CASE p > t
    <3>1. r[p].version = currentVersion(d) /\ p \in t..Len(r)
          BY <1>1, <1>2, <2>2
    <3> QED BY <1>3, <1>10, <2>1, <3>1 DEF Caught
  <2>3. CASE p <= t
    <3> DEFINE y == sel[p]
               v == S[y].event.version
    <3>1. p \in 1..t /\ p \in 0..Len(r)
          BY <1>1, <1>2, <2>3
    <3>2. y \in 1..Len(S) /\ VersionAt(w, m + p) = v
          BY <1>2, <2>1, <3>1
    <3>3. S[y] \in Step /\ NewStep(S[y], y, diff.items)
          BY <1>7, <3>2
    <3>4. v \in Nat /\ S[y].version \in Nat /\ v <= S[y].version /\ y \in Nat
          BY <1>7, <3>2, <3>3 DEF Step, CacheEvent, NewStep
    <3>5. S[y].version <= currentVersion(d)
      <4>1. CASE Versioned
        <5>1. S[y].version = markReached /\ markReached > 0
              BY <3>3, <4>1 DEF NewStep
        <5> QED BY <1>3, <5>1 DEF currentVersion
      <4>2. CASE ~Versioned
        <5>1. S[y].version = cache.version + y
              BY <3>3, <4>2 DEF NewStep
        <5>2. currentVersion(d) = cache.version + Len(S)
              BY <1>3, <4>2 DEF currentVersion
        <5>3. y <= Len(S)
              BY <1>7, <3>2
        <5> HIDE DEF y
        <5> QED BY <1>7, <3>4, <5>1, <5>2, <5>3
      <4> QED BY <4>1, <4>2
    <3> HIDE DEF y
    <3>6. ASSUME NEW x \in 1..Len(S), x > y PROVE Owes(S[x], v)
      <4>1. S[x] \in Step /\ NewStep(S[x], x, diff.items)
            BY <1>7
      <4>2. CASE ~Versioned
        <5>1. S[x].version = cache.version + x /\ v = cache.version + y
              BY <3>3, <4>1, <4>2 DEF NewStep
        <5> HIDE DEF v
        <5> QED BY <1>7, <3>4, <3>6, <5>1 DEF Owes
      <4>3. CASE Versioned
        <5>1. S[x].version = markReached /\ S[x].from = markReached /\ S[y].version = markReached
              BY <3>3, <4>1, <4>3 DEF NewStep
        <5>2. v = markReached => S[x].event.type = "Deleted"
              BY <1>7, <3>2, <3>3, <3>4, <3>6, <4>3, <5>1 DEF Settles
        <5> HIDE DEF v
        <5> QED BY <1>7, <3>4, <5>1, <5>2 DEF Owes, Stalled
      <4> QED BY <4>2, <4>3
    <3> HIDE DEF v
    <3>7. Caught(d, View(w.store, w.queue, m + p), v)
      <4> SUFFICES ASSUME Replayable(d, v), NEW k \in Keys, ~Pending(d, v, k)
                   PROVE  Agrees(d, k, View(w.store, w.queue, m + p)[k])
          BY DEF Caught
      <4>1. CASE \A i \in 1..p : ~About(r[i], k)
        <5>1. ASSUME NEW x \in 1..Len(S), S[x].event.key = k, sends(S[x].event) PROVE FALSE
          <6>1. PICK i \in 1..t : sel[i] = x
                BY <1>2, <5>1
          <6>2. About(r[i], k)
                BY <1>2, <5>1, <6>1
          <6>3. i > p
                BY <1>1, <1>2, <4>1, <6>1, <6>2
          <6>4. x > y
                BY <1>2, <3>1, <6>1, <6>3 DEF y
          <6>5. Owes(S[x], v)
                BY <3>6, <6>4
          <6> DEFINE z == Len(cache.history) + x
          <6>6. z \in 1..Len(All(diff)) /\ All(diff)[z] = S[x]
            <7>1. /\ Len(S) \in Nat /\ Len(cache.history) \in Nat
                  /\ Len(All(diff)) = Len(cache.history) + Len(S)
                  BY <1>7
            <7>2. z \in 1..Len(All(diff))
                  BY <7>1
            <7> QED BY <1>7, <7>2
          <6> HIDE DEF z
          <6>7. Pending(d, v, All(diff)[z].event.key)
                BY <3>4, <5>1, <6>5, <6>6, OwedPending DEF d
          <6> QED BY <5>1, <6>6, <6>7
        <5>2. Agrees(d, k, V[k])
              BY <1>9, <5>1
        <5> QED BY <1>8, <3>1, <5>2
      <4>2. CASE ~(\A i \in 1..p : ~About(r[i], k))
            BY <1>8, <3>1, <4>2
      <4> QED BY <4>1, <4>2
    <3>8. VersionAt(w, m + p) = v /\ v <= currentVersion(d)
          BY <1>3, <3>2, <3>4, <3>5 DEF v
    <3> QED BY <3>7, <3>8
  <2> QED BY <1>1, <1>2, <2>2, <2>3
<1>13. ASSUME NEW n \in 0..Len(w.queue), Synced(w, n)
       PROVE  VersionAt(w, n) <= currentVersion(d) /\ Caught(d, View(w.store, w.queue, n), VersionAt(w, n))
  <2>1. CASE n <= m
    <3>1. n \in 0..m
          BY <1>4, <2>1
    <3> QED BY <1>11, <1>13, <3>1
  <2>2. CASE n > m
    <3>1. n - m \in 1..Len(r) /\ m + (n - m) = n
          BY <1>1, <1>4, <1>5, <2>2
    <3> QED BY <1>12, <3>1
  <2> QED BY <1>4, <2>1, <2>2
<1>14. ASSUME NEW i \in 1..Len(w.queue), w.queue[i].type = "Deleted" PROVE w.queue[i].value = 0
  <2>1. CASE i \in 1..m
        BY <1>5, <1>6, <1>14, <2>1
  <2>2. CASE i \notin 1..m
    <3> DEFINE j == i - m
    <3>1. j \in 1..Len(r) /\ m + j = i
          BY <1>1, <1>4, <1>5, <2>2
    <3> HIDE DEF j
    <3>2. r[j].type = "Deleted" /\ w.queue[i] = r[j]
          BY <1>5, <1>14, <3>1
    <3>3. j \in 1..t
          BY <1>1, <1>2, <3>1, <3>2
    <3> QED BY <1>2, <3>2, <3>3
  <2> QED BY <2>1, <2>2
<1>15. ASSUME NEW k \in Keys PROVE Agrees(d, k, View(w.store, w.queue, Len(w.queue))[k])
  <2>1. Len(r) \in t..Len(r)
        BY <1>1, <1>2
  <2> QED BY <1>5, <1>10, <2>1
<1>16. Follows(d, w)
      BY <1>13, <1>14, <1>15 DEF Follows
<1> QED BY <1>16 DEF d, w, q, r

-----------------------------------------------------------------------------
(* The same of the next state. *)

LEMMA SameMatches ==
    ASSUME UNCHANGED config, NEW v
    PROVE  matches(v)' <=> matches(v)
BY DEF matches

LEMMA SameSends ==
    ASSUME UNCHANGED config, NEW e
    PROVE  sends(e)' <=> sends(e)
BY DEF sends, mayHaveHeld, matchedBefore, matches

LEMMA SameSelected ==
    ASSUME UNCHANGED config, NEW items, NEW k \in Keys
    PROVE  selected(items)'[k] = selected(items)[k]
<1>1. /\ selected(items)'[k] = IF matches(items[k])' THEN items[k] ELSE 0
      /\ selected(items)[k] = IF matches(items[k]) THEN items[k] ELSE 0
      BY DEF selected
<1>2. matches(items[k])' <=> matches(items[k])
      BY SameMatches
<1> QED BY <1>1, <1>2

LEMMA SameRing ==
    ASSUME UNCHANGED config, NEW H \in Seq(Step), NEW c, NEW items, Ordered(H, c), Tells(H, items)
    PROVE  Ordered(H, c)' /\ Tells(H, items)'
<1>1. Ordered(H, c)'
      BY DEF Ordered, Versioned
<1>2. \A i \in 1..Len(H) : H[i].event.key \in Keys
  <2>1. \A i \in 1..Len(H) : H[i] \in Step
        BY ElementOfSeq
  <2> QED BY <2>1 DEF Step, CacheEvent
<1>3. \A i \in 1..Len(H) : sends(H[i].event)' <=> sends(H[i].event)
      BY SameSends
<1>4. \A i \in 1..Len(H) : Heir(H[i].event)' = Heir(H[i].event)
      BY SameMatches DEF Heir
<1>5. \A i \in 1..Len(H) : selected(items)'[H[i].event.key] = selected(items)[H[i].event.key]
      BY <1>2, SameSelected
<1>6. Tells(H, items)'
      BY <1>3, <1>4, <1>5 DEF Tells
<1> QED BY <1>1, <1>6

\* A row a client read ahead of the cache is still ahead of it when it is written
\* again or deleted.
LEMMA SameAgrees ==
    ASSUME UNCHANGED config, NEW c, NEW k \in Keys, NEW x,
           rows'[k] = rows[k] \/ rows'[k] = 0 \/ rows'[k] # c.items[k],
           Agrees(c, k, x)
    PROVE  Agrees(c, k, x)'
<1>1. selected(c.items)'[k] = selected(c.items)[k]
      BY SameSelected
<1>2. matches(c.items[k])' <=> matches(c.items[k])
      BY SameMatches
<1>3. matches(c.items[k]) => c.items[k] # 0
      BY DEF matches
<1> QED BY <1>1, <1>2, <1>3 DEF Agrees

LEMMA SameCaught ==
    ASSUME UNCHANGED config, NEW c, NEW store, NEW at,
           \A k \in Keys : rows'[k] = rows[k] \/ rows'[k] = 0 \/ rows'[k] # c.items[k],
           Caught(c, store, at)
    PROVE  Caught(c, store, at)'
<1>1. Replayable(c, at)' <=> Replayable(c, at)
      BY DEF Replayable, currentVersion
<1>2. ASSUME NEW k \in Keys PROVE Pending(c, at, k)' <=> Pending(c, at, k)
      BY SameSends DEF Pending, Owes, Stalled
<1>3. ASSUME NEW k \in Keys, Agrees(c, k, store[k]) PROVE Agrees(c, k, store[k])'
      BY <1>3, SameAgrees
<1> QED BY <1>1, <1>2, <1>3 DEF Caught

LEMMA SameClient ==
    ASSUME UNCHANGED config, NEW c, NEW u,
           \A k \in Keys : rows'[k] = rows[k] \/ rows'[k] = 0 \/ rows'[k] # c.items[k],
           ClientOK(c, u)
    PROVE  ClientOK(c, u)'
<1>1. currentVersion(c)' = currentVersion(c)
      BY DEF currentVersion
<1>2. ASSUME NEW v, Follows(c, v) PROVE Follows(c, v)'
  <2>1. ASSUME NEW k \in Keys PROVE Agrees(c, k, View(v.store, v.queue, Len(v.queue))[k])'
    <3>1. Agrees(c, k, View(v.store, v.queue, Len(v.queue))[k])
          BY <1>2 DEF Follows
    <3> QED BY <3>1, SameAgrees
  <2>2. ASSUME NEW n \in 0..Len(v.queue), Synced(v, n)
        PROVE  /\ VersionAt(v, n) <= currentVersion(c)
               /\ Caught(c, View(v.store, v.queue, n), VersionAt(v, n))'
    <3>1. /\ VersionAt(v, n) <= currentVersion(c)
          /\ Caught(c, View(v.store, v.queue, n), VersionAt(v, n))
          BY <1>2, <2>2 DEF Follows
    <3> QED BY <3>1, SameCaught
  <2> QED BY <1>1, <1>2, <2>1, <2>2 DEF Follows
<1>3. ASSUME Caught(c, u.store, u.at) PROVE Caught(c, u.store, u.at)'
      BY <1>3, SameCaught
<1>4. ASSUME Follows(c, Admitted(u)) PROVE Follows(c, Admitted(u))'
  <2>1. PICK v : v = Admitted(u)
        OBVIOUS
  <2>2. Follows(c, v)'
        BY <1>2, <1>4, <2>1
  <2> QED BY <2>1, <2>2 DEF Admitted
<1> QED BY <1>1, <1>2, <1>3, <1>4 DEF ClientOK

LEMMA RingStays ==
    ASSUME TypeOK, RingOK, UNCHANGED <<config, cache>>,
           \A k \in Keys : rows'[k] = rows[k] \/ rows'[k] = 0 \/ rows'[k] # cache.items[k],
           \A c \in Clients : ClientOK(cache, client'[c])
    PROVE  RingOK'
<1>1. PICK d, H, items : d = cache /\ H = cache.history /\ items = cache.items
      OBVIOUS
<1>2. H \in Seq(Step)
      BY <1>1 DEF TypeOK, Cache
<1>3. Ordered(H, d)' /\ Tells(H, items)'
      BY <1>1, <1>2, SameRing DEF RingOK
<1>4. ASSUME NEW c \in Clients PROVE ClientOK(cache, client[c])'
  <2>1. PICK u : u = client'[c]
        OBVIOUS
  <2>2. ClientOK(d, u)
        BY <1>1, <2>1
  <2>3. ClientOK(d, u)'
        BY <1>1, <2>2, SameClient
  <2> QED BY <1>1, <2>1, <2>3
<1> QED BY <1>1, <1>3, <1>4 DEF RingOK

LEMMA ClientApplied ==
    ASSUME NEW diff, Ready(diff), NEW bookmark \in BOOLEAN, NEW u \in Client, ClientOK(cache, u)
    PROVE  ClientOK(applied(diff), IF u.pc \in Streaming
                                   THEN [u EXCEPT !.queue = u.queue \o broadcast(diff, bookmark)]
                                   ELSE u)
<1> DEFINE d == applied(diff)
           w == [u EXCEPT !.queue = u.queue \o broadcast(diff, bookmark)]
<1>1. w.pc = u.pc /\ w.at = u.at /\ u.at \in Nat
      BY DEF Client
<1>2. /\ currentVersion(cache) \in Nat /\ currentVersion(d) \in Nat /\ currentVersion(cache) <= currentVersion(d)
      BY AppliedFacts
<1>3. CASE u.pc \in Streaming
  <2>1. u.pc \in Served \cup Prepending /\ (u.pc \in Served => u.pc \notin Prepending)
        BY <1>3 DEF ClientOK, Streaming, Served, Prepending
  <2>2. ~u.overtaken /\ u.pc \in Served => Follows(d, w)
        BY FollowsApplied DEF ClientOK
  <2>3. ASSUME ~u.overtaken, u.pc \in Prepending PROVE Follows(d, Admitted(w))
    <3> DEFINE r == broadcast(diff, bookmark)
               a == Admitted(u)
    <3>1. Follows(cache, a) /\ a \in Client /\ a.queue = u.initial \o u.queue
          BY <2>3, AdmittedFields DEF ClientOK
    <3>2. Follows(d, [a EXCEPT !.queue = a.queue \o r])
          BY <3>1, FollowsApplied
    <3>3. r \in Seq(WatchEvent) /\ u.initial \in Seq(WatchEvent) /\ u.queue \in Seq(WatchEvent)
          BY BroadcastProperty DEF Client
    <3>4. [a EXCEPT !.queue = u.initial \o (u.queue \o r)] = Admitted(w)
          BY DEF Admitted, Client
    <3> HIDE DEF r, a
    <3>5. (u.initial \o u.queue) \o r = u.initial \o (u.queue \o r)
          BY <3>3, JoinQueues
    <3>6. a.queue \o r = u.initial \o (u.queue \o r)
          BY <3>1, <3>5
    <3> QED BY <3>2, <3>4, <3>6
  <2>4. w.overtaken = u.overtaken
        BY DEF Client
  <2> HIDE DEF d, w
  <2>5. ClientOK(d, w)
        BY <1>1, <2>1, <2>2, <2>3, <2>4 DEF ClientOK, Served, Prepending
  <2> QED BY <1>3, <2>5 DEF d, w
<1>4. CASE u.pc \notin Streaming
  <2>1. ASSUME u.pc = "offline", ~u.overtaken PROVE Caught(d, u.store, u.at)
    <3>1. u.at <= currentVersion(cache) /\ Caught(cache, u.store, u.at)
          BY <2>1 DEF ClientOK
    <3> QED BY <1>1, <3>1, CaughtApplied
  <2> HIDE DEF d, w
  <2>2. ClientOK(d, u)
        BY <1>1, <1>2, <1>4, <2>1 DEF ClientOK, Streaming, Served, Prepending
  <2> QED BY <1>4, <2>2 DEF d, w
<1> QED BY <1>3, <1>4

LEMMA PollAppliesRing ==
    ASSUME TypeOK, MarkInv, DistinctInv, RingSuffices, RingOK, PollApplies
    PROVE  RingOK'
<1>1. PICK diff \in Diffs, bookmark \in BOOLEAN :
           /\ cache' = applied(diff)
           /\ client' = [c \in Clients |->
                 IF client[c].pc \in Streaming
                 THEN [client[c] EXCEPT !.queue = client[c].queue \o broadcast(diff, bookmark)]
                 ELSE client[c]]
      BY PollAppliesDiff
<1>2. poll.pc = "apply" /\ UNCHANGED <<config, rows>>
      BY PollAppliesDiff
<1>3. Ready(diff)
      BY <1>2 DEF Ready
<1>4. PICK d, H, items : d = applied(diff) /\ H = d.history /\ items = d.items
      OBVIOUS
<1>5. /\ d \in Cache /\ items = diff.items /\ d.version \in Nat /\ H \in Seq(Step)
      BY <1>3, <1>4, AppliedFacts
<1>6. Ordered(H, d) /\ Tells(H, items)
  <2> DEFINE all == All(diff)
  <2>1. all \in Seq(Step) /\ Ordered(all, d) /\ Tells(all, items)
        BY <1>3, <1>4, <1>5, AllProperty, AllOrdered, AllTells
  <2>2. PICK drop \in 0..Len(all) : Shortened(all, drop, d)
        BY <1>3, <1>4, AllShortened
  <2> HIDE DEF all
  <2> QED BY <1>4, <1>5, <2>1, <2>2, ShortenedOrdered, ShortenedTells
<1>7. ~d.lightweight
  <2>1. d.lightweight = lightenLocked
        BY <1>4, AppliedFields
  <2>2. ~Described /\ ~cache.lightweight
        BY DEF RingSuffices, RingOK, Described
  <2> QED BY <2>1, <2>2 DEF lightenLocked
<1>8. Ordered(H, d)' /\ Tells(H, items)'
      BY <1>2, <1>5, <1>6, SameRing
<1>9. ASSUME NEW c \in Clients PROVE ClientOK(cache, client[c])'
  <2>1. client[c] \in Client /\ ClientOK(cache, client[c])
        BY ClientFacts DEF RingOK
  <2>2. PICK u : u = client[c]
        OBVIOUS
  <2>3. PICK w : w = IF u.pc \in Streaming
                     THEN [u EXCEPT !.queue = u.queue \o broadcast(diff, bookmark)] ELSE u
        OBVIOUS
  <2>4. ClientOK(d, w)
        BY <1>3, <1>4, <2>1, <2>2, <2>3, ClientApplied
  <2>5. w = client'[c]
        BY <1>1, <2>2, <2>3
  <2>6. ClientOK(d, w)'
        BY <1>2, <2>4, SameClient
  <2> QED BY <1>1, <1>4, <2>5, <2>6
<1> QED BY <1>1, <1>4, <1>7, <1>8, <1>9 DEF RingOK

\* A client that starts is sent every row it selects, as the cache holds it, then
\* the bookmark.
LEMMA InitialEventsProperty ==
    ASSUME NEW items \in Rows, NEW version \in Nat
    PROVE  LET q == initialEvents(items, version) IN
           /\ q \in Seq(WatchEvent) /\ Len(q) \in Nat /\ Len(q) > 0
           /\ EndsInitial(q[Len(q)]) /\ q[Len(q)].version = version
           /\ \A i \in 1..Len(q) : i # Len(q) =>
                 /\ q[i].type = "Added" /\ q[i].key \in Keys
                 /\ matches(items[q[i].key]) /\ q[i].value = items[q[i].key]
           /\ \A k \in Keys : matches(items[k]) => \E i \in 1..Len(q) : i # Len(q) /\ q[i].key = k
<1> DEFINE S == {k \in Keys : matches(items[k])}
           order == CHOOSE s \in orderings(S) : TRUE
           adds == [i \in DOMAIN order |->
                       Event("Added", order[i], items[order[i]], stamp(items[order[i]]))]
           b == Bookmark(version, TRUE)
           q == Append(adds, b)
           n == Len(order)
<1>1. IsFiniteSet(S)
      BY KeysAssumption, FS_Subset
<1>2. order \in orderings(S)
  <2>1. orderings(S) # {}
        BY <1>1, OrderingsProperty
  <2> QED BY <2>1, Zenon
<1>3. /\ n \in Nat /\ DOMAIN order = 1..n /\ \A i \in 1..n : order[i] \in S
      /\ \A k \in S : \E i \in 1..n : order[i] = k
  <2> HIDE DEF order, S
  <2> QED BY <1>1, <1>2, OrderingsProperty
<1>4. q = initialEvents(items, version)
      BY DEF initialEvents
<1> HIDE DEF order
<1>5. ASSUME NEW i \in 1..n
      PROVE  /\ adds[i] \in WatchEvent /\ adds[i].type = "Added" /\ adds[i].key = order[i]
             /\ adds[i].value = items[order[i]]
  <2>1. order[i] \in Keys /\ items[order[i]] \in Nat
        BY <1>3 DEF Rows
  <2>2. adds[i] = Event("Added", order[i], items[order[i]], stamp(items[order[i]]))
        BY <1>3
  <2> QED BY <2>1, <2>2 DEF Event, stamp, WatchEvent, ChangeTypes
<1>6. adds \in Seq(WatchEvent) /\ Len(adds) = n
  <2>1. adds \in [1..n -> WatchEvent]
        BY <1>3, <1>5
  <2> QED BY <1>3, <2>1
<1>7. b \in WatchEvent /\ EndsInitial(b) /\ b.version = version
      BY DEF WatchEvent, Bookmark, EndsInitial
<1> HIDE DEF adds, b, n
<1>8. /\ q \in Seq(WatchEvent) /\ Len(q) = n + 1 /\ q[n + 1] = b
      /\ \A i \in 1..n : q[i] = adds[i]
      BY <1>3, <1>6, <1>7, AppendProperties
<1> HIDE DEF q
<1>9. ASSUME NEW i \in 1..Len(q), i # Len(q)
      PROVE  /\ q[i].type = "Added" /\ q[i].key \in Keys
             /\ matches(items[q[i].key]) /\ q[i].value = items[q[i].key]
  <2>1. i \in 1..n
        BY <1>3, <1>8, <1>9
  <2>2. order[i] \in Keys /\ matches(items[order[i]])
        BY <1>3, <2>1
  <2> QED BY <1>5, <1>8, <2>1, <2>2
<1>10. ASSUME NEW k \in Keys, matches(items[k])
       PROVE  \E i \in 1..Len(q) : i # Len(q) /\ q[i].key = k
  <2>1. PICK i \in 1..n : order[i] = k
        BY <1>3, <1>10
  <2>2. i \in 1..Len(q) /\ i # Len(q)
        BY <1>3, <1>8
  <2> QED BY <1>5, <1>8, <2>1, <2>2
<1>11. Len(q) \in Nat /\ Len(q) > 0 /\ q[Len(q)] = b
      BY <1>3, <1>8
<1> QED BY <1>4, <1>7, <1>8, <1>9, <1>10, <1>11

\* A client that starts from the cache follows it; it has no version to resume
\* from before the bookmark.
LEMMA InitialClient ==
    ASSUME TypeOK, NEW w, w.pc = "syncing", w.at = 0, w.store = NoRows,
           w.queue = initialEvents(cache.items, currentVersion(cache))
    PROVE  Follows(cache, w)
<1> DEFINE q == initialEvents(cache.items, currentVersion(cache))
           n == Len(q)
           items == cache.items
<1>1. items \in Rows /\ currentVersion(cache) \in Nat
      BY TypedFacts, CurrentVersionType DEF TypeOK
<1>2. /\ q \in Seq(WatchEvent) /\ n \in Nat /\ n > 0
      /\ q[n].type = "Bookmark" /\ q[n].version = currentVersion(cache)
      /\ \A i \in 1..n : i # n =>
            /\ q[i].type = "Added" /\ q[i].key \in Keys
            /\ matches(items[q[i].key]) /\ q[i].value = items[q[i].key]
      /\ \A k \in Keys : matches(items[k]) => \E i \in 1..n : i # n /\ q[i].key = k
      BY <1>1, InitialEventsProperty DEF EndsInitial
<1>3. w.queue = q
      OBVIOUS
<1> HIDE DEF q, n
<1>4. ASSUME NEW k \in Keys PROVE View(w.store, q, n)[k] = selected(items)[k]
  <2>1. selected(items)[k] = IF matches(items[k]) THEN items[k] ELSE 0
        BY DEF selected
  <2>2. CASE /\ \A i \in 1..n : ~About(q[i], k)
             /\ View(w.store, q, n)[k] = w.store[k]
    <3>1. ~matches(items[k])
          BY <1>2, <2>2 DEF About
    <3>2. w.store[k] = 0
          BY DEF NoRows
    <3> QED BY <2>1, <2>2, <3>1, <3>2
  <2>3. CASE \E i \in 1..n : About(q[i], k) /\ View(w.store, q, n)[k] = q[i].value
    <3>1. PICK i \in 1..n : About(q[i], k) /\ View(w.store, q, n)[k] = q[i].value
          BY <2>3
    <3>2. i # n /\ q[i].key = k
          BY <1>2, <3>1 DEF About
    <3> QED BY <1>2, <2>1, <3>1, <3>2
  <2> QED BY <1>2, <2>2, <2>3, ViewProperty
<1>5. ASSUME NEW m \in 0..n, Synced(w, m)
      PROVE  /\ VersionAt(w, m) <= currentVersion(cache)
             /\ Caught(cache, View(w.store, q, m), VersionAt(w, m))
  <2>1. PICK j \in 1..m : q[j].type = "Bookmark"
        BY <1>3, <1>5 DEF Synced, EndsInitial
  <2>2. j = n
        BY <1>2, <2>1
  <2>3. m = n
        BY <1>2, <2>1, <2>2
  <2>4. VersionAt(w, m) = currentVersion(cache)
        BY <1>2, <1>3, <2>3 DEF VersionAt
  <2>5. \A k \in Keys : Agrees(cache, k, View(w.store, q, n)[k])
        BY <1>4 DEF Agrees
  <2>6. Caught(cache, View(w.store, q, m), VersionAt(w, m))
        BY <2>3, <2>5 DEF Caught
  <2> QED BY <1>1, <2>4, <2>6
<1>6. \A k \in Keys : Agrees(cache, k, View(w.store, q, n)[k])
      BY <1>4 DEF Agrees
<1>7. \A i \in 1..n : q[i].type # "Deleted"
      BY <1>2
<1> QED BY <1>3, <1>5, <1>6, <1>7 DEF Follows, n

\* The steps of a ring in order: what is owed at a version is a suffix, and what
\* follows a step is owed to a client that took that step and no more.
LEMMA OwedSuffix ==
    ASSUME NEW H \in Seq(Step), NEW c, c.version \in Nat, Ordered(H, c),
           NEW i \in 1..Len(H), NEW j \in 1..Len(H), i < j
    PROVE  /\ H[i].version <= H[j].version
           /\ Owes(H[j], H[i].event.version)
           /\ \A at \in Nat : Owes(H[i], at) => Owes(H[j], at)
<1>1. H[i] \in Step /\ H[j] \in Step /\ Len(H) \in Nat
      BY ElementOfSeq, LenProperties
<1>2. /\ H[i].version \in Nat /\ H[j].version \in Nat /\ H[i].event.version \in Nat
      BY <1>1 DEF Step, CacheEvent
<1>3. H[i].event.version <= H[i].version
      BY DEF Ordered
<1>4. CASE ~Versioned
  <2>1. /\ H[i].version = c.version - Len(H) + i /\ H[j].version = c.version - Len(H) + j
        /\ H[i].from = H[i].version - 1
        BY <1>4 DEF Ordered
  <2>2. H[i].version < H[j].version
        BY <1>1, <1>2, <2>1
  <2>3. ~Stalled(H[i])
        BY <1>2, <2>1 DEF Stalled
  <2> QED BY <1>2, <1>3, <2>2, <2>3 DEF Owes
<1>5. CASE Versioned
  <2>1. /\ H[i].version <= H[j].version /\ H[j].from = H[j].version
        /\ H[i].version = H[j].version /\ Settles(H[i]) => H[j].event.type = "Deleted"
        BY <1>5 DEF Ordered
  <2>2. H[i].version = H[j].version /\ Settles(H[i]) => Stalled(H[j])
        BY <2>1 DEF Stalled
  <2>3. Stalled(H[i]) \/ H[i].event.version = H[i].version => Settles(H[i])
        BY DEF Settles, Stalled
  <2> QED BY <1>2, <1>3, <2>1, <2>2, <2>3 DEF Owes
<1> QED BY <1>4, <1>5

\* missedSince and transition: a client that resumes is sent what the ring owes
\* it, in order.
LEMMA MissedProperty ==
    ASSUME TypeOK, Ordered(cache.history, cache), NEW at \in Nat
    PROVE  LET H == cache.history
               r == transitions(missedSince(at)) IN
           /\ r \in Seq(WatchEvent) /\ Len(r) \in Nat
           /\ \E sel \in [1..Len(r) -> 1..Len(H)] :
                 /\ \A i \in 1..Len(r) :
                       /\ Owes(H[sel[i]], at) /\ sends(H[sel[i]].event) /\ About(r[i], H[sel[i]].event.key)
                       /\ r[i].value = Heir(H[sel[i]].event)
                       /\ r[i].version = H[sel[i]].event.version
                       /\ r[i].type = "Deleted" => r[i].value = 0
                 /\ \A i, j \in 1..Len(r) : i < j => sel[i] < sel[j]
                 /\ \A x \in 1..Len(H) : sends(H[x].event) /\ Owes(H[x], at) =>
                       \E i \in 1..Len(r) : sel[i] = x
<1> DEFINE H == cache.history
           n == Len(H)
           past == {i \in DOMAIN H : movesForward(at, H[i].version)}
           start == IF past = {} THEN n + 1 ELSE Min(past)
           stalledDeletions == {i \in 1..(start - 1) :
                                /\ H[i].event.type = "Deleted"
                                /\ H[i].from = at
                                /\ H[i].version = at}
           all == [i \in DOMAIN H |-> H[i].event]
           S == stalledDeletions \cup (start..n)
           M == kept(all, S)
           r == transitions(M)
<1>1. H \in Seq(Step) /\ n \in Nat /\ DOMAIN H = 1..n /\ \A i \in 1..n : H[i] \in Step
      BY LenProperties DEF TypeOK, Cache
<1>2. all \in Seq(CacheEvent) /\ Len(all) = n /\ \A i \in 1..n : all[i] = H[i].event
  <2>1. all \in [1..n -> CacheEvent]
        BY <1>1 DEF Step
  <2> QED BY <1>1, <2>1
<1>3. M = missedSince(at)
      BY DEF missedSince
<1> HIDE DEF M, r
<1>4. \A i \in 1..n : i \in past <=> H[i].version > at
  <2>1. \A i \in 1..n : H[i].version \in Nat
        BY <1>1 DEF Step
  <2> QED BY <1>1, <2>1 DEF movesForward
<1>5. /\ start \in 1..(n + 1) /\ \A i \in 1..n : H[i].version > at => i >= start
      /\ start \in 1..n => H[start].version > at
  <2>1. past \subseteq 1..n /\ past \subseteq Nat
        BY <1>1
  <2> HIDE DEF past
  <2>2. CASE past = {}
    <3>1. start = n + 1
          BY <2>2
    <3> QED BY <1>1, <1>4, <2>2, <3>1
  <2>3. CASE past # {}
    <3>1. Min(past) \in past /\ \A i \in past : Min(past) <= i
          BY <2>1, <2>3, MinProperty
    <3>2. start = Min(past)
          BY <2>3
    <3> HIDE DEF start
    <3> QED BY <1>1, <1>4, <2>1, <3>1, <3>2
  <2> QED BY <2>2, <2>3
<1> HIDE DEF past, start
<1>6. ASSUME NEW x \in 1..n PROVE x \in S <=> Owes(H[x], at)
  <2>1. H[x].version \in Nat /\ H[x].from \in Nat
        BY <1>1 DEF Step
  <2>2. x >= start => H[x].version > at
    <3>1. CASE x = start
          BY <1>5, <3>1
    <3>2. CASE x > start
      <4>1. start \in 1..n /\ start < x
            BY <1>1, <1>5, <3>2
      <4>2. H[start].version <= H[x].version
            BY <1>1, <4>1, TypedFacts, OwedSuffix
      <4>3. H[start].version \in Nat
            BY <1>1, <4>1 DEF Step
      <4> QED BY <1>5, <2>1, <4>1, <4>2, <4>3
    <3> QED BY <1>1, <1>5, <3>1, <3>2
  <2>3. x \in S <=> \/ x >= start
                    \/ x < start /\ H[x].event.type = "Deleted" /\ H[x].from = at /\ H[x].version = at
        BY <1>1, <1>5
  <2>4. x >= start <=> H[x].version > at
        BY <1>5, <2>2
  <2>5. x < start <=> ~(x >= start)
        BY <1>1, <1>5
  <2> HIDE DEF S
  <2> QED BY <2>1, <2>3, <2>4, <2>5 DEF Owes, Stalled
<1>7. S \in SUBSET (1..Len(all))
      BY <1>1, <1>2, <1>5
<1> HIDE DEF S, all
<1>8. M \in Seq(CacheEvent) /\ Len(M) \in Nat
  <2>1. M \in Seq(CacheEvent)
        BY <1>2, <1>7, KeptProperty DEF M
  <2> QED BY <2>1, LenProperties
<1>9. PICK f \in [1..Len(M) -> S] :
         /\ \A i \in 1..Len(M) : M[i] = all[f[i]]
         /\ \A i, j \in 1..Len(M) : i < j => f[i] < f[j]
         /\ \A x \in S : \E i \in 1..Len(M) : f[i] = x
  <2>1. all \in Seq(CacheEvent)
        BY <1>2
  <2> QED BY <1>7, <2>1, KeptProperty, SMTT(60) DEF M
<1>10. r \in Seq(WatchEvent) /\ Len(r) \in Nat
      BY <1>8, TransitionsProperty DEF r
<1>11. PICK g \in [1..Len(r) -> 1..Len(M)] :
         /\ \A p \in 1..Len(r) :
               LET e == M[g[p]] IN
               /\ sends(e) /\ r[p].type # "Bookmark" /\ r[p].key = e.key
               /\ r[p].value = Heir(e) /\ r[p].version = e.version
               /\ r[p].type = "Deleted" => r[p].value = 0
         /\ \A p, x \in 1..Len(r) : p < x => g[p] < g[x]
         /\ \A x \in 1..Len(M) : sends(M[x]) => \E p \in 1..Len(r) : g[p] = x
      BY <1>8, TransitionsProperty DEF r
<1>12. ASSUME NEW i \in 1..Len(M)
       PROVE  f[i] \in 1..n /\ Owes(H[f[i]], at) /\ M[i] = H[f[i]].event
      BY <1>2, <1>6, <1>7, <1>9
<1> DEFINE sel == [i \in 1..Len(r) |-> f[g[i]]]
<1>13. /\ sel \in [1..Len(r) -> 1..n]
       /\ \A i \in 1..Len(r) : sel[i] = f[g[i]] /\ g[i] \in 1..Len(M)
      BY <1>11, <1>12
<1> HIDE DEF sel, H, n
<1>14. ASSUME NEW i \in 1..Len(r)
       PROVE  /\ Owes(H[sel[i]], at) /\ sends(H[sel[i]].event) /\ About(r[i], H[sel[i]].event.key)
              /\ r[i].value = Heir(H[sel[i]].event)
              /\ r[i].version = H[sel[i]].event.version
              /\ r[i].type = "Deleted" => r[i].value = 0
  <2>1. /\ g[i] \in 1..Len(M) /\ Owes(H[sel[i]], at) /\ M[g[i]] = H[sel[i]].event
        BY <1>12, <1>13
  <2> QED BY <1>11, <2>1 DEF About
<1>15. ASSUME NEW i \in 1..Len(r), NEW j \in 1..Len(r), i < j PROVE sel[i] < sel[j]
  <2>1. g[i] < g[j] /\ g[i] \in 1..Len(M) /\ g[j] \in 1..Len(M)
        BY <1>11, <1>13, <1>15
  <2>2. f[g[i]] < f[g[j]]
        BY <1>9, <2>1
  <2> QED BY <1>13, <2>2
<1>16. ASSUME NEW x \in 1..n, sends(H[x].event), Owes(H[x], at)
       PROVE  \E i \in 1..Len(r) : sel[i] = x
  <2>1. PICK y \in 1..Len(M) : f[y] = x
        BY <1>6, <1>9, <1>16
  <2>2. sends(M[y])
        BY <1>12, <1>16, <2>1
  <2>3. PICK i \in 1..Len(r) : g[i] = y
        BY <1>11, <2>2
  <2> QED BY <1>13, <2>1, <2>3
<1>17. \E s \in [1..Len(r) -> 1..n] :
          /\ \A i \in 1..Len(r) :
                /\ Owes(H[s[i]], at) /\ sends(H[s[i]].event) /\ About(r[i], H[s[i]].event.key)
                /\ r[i].value = Heir(H[s[i]].event)
                /\ r[i].version = H[s[i]].event.version
                /\ r[i].type = "Deleted" => r[i].value = 0
          /\ \A i, j \in 1..Len(r) : i < j => s[i] < s[j]
          /\ \A x \in 1..n : sends(H[x].event) /\ Owes(H[x], at) => \E i \in 1..Len(r) : s[i] = x
      BY <1>13, <1>14, <1>15, <1>16, Zenon
<1>18. r = transitions(missedSince(at))
      BY <1>3 DEF r
<1> QED BY <1>10, <1>17, <1>18, ZenonT(30) DEF H, n

\* A client that resumes from a version the ring accounts for follows the cache.
LEMMA ResumeClient ==
    ASSUME TypeOK, MarkInv, RingOK, NEW u \in Client, u.at <= currentVersion(cache),
           Caught(cache, u.store, u.at), Replayable(cache, u.at),
           NEW w, w.pc = "online", w.at = u.at, w.store = u.store,
           w.queue = transitions(missedSince(u.at))
    PROVE  Follows(cache, w)
<1> DEFINE H == cache.history
           at == u.at
           r == transitions(missedSince(at))
<1>1. at \in Nat /\ at <= currentVersion(cache) /\ Caught(cache, u.store, at)
      BY DEF Client
<1>2. /\ Ordered(H, cache) /\ Tells(H, cache.items)
      /\ H \in Seq(Step) /\ Len(H) \in Nat /\ cache.version \in Nat /\ cache.highestVersion \in Nat
      /\ \A i \in 1..Len(H) : H[i] \in Step
      BY TypedFacts, ElementOfSeq, LenProperties DEF RingOK
<1>3. r \in Seq(WatchEvent) /\ Len(r) \in Nat
      BY <1>1, <1>2, MissedProperty
<1>4. PICK sel \in [1..Len(r) -> 1..Len(H)] :
         /\ \A i \in 1..Len(r) :
               /\ Owes(H[sel[i]], at) /\ sends(H[sel[i]].event) /\ About(r[i], H[sel[i]].event.key)
               /\ r[i].value = Heir(H[sel[i]].event)
               /\ r[i].version = H[sel[i]].event.version
               /\ r[i].type = "Deleted" => r[i].value = 0
         /\ \A i, j \in 1..Len(r) : i < j => sel[i] < sel[j]
         /\ \A x \in 1..Len(H) : sends(H[x].event) /\ Owes(H[x], at) =>
               \E i \in 1..Len(r) : sel[i] = x
      BY <1>1, <1>2, MissedProperty
<1>5. w.queue = r /\ w.store = u.store /\ w.at = at
      OBVIOUS
<1> HIDE DEF r, H, at
<1>6. ASSUME NEW p \in 0..Len(r), NEW k \in Keys,
             \A x \in 1..Len(H) : sends(H[x].event) /\ Owes(H[x], at) /\ H[x].event.key = k =>
                 \E i \in 1..p : sel[i] = x
      PROVE  Agrees(cache, k, View(u.store, r, p)[k])
  <2>1. p \in Nat /\ 1..p \subseteq 1..Len(r)
        BY <1>3
  <2>2. CASE /\ \A i \in 1..p : ~About(r[i], k)
             /\ View(u.store, r, p)[k] = u.store[k]
    <3>1. ASSUME Pending(cache, at, k) PROVE FALSE
      <4>1. PICK x \in 1..Len(H) : sends(H[x].event) /\ Owes(H[x], at) /\ H[x].event.key = k
            BY <3>1 DEF Pending, H
      <4>2. PICK i \in 1..p : sel[i] = x
            BY <1>6, <4>1
      <4>3. About(r[i], k)
            BY <1>4, <2>1, <4>1, <4>2
      <4> QED BY <2>2, <4>2, <4>3
    <3>2. Replayable(cache, at)
          BY DEF at
    <3> QED BY <1>1, <2>2, <3>1, <3>2 DEF Caught
  <2>3. CASE \E i \in 1..p : /\ About(r[i], k)
                             /\ \A j \in 1..p : j > i => ~About(r[j], k)
                             /\ View(u.store, r, p)[k] = r[i].value
    <3>1. PICK i \in 1..p : /\ About(r[i], k)
                            /\ \A j \in 1..p : j > i => ~About(r[j], k)
                            /\ View(u.store, r, p)[k] = r[i].value
          BY <2>3
    <3>2. /\ i \in 1..Len(r) /\ sel[i] \in 1..Len(H)
          /\ Owes(H[sel[i]], at) /\ sends(H[sel[i]].event) /\ About(r[i], H[sel[i]].event.key)
          /\ r[i].value = Heir(H[sel[i]].event)
          BY <1>4, <2>1
    <3>3. H[sel[i]].event.key = k
          BY <3>1, <3>2 DEF About
    <3>4. ASSUME Heir(H[sel[i]].event) # selected(cache.items)[k] PROVE FALSE
      <4>1. PICK y \in 1..Len(H) : /\ sel[i] < y /\ sends(H[y].event)
                                   /\ H[y].event.key = k
            BY <1>2, <3>2, <3>3, <3>4 DEF Tells
      <4>2. Owes(H[y], at)
            BY <1>1, <1>2, <3>2, <4>1, OwedSuffix
      <4>3. PICK j \in 1..p : sel[j] = y
            BY <1>6, <4>1, <4>2
      <4>4. j > i
        <5>1. ~(j < i)
          <6> SUFFICES ASSUME j < i PROVE FALSE
              OBVIOUS
          <6>1. sel[j] < sel[i]
                BY <1>4, <2>1
          <6>2. sel[i] \in Nat /\ y \in Nat
                BY <1>2, <3>2, <4>1
          <6> QED BY <4>1, <4>3, <6>1, <6>2
        <5>2. j # i
          <6> SUFFICES ASSUME j = i PROVE FALSE
              OBVIOUS
          <6>1. y < y /\ y \in Nat
                BY <1>2, <4>1, <4>3
          <6> QED BY <6>1
        <5> QED BY <2>1, <5>1, <5>2
      <4>5. About(r[j], k)
            BY <1>4, <2>1, <4>1, <4>3
      <4> QED BY <3>1, <4>4, <4>5
    <3> QED BY <3>1, <3>2, <3>4 DEF Agrees
  <2> QED BY <2>1, <2>2, <2>3, ViewProperty
<1>7. \A k \in Keys : Agrees(cache, k, View(u.store, r, Len(r))[k])
  <2>1. Len(r) \in 0..Len(r)
        BY <1>3
  <2> QED BY <1>4, <1>6, <2>1
<1>8. ASSUME NEW n \in 0..Len(r)
      PROVE  /\ VersionAt(w, n) <= currentVersion(cache)
             /\ Caught(cache, View(u.store, r, n), VersionAt(w, n))
  <2>1. CASE n = 0
    <3>1. VersionAt(w, n) = at
          BY <1>5, <2>1 DEF VersionAt
    <3>2. ASSUME NEW k \in Keys, ~Pending(cache, at, k) PROVE Agrees(cache, k, View(u.store, r, n)[k])
      <4>1. \A x \in 1..Len(H) : ~(sends(H[x].event) /\ Owes(H[x], at) /\ H[x].event.key = k)
            BY <3>2 DEF Pending, H
      <4> QED BY <1>6, <4>1
    <3> QED BY <1>1, <3>1, <3>2 DEF Caught
  <2>2. CASE n # 0
    <3> DEFINE y == sel[n]
               v == H[y].event.version
    <3>1. n \in 1..Len(r)
          BY <1>3, <2>2
    <3>2. VersionAt(w, n) = v /\ y \in 1..Len(H) /\ y \in Nat
          BY <1>2, <1>4, <1>5, <2>2, <3>1 DEF VersionAt
    <3> HIDE DEF y
    <3>3. v <= currentVersion(cache)
      <4>1. H[y].version \in Nat /\ v \in Nat /\ v <= H[y].version
            BY <1>2, <3>2 DEF Step, CacheEvent, Ordered
      <4> HIDE DEF v
      <4>2. CASE Versioned
        <5>1. 0 < H[y].version /\ H[y].version <= cache.highestVersion
              BY <1>2, <3>2, <4>2 DEF Ordered
        <5>2. currentVersion(cache) = cache.highestVersion
              BY <1>2, <4>1, <5>1 DEF currentVersion
        <5> QED BY <1>2, <4>1, <5>1, <5>2
      <4>3. CASE ~Versioned
        <5>1. H[y].version = cache.version - Len(H) + y
              BY <1>2, <3>2, <4>3 DEF Ordered
        <5>2. currentVersion(cache) = cache.version
              BY <4>3 DEF currentVersion, MarkInv
        <5> QED BY <1>2, <3>2, <4>1, <5>1, <5>2
      <4> QED BY <4>2, <4>3
    <3>4. ASSUME NEW k \in Keys, ~Pending(cache, v, k) PROVE Agrees(cache, k, View(u.store, r, n)[k])
      <4>1. ASSUME NEW x \in 1..Len(H), sends(H[x].event), Owes(H[x], at), H[x].event.key = k
            PROVE  \E i \in 1..n : sel[i] = x
        <5>1. ~Owes(H[x], v)
              BY <3>4, <4>1 DEF Pending, H
        <5>2. ~(y < x)
              BY <1>2, <3>2, <5>1, OwedSuffix
        <5>3. PICK i \in 1..Len(r) : sel[i] = x
              BY <1>4, <4>1
        <5>4. ~(n < i)
              BY <1>4, <3>1, <5>2, <5>3 DEF y
        <5>5. i \in 1..n
              BY <1>3, <3>1, <5>4
        <5> QED BY <5>3, <5>5
      <4> QED BY <1>6, <4>1
    <3> HIDE DEF v
    <3> QED BY <3>2, <3>3, <3>4 DEF Caught
  <2> QED BY <2>1, <2>2
<1>9. \A i \in 1..Len(r) : r[i].type = "Deleted" => r[i].value = 0
      BY <1>4
<1> QED BY <1>5, <1>7, <1>8, <1>9 DEF Follows

LEMMA CaughtSame ==
    ASSUME NEW c, NEW s, NEW t, NEW at, \A k \in Keys : s[k] = t[k], Caught(c, s, at)
    PROVE  Caught(c, t, at)
BY DEF Caught

\* A client that takes an event holds what it would have held behind it.
LEMMA DeliverClient ==
    ASSUME NEW u \in Client, Follows(cache, u), u.queue # <<>>,
           NEW w, w.pc = (IF u.pc = "online" \/ EndsInitial(Head(u.queue)) THEN "online" ELSE "syncing"),
           w.at = (IF u.pc = "online" \/ EndsInitial(Head(u.queue)) THEN Head(u.queue).version ELSE 0),
           w.store = Received(u.store, Head(u.queue)), w.queue = Tail(u.queue)
    PROVE  Follows(cache, w)
<1> DEFINE q == u.queue
           m == Len(q)
           t == w.queue
<1>1. q \in Seq(WatchEvent) /\ u.store \in Rows
      BY DEF Client
<1>2. /\ m \in Nat /\ m > 0 /\ t = Tail(q) /\ t \in Seq(WatchEvent) /\ Len(t) = m - 1
      /\ \A i \in 1..Len(t) : t[i] = q[i + 1]
      /\ Head(q) = q[1]
      BY <1>1, LenProperties, HeadTailProperties, EmptySeq
<1>4. /\ \A i \in 1..m : q[i].type = "Deleted" => q[i].value = 0
      /\ \A k \in Keys : Agrees(cache, k, View(u.store, q, m)[k])
      /\ \A n \in 0..m : Synced(u, n) =>
            /\ VersionAt(u, n) <= currentVersion(cache)
            /\ Caught(cache, View(u.store, q, n), VersionAt(u, n))
      BY DEF Follows
<1>5. ASSUME NEW n \in 0..Len(t) PROVE View(w.store, t, n) = View(u.store, q, n + 1)
  <2>1. q[1].type = "Deleted" => q[1].value = 0
        BY <1>2, <1>4
  <2>2. n \in 0..(Len(q) - 1)
        BY <1>2
  <2> QED BY <1>1, <1>2, <2>1, <2>2, ViewTail
<1> HIDE DEF t
<1>6. \A i \in 1..Len(t) : t[i].type = "Deleted" => t[i].value = 0
      BY <1>2, <1>4
<1>7. \A k \in Keys : Agrees(cache, k, View(w.store, t, Len(t))[k])
  <2>1. Len(t) \in 0..Len(t) /\ Len(t) + 1 = m
        BY <1>2
  <2> QED BY <1>4, <1>5, <2>1
<1>8. ASSUME NEW n \in 0..Len(t), Synced(w, n)
      PROVE  /\ VersionAt(w, n) <= currentVersion(cache)
             /\ Caught(cache, View(w.store, t, n), VersionAt(w, n))
  <2>1. n + 1 \in 0..m /\ n \in Nat
        BY <1>2
  <2>2. Synced(u, n + 1)
    <3>1. CASE u.pc = "online"
          BY <3>1 DEF Synced
    <3>2. CASE EndsInitial(q[1])
      <4>1. 1 \in 1..(n + 1)
            BY <2>1
      <4> QED BY <3>2, <4>1 DEF Synced
    <3>3. CASE u.pc # "online" /\ ~EndsInitial(q[1])
      <4>1. w.pc # "online"
            BY <1>2, <3>3
      <4>2. PICK j \in 1..n : EndsInitial(t[j])
            BY <1>8, <4>1 DEF Synced, t
      <4>3. j + 1 \in 1..(n + 1) /\ q[j + 1] = t[j]
            BY <1>2, <2>1
      <4> QED BY <4>2, <4>3 DEF Synced
    <3> QED BY <3>1, <3>2, <3>3
  <2>3. VersionAt(w, n) = VersionAt(u, n + 1)
    <3>1. VersionAt(u, n + 1) = q[n + 1].version
          BY <2>1 DEF VersionAt
    <3>2. CASE n = 0
      <4>1. w.pc = "online"
            BY <1>8, <3>2 DEF Synced
      <4>2. w.at = q[1].version
            BY <1>2, <4>1
      <4> QED BY <3>1, <3>2, <4>2 DEF VersionAt
    <3>3. CASE n # 0
      <4>1. n \in 1..Len(t)
            BY <1>2, <3>3
      <4> QED BY <1>2, <3>1, <3>3, <4>1 DEF VersionAt, t
    <3> QED BY <3>2, <3>3
  <2> QED BY <1>4, <1>5, <2>1, <2>2, <2>3
<1> QED BY <1>6, <1>7, <1>8 DEF Follows, t

\* A client that is cut off can resume from the version it reached.
LEMMA CutStream ==
    ASSUME NEW u, u.queue \in Seq(WatchEvent), u.pc = "online", Follows(cache, u)
    PROVE  u.at <= currentVersion(cache) /\ Caught(cache, u.store, u.at)
<1>1. 0 \in 0..Len(u.queue)
  <2>1. Len(u.queue) \in Nat
        BY LenProperties
  <2> QED BY <2>1
<1>2. /\ VersionAt(u, 0) <= currentVersion(cache)
      /\ Caught(cache, View(u.store, u.queue, 0), VersionAt(u, 0))
      BY <1>1 DEF Follows, Synced
<1>3. VersionAt(u, 0) = u.at
      BY DEF VersionAt
<1>4. \A k \in Keys : View(u.store, u.queue, 0)[k] = u.store[k]
      BY ViewProperty
<1> QED BY <1>2, <1>3, <1>4, CaughtSame

\* So can one whose initial events were still to be put in front of its queue.
LEMMA CutClient ==
    ASSUME NEW u \in Client, ClientOK(cache, u), ~u.overtaken, u.at # 0,
           u.pc \in {"offline"} \cup Streaming
    PROVE  u.at <= currentVersion(cache) /\ Caught(cache, u.store, u.at)
<1>1. u.pc \in {"offline", "resuming", "online"}
      BY DEF ClientOK, Streaming, Served, Prepending
<1>2. CASE u.pc = "offline"
      BY <1>2 DEF ClientOK
<1>3. CASE u.pc = "online"
  <2>1. Follows(cache, u) /\ u.queue \in Seq(WatchEvent)
        BY <1>3 DEF ClientOK, Served, Client
  <2> QED BY <1>3, <2>1, CutStream
<1>4. CASE u.pc = "resuming"
  <2>1. PICK a : a = Admitted(u)
        OBVIOUS
  <2>2. Follows(cache, a)
        BY <1>4, <2>1 DEF ClientOK, Prepending
  <2>3. a.pc = "online" /\ a.queue \in Seq(WatchEvent) /\ a.store = u.store /\ a.at = u.at
        BY <1>4, <2>1, AdmittedFields
  <2>4. a.at <= currentVersion(cache) /\ Caught(cache, a.store, a.at)
        BY <2>2, <2>3, CutStream
  <2> QED BY <2>3, <2>4
<1> QED BY <1>1, <1>2, <1>3, <1>4

\* A list takes its version before it reads its rows: where they are not the
\* cache's, they are ahead of it.
LEMMA ListClient ==
    ASSUME NEW u, ClientOK(cache, u), u.pc = "listing",
           NEW w, w.pc = "offline", w.at = u.at, w.store = selected(rows)
    PROVE  w.at <= currentVersion(cache) /\ Caught(cache, w.store, w.at)
<1>1. u.at <= currentVersion(cache) /\ config.byListing
      BY DEF ClientOK
<1>2. ASSUME NEW k \in Keys PROVE Agrees(cache, k, w.store[k])
  <2>1. CASE matches(cache.items[k]) /\ rows[k] = cache.items[k]
    <3>1. selected(rows)[k] = selected(cache.items)[k]
          BY <2>1 DEF selected
    <3> QED BY <3>1 DEF Agrees
  <2>2. CASE ~(matches(cache.items[k]) /\ rows[k] = cache.items[k])
        BY <1>1, <2>2 DEF Agrees
  <2> QED BY <2>1, <2>2
<1>3. Caught(cache, w.store, w.at)
      BY <1>2 DEF Caught
<1> QED BY <1>1, <1>3

LEMMA NewClientOK ==
    ASSUME NEW c, NEW w, w.pc = "new", w.at = 0
    PROVE  ClientOK(c, w)
BY DEF ClientOK, Served, Prepending

LEMMA DisconnectedFields ==
    ASSUME NEW u \in Client
    PROVE  \/ disconnected(u).pc = "new" /\ disconnected(u).at = 0
           \/ /\ u.at # 0 /\ u.pc # "snapshotting"
              /\ disconnected(u).pc = (IF u.pc = "listing" THEN "listing" ELSE "offline")
              /\ disconnected(u).at = u.at /\ disconnected(u).store = u.store
              /\ disconnected(u).overtaken = u.overtaken /\ disconnected(u).queue = <<>>
BY DEF disconnected, Client, NewClient

\* Prepending events in front of a queue, or none anywhere, admits a client; any
\* other way its initial events are overtaken.
LEMMA PrependClient ==
    ASSUME NEW u \in Client, ClientOK(cache, u), u.pc \in Prepending,
           NEW taken \in 0..Len(u.queue),
           NEW w, w = [u EXCEPT
               !.pc = IF u.pc = "starting" THEN "syncing" ELSE "online",
               !.queue = SubSeq(u.queue, 1, taken) \o u.initial \o
                             SubSeq(u.queue, taken + 1, Len(u.queue)),
               !.initial = <<>>,
               !.overtaken = u.overtaken \/ (taken > 0 /\ u.initial # <<>>)]
    PROVE  ClientOK(cache, w)
<1> DEFINE q == u.queue
           i == u.initial
           o == u.overtaken \/ (taken > 0 /\ i # <<>>)
           new == SubSeq(q, 1, taken) \o i \o SubSeq(q, taken + 1, Len(q))
           pc == IF u.pc = "starting" THEN "syncing" ELSE "online"
<1>1. /\ w.pc = pc /\ w.overtaken = o /\ w.at = u.at
      BY DEF Client
<1>2. /\ q \in Seq(WatchEvent) /\ i \in Seq(WatchEvent) /\ Len(q) \in Nat /\ taken \in Nat
      /\ taken <= Len(q)
      BY LenProperties DEF Client
<1>3. CASE o
  <2>1. ClientOK(cache, w)
    <3> HIDE DEF o, pc
    <3>1. pc \in {"syncing", "online"}
          BY DEF pc
    <3> QED BY <1>1, <1>3, <3>1 DEF ClientOK
  <2> QED BY <2>1
<1>4. CASE ~o
  <2>1. new = i \o q
    <3> HIDE DEF q, i
    <3>1. CASE taken = 0
      <4>1. SubSeq(q, 1, taken) = <<>> /\ SubSeq(q, taken + 1, Len(q)) = q
            BY <1>2, <3>1, SubSeqEmpty, SubSeqFull
      <4>2. <<>> \o i = i
            BY <1>2, ConcatEmptySeq
      <4> QED BY <4>1, <4>2
    <3>2. CASE taken > 0 /\ i = <<>>
      <4>1. taken \in 1..Len(q)
            BY <1>2, <3>2
      <4>2. /\ SubSeq(q, 1, taken) \o <<>> = SubSeq(q, 1, taken)
            /\ SubSeq(q, 1, taken) \o SubSeq(q, taken + 1, Len(q)) = q
            BY <1>2, <4>1, SplitQueue
      <4>3. i \o q = q
            BY <1>2, <3>2, ConcatEmptySeq
      <4>4. i = <<>>
            BY <3>2
      <4> QED BY <4>2, <4>3, <4>4, Zenon
    <3>3. taken = 0 \/ (taken > 0 /\ i = <<>>)
          BY <1>2, <1>4
    <3> QED BY <3>1, <3>2, <3>3, Zenon
  <2>2. w = Admitted(u)
    <3>1. w = [u EXCEPT !.pc = pc, !.queue = i \o q, !.initial = <<>>, !.overtaken = o]
          BY <2>1
    <3>2. o = u.overtaken
          BY <1>4 DEF Client
    <3>3. [u EXCEPT !.pc = pc, !.queue = i \o q, !.initial = <<>>, !.overtaken = u.overtaken]
             = [u EXCEPT !.pc = pc, !.queue = i \o q, !.initial = <<>>]
          BY DEF Client
    <3> QED BY <3>1, <3>2, <3>3 DEF Admitted
  <2>3. ~u.overtaken
        BY <1>4
  <2>4. Follows(cache, w) /\ (u.pc = "starting" => w.at = 0)
        BY <1>1, <2>2, <2>3 DEF ClientOK, Prepending
  <2>5. w.pc = "syncing" => w.at = 0
        BY <1>1, <2>4
  <2>6. w.pc \in {"syncing", "online"}
        BY <1>1
  <2> HIDE DEF q, i, o, new, pc
  <2> QED BY <2>4, <2>5, <2>6 DEF ClientOK, Prepending
<1> QED BY <1>3, <1>4

\* A step of a client: no query of the table on its behalf, in these
\* configurations, and whatever it does it is right or can be made so.
LEMMA ClientRing ==
    ASSUME TypeOK, MarkInv, RingSuffices, RingOK, NEW c \in Clients, ClientStep(c)
    PROVE  RingOK'
<1> DEFINE u == client[c]
<1>1. UNCHANGED <<config, rows, cache>>
      BY ClientStays
<1>2. /\ u \in Client /\ ClientOK(cache, u) /\ ~cache.lightweight
      /\ u.pc \notin {"snapshotting", "replaying", "replayed"} /\ client \in [Clients -> Client]
      BY ClientFacts DEF RingOK, ClientOK, TypeOK
<1>3. SUFFICES ASSUME NEW w, client' = [client EXCEPT ![c] = w]
               PROVE  ClientOK(cache, w)
  <2>1. PICK w : client' = [client EXCEPT ![c] = w]
    <3>1. CASE WatchInitial(c) \/ WatchSnapshot(c) \/ SnapshotRead(c) \/ ListStamps(c) \/ Expire(c)
          BY <3>1 DEF WatchInitial, WatchSnapshot, SnapshotRead, ListStamps, Expire
    <3>2. CASE ListReads(c)
          BY <1>2, <3>2 DEF ListReads
    <3>3. CASE Resume(c)
          BY <1>2, <3>3 DEF Resume
    <3>4. CASE ResumeFromDatabase(c) \/ ResumeFromRows(c)
          BY <1>2, <3>4 DEF ResumeFromDatabase, ResumeFromRows
    <3>5. CASE WatchRefused(c) \/ ResumeFromTombstones(c)
          BY <1>2, <3>5 DEF WatchRefused, ResumeFromTombstones
    <3>6. CASE Deliver(c)
          BY <3>6 DEF Deliver
    <3>7. CASE Cut(c)
          BY <3>7 DEF Cut
    <3>8. CASE Prepend(c)
          BY <1>2, <3>8 DEF Prepend
    <3> QED BY <3>1, <3>2, <3>3, <3>4, <3>5, <3>6, <3>7, <3>8 DEF ClientStep
  <2>2. ClientOK(cache, w)
        BY <1>3, <2>1
  <2>3. ASSUME NEW x \in Clients PROVE ClientOK(cache, client'[x])
    <3>1. CASE x = c
      <4>1. client'[x] = w
            BY <1>2, <2>1, <3>1
      <4> QED BY <2>2, <4>1
    <3>2. CASE x # c
      <4>1. client'[x] = client[x]
            BY <1>2, <2>1, <3>2
      <4> QED BY <4>1 DEF RingOK
    <3> QED BY <3>1, <3>2
  <2> QED BY <1>1, <2>3, RingStays
<1>4. client'[c] = w
      BY <1>2, <1>3
<1>5. CASE WatchInitial(c)
  <2> DEFINE q == initialEvents(cache.items, currentVersion(cache))
  <2>1. w = [NewClient EXCEPT !.pc = "starting", !.initial = q]
        BY <1>2, <1>4, <1>5 DEF WatchInitial
  <2>2. /\ w.pc = "starting" /\ w.at = 0 /\ w.store = NoRows /\ w.initial = q /\ w.queue = <<>>
        BY <2>1 DEF NewClient
  <2>3. q \in Seq(WatchEvent)
        BY InitialEventsType, CurrentVersionType DEF TypeOK, Cache
  <2> HIDE DEF q
  <2>4. NewClient \in Client
        BY FreshTypes
  <2>5. w \in Client
        BY <2>1, <2>3, <2>4 DEF Client, Streaming, Prepending
  <2>6. q \o <<>> = q
        BY <2>3, ConcatEmptySeq
  <2>7. PICK a : a = Admitted(w)
        OBVIOUS
  <2>8. a.pc = "syncing" /\ a.at = 0 /\ a.store = NoRows /\ a.queue = q
        BY <2>2, <2>5, <2>6, <2>7, AdmittedFields
  <2>9. Follows(cache, a)
        BY <2>8, InitialClient DEF q
  <2> QED BY <2>2, <2>7, <2>9 DEF ClientOK, Served, Prepending
<1>6. CASE WatchSnapshot(c) \/ SnapshotRead(c) \/ ResumeFromDatabase(c) \/ ResumeFromRows(c)
           \/ ResumeFromTombstones(c)
  <2>1. ~WatchSnapshot(c) /\ ~SnapshotRead(c) /\ ~ResumeFromRows(c) /\ ~ResumeFromTombstones(c)
        BY <1>2 DEF WatchSnapshot, SnapshotRead, ResumeFromRows, ResumeFromTombstones
  <2>2. ~ResumeFromDatabase(c)
        BY DEF ResumeFromDatabase, hasDatabaseHistory, RingSuffices
  <2> QED BY <1>6, <2>1, <2>2
<1>7. CASE ListStamps(c)
  <2>1. w.pc = "listing" /\ w.at = currentVersion(cache) /\ config.byListing /\ w.queue = <<>>
        BY <1>2, <1>4, <1>7 DEF ListStamps, NewClient
  <2>2. currentVersion(cache) \in Nat
        BY CurrentVersionType DEF TypeOK
  <2> QED BY <2>1, <2>2 DEF ClientOK, Served, Prepending
<1>8. CASE ListReads(c)
  <2>1. /\ u.pc = "listing" /\ w.pc = "offline" /\ w.at = u.at /\ w.store = selected(rows)
        /\ w.queue = u.queue
        BY <1>2, <1>4, <1>8 DEF ListReads, Client
  <2> HIDE DEF u
  <2>2. w.at <= currentVersion(cache) /\ Caught(cache, w.store, w.at)
        BY <1>2, <2>1, ListClient
  <2>3. w.queue = <<>>
        BY <1>2, <2>1 DEF ClientOK
  <2> QED BY <2>1, <2>2, <2>3 DEF ClientOK, Served, Prepending
<1>9. CASE Resume(c)
  <2> DEFINE q == transitions(missedSince(u.at))
  <2>1. u.pc = "offline" /\ w = [u EXCEPT !.pc = "resuming", !.initial = q]
        BY <1>2, <1>4, <1>9 DEF Resume
  <2>2. Replayable(cache, u.at)
        BY <1>9 DEF Resume, replayable, Replayable
  <2>3. q \in Seq(WatchEvent) /\ u.queue \in Seq(WatchEvent)
        BY <1>2, MissedSinceType, TransitionsType DEF Client
  <2>4. u.queue = <<>>
        BY <1>2, <2>1 DEF ClientOK
  <2> HIDE DEF u, q
  <2>5. w \in Client /\ w.pc = "resuming" /\ w.initial = q /\ w.queue = <<>>
        /\ w.at = u.at /\ w.store = u.store /\ w.overtaken = u.overtaken
        BY <1>2, <2>1, <2>3, <2>4 DEF Client, Streaming, Prepending
  <2>6. ASSUME ~u.overtaken PROVE Follows(cache, Admitted(w))
    <3>1. u.at <= currentVersion(cache) /\ Caught(cache, u.store, u.at)
          BY <1>2, <2>1, <2>6 DEF ClientOK
    <3>2. q \o <<>> = q
          BY <2>3, ConcatEmptySeq
    <3>3. PICK a : a = Admitted(w)
          OBVIOUS
    <3>4. a.pc = "online" /\ a.at = u.at /\ a.store = u.store /\ a.queue = q
          BY <2>5, <3>2, <3>3, AdmittedFields
    <3> QED BY <1>2, <2>2, <3>1, <3>3, <3>4, ResumeClient DEF q
  <2> QED BY <2>5, <2>6 DEF ClientOK, Served, Prepending
<1>10. CASE Expire(c) \/ WatchRefused(c)
  <2>1. w.pc = "new" /\ w.at = 0
        BY <1>2, <1>4, <1>10 DEF Expire, WatchRefused, NewClient
  <2> QED BY <2>1, NewClientOK
<1>11. CASE Deliver(c)
  <2> DEFINE e == Head(u.queue)
             synced == u.pc = "online" \/ EndsInitial(e)
  <2>1. /\ u.pc \in Served /\ u.queue # <<>>
        /\ w = [u EXCEPT !.pc = IF synced THEN "online" ELSE "syncing",
                         !.at = IF synced THEN e.version ELSE 0,
                         !.store = Received(u.store, e),
                         !.queue = Tail(u.queue)]
        BY <1>2, <1>4, <1>11 DEF Deliver, EndsInitial
  <2> HIDE DEF u, e
  <2>2. /\ w.pc = (IF synced THEN "online" ELSE "syncing")
        /\ w.at = (IF synced THEN e.version ELSE 0)
        /\ w.store = Received(u.store, e) /\ w.queue = Tail(u.queue)
        /\ w.overtaken = u.overtaken
        BY <1>2, <2>1 DEF Client
  <2>3. ASSUME ~u.overtaken PROVE Follows(cache, w)
    <3>1. Follows(cache, u)
          BY <1>2, <2>1, <2>3 DEF ClientOK
    <3> QED BY <1>2, <2>1, <2>2, <3>1, DeliverClient DEF e
  <2>4. w.pc \in {"syncing", "online"} /\ (w.pc = "syncing" => w.at = 0)
        BY <2>2
  <2> QED BY <2>2, <2>3, <2>4 DEF ClientOK, Prepending
<1>12. CASE Cut(c)
  <2>1. u.pc \in Streaming /\ w = disconnected(u)
        BY <1>2, <1>4, <1>12 DEF Cut
  <2> HIDE DEF u
  <2>2. CASE w.pc = "new"
    <3>1. w.at = 0
          BY <1>2, <2>1, <2>2, DisconnectedFields
    <3> QED BY <2>2, <3>1, NewClientOK
  <2>3. CASE w.pc # "new"
    <3>1. /\ u.at # 0 /\ w.pc = "offline" /\ w.at = u.at /\ w.store = u.store
          /\ w.overtaken = u.overtaken /\ w.queue = <<>>
          BY <1>2, <2>1, <2>3, DisconnectedFields DEF Streaming, Served, Prepending
    <3>2. ~u.overtaken => w.at <= currentVersion(cache) /\ Caught(cache, w.store, w.at)
          BY <1>2, <2>1, <3>1, CutClient
    <3> QED BY <3>1, <3>2 DEF ClientOK, Served, Prepending
  <2> QED BY <2>2, <2>3
<1>13. CASE Prepend(c)
  <2>1. PICK taken \in 0..Len(u.queue) :
           w = [u EXCEPT
               !.pc = IF u.pc = "starting" THEN "syncing" ELSE "online",
               !.queue = SubSeq(u.queue, 1, taken) \o u.initial \o
                             SubSeq(u.queue, taken + 1, Len(u.queue)),
               !.initial = <<>>,
               !.overtaken = u.overtaken \/ (taken > 0 /\ u.initial # <<>>)]
        BY <1>2, <1>4, <1>13 DEF Prepend
  <2>2. u.pc \in Prepending
        BY <1>13 DEF Prepend
  <2> HIDE DEF u
  <2> QED BY <1>2, <2>1, <2>2, PrependClient
<1> QED BY <1>5, <1>6, <1>7, <1>8, <1>9, <1>10, <1>11, <1>12, <1>13 DEF ClientStep

\* A counter that starts again is past everything the old one handed out, so no
\* client resumes across a restart.
LEMMA RestartRing ==
    ASSUME TypeOK, MarkInv, RingSuffices, RingOK, Restart, RingSuffices'
    PROVE  RingOK'
<1>1. UNCHANGED <<config, rows>> /\ cache' = FreshCache(nextEpoch)
      BY DEF Restart, outside
<1>2. ~Versioned
  <2> SUFFICES ASSUME Versioned PROVE FALSE
      OBVIOUS
  <2>1. Versioned'
        BY <1>1 DEF Versioned
  <2>2. faults'.restarts = 0
        BY <2>1 DEF RingSuffices
  <2>3. faults.restarts \in Nat /\ faults \in [cuts : 0..config.maxCuts, restarts : 0..config.maxRestarts]
        BY TypedFacts DEF TypeOK
  <2>4. faults'.restarts = faults.restarts + 1
        BY <2>3 DEF Restart
  <2> QED BY <2>2, <2>3, <2>4
<1>3. cache.version \in Nat /\ currentVersion(cache) = cache.version
      BY <1>2, TypedFacts DEF MarkInv, currentVersion
<1>4. PICK d : d = FreshCache(cache.version + 1)
      OBVIOUS
<1>5. /\ cache' = d /\ d.history = <<>> /\ ~d.lightweight /\ d.highestVersion = 0
      /\ d.version = cache.version + 1
      BY <1>1, <1>2, <1>4 DEF nextEpoch, FreshCache
<1>6. currentVersion(d) = cache.version + 1
      BY <1>5 DEF currentVersion
<1>7. Ordered(d.history, d)' /\ Tells(d.history, d.items)'
  <2>1. d.history \in Seq(Step) /\ Len(d.history) = 0
        BY <1>5, EmptySeq
  <2>2. 1..Len(d.history) = {}
        BY <2>1
  <2>3. Ordered(d.history, d)
        BY <2>2 DEF Ordered
  <2>4. Tells(d.history, d.items)
        BY <2>2 DEF Tells
  <2> QED BY <1>1, <2>1, <2>3, <2>4, SameRing
<1>8. ASSUME NEW c \in Clients PROVE ClientOK(cache, client[c])'
  <2>1. PICK u, w : u = client[c] /\ w = client'[c]
        OBVIOUS
  <2>2. u \in Client /\ ClientOK(cache, u)
        BY <2>1, ClientFacts DEF RingOK
  <2>3. w = disconnected(u)
        BY <2>1 DEF Restart
  <2>4. CASE w.pc = "new"
    <3>1. w.at = 0
          BY <2>2, <2>3, <2>4, DisconnectedFields
    <3>2. ClientOK(d, w)'
          BY <2>4, <3>1 DEF ClientOK, Served, Prepending
    <3> QED BY <1>5, <2>1, <3>2
  <2>5. CASE w.pc # "new"
    <3>1. /\ u.at # 0 /\ u.pc # "snapshotting" /\ w.at = u.at /\ u.at \in Nat
          /\ w.pc = (IF u.pc = "listing" THEN "listing" ELSE "offline")
          /\ w.overtaken = u.overtaken /\ w.queue = <<>>
          BY <2>2, <2>3, <2>5, DisconnectedFields DEF Client
    <3>2. ASSUME u.pc = "listing" \/ ~u.overtaken PROVE u.at <= currentVersion(cache)
      <4>1. CASE u.pc = "listing"
            BY <2>2, <4>1 DEF ClientOK
      <4>2. CASE u.pc # "listing" /\ u.pc # "new"
        <5>1. u.pc \in {"offline"} \cup Streaming
              BY <2>2, <4>2 DEF Client
        <5> QED BY <2>2, <3>1, <3>2, <4>2, <5>1, CutClient
      <4>3. CASE u.pc = "new"
            BY <2>2, <3>1, <4>3 DEF ClientOK
      <4> QED BY <4>1, <4>2, <4>3
    <3>3. ASSUME w.pc = "listing" \/ ~w.overtaken
          PROVE  w.at <= currentVersion(d) /\ ~Replayable(d, w.at)
      <4>1. w.at # currentVersion(d) /\ w.at <= currentVersion(d)
            BY <1>3, <1>6, <3>1, <3>2, <3>3
      <4> QED BY <1>5, <4>1 DEF Replayable
    <3>4. w.pc = "listing" => config.byListing
          BY <2>2, <3>1 DEF ClientOK
    <3>5. ClientOK(d, w)
          BY <3>1, <3>3, <3>4 DEF ClientOK, Caught, Served, Prepending
    <3>6. ClientOK(d, w)'
          BY <1>1, <3>5, SameClient
    <3> QED BY <1>5, <2>1, <3>6
  <2> QED BY <2>4, <2>5
<1> QED BY <1>5, <1>7, <1>8 DEF RingOK

\* A row that is written gets a stamp the cache has not seen.
LEMMA TableRing ==
    ASSUME TypeOK, DistinctInv, RingOK, NEW k \in Keys, Write(k) \/ Delete(k)
    PROVE  RingOK'
<1>1. UNCHANGED <<config, cache, client>>
      BY DEF Write, Delete
<1>2. ASSUME NEW q \in Keys PROVE rows'[q] = rows[q] \/ rows'[q] = 0 \/ rows'[q] # cache.items[q]
  <2>1. clock \in Nat /\ cache.items[q] \in Nat /\ cache.items[q] <= clock /\ rows \in Rows
        BY TypedFacts DEF Rows, DistinctInv
  <2>2. rows'[q] = rows[q] \/ rows'[q] = 0 \/ rows'[q] = clock + 1
        BY <2>1 DEF Write, Delete, Rows
  <2> QED BY <2>1, <2>2
<1>3. \A c \in Clients : ClientOK(cache, client'[c])
      BY <1>1 DEF RingOK
<1> QED BY <1>1, <1>2, <1>3, RingStays

LEMMA RingInit ==
    ASSUME Init
    PROVE  RingInv
<1>1. /\ cache.history = <<>> /\ ~cache.lightweight /\ \A c \in Clients : client[c].pc = "new" /\ client[c].at = 0
      BY DEF Init, FreshCache, NewClient
<1>2. 1..Len(cache.history) = {}
      BY <1>1
<1>3. Ordered(cache.history, cache) /\ Tells(cache.history, cache.items)
      BY <1>2 DEF Ordered, Tells
<1>4. \A c \in Clients : ClientOK(cache, client[c])
      BY <1>1, NewClientOK
<1> QED BY <1>1, <1>3, <1>4, DistinctInit DEF RingInv, RingOK

LEMMA RingStep ==
    ASSUME TypeOK, MarkInv, TableInv, RingInv, [Next]_vars
    PROVE  RingInv'
<1>1. DistinctInv /\ DistinctInv'
      BY DistinctStep DEF RingInv
<1>2. SUFFICES ASSUME RingSuffices' PROVE RingOK'
      BY <1>1 DEF RingInv
<1>3. UNCHANGED config
      BY StepKinds
<1>4. RingSuffices
  <2>1. faults.restarts \in Nat /\ faults \in [cuts : 0..config.maxCuts, restarts : 0..config.maxRestarts]
        BY TypedFacts DEF TypeOK
  <2>2. faults'.restarts \in {faults.restarts, faults.restarts + 1}
    <3>1. CASE UNCHANGED faults
          BY <3>1
    <3>2. CASE Restart
          BY <2>1, <3>2 DEF Restart
    <3>3. CASE \E c \in Clients : Cut(c)
          BY <2>1, <3>3 DEF Cut
    <3>4. UNCHANGED faults \/ Restart \/ \E c \in Clients : Cut(c)
          BY DEF Next, PollStep, ClientStep, Write, Delete, PollBegins, PollReadsRows, PollReadsDeleted,
                 PollFails, PollApplies, WatchInitial, WatchSnapshot, SnapshotRead, ListStamps, ListReads,
                 Resume, Expire, ResumeFromDatabase, ResumeFromRows, ResumeFromTombstones, Prepend,
                 WatchRefused, Deliver, vars
    <3> QED BY <3>1, <3>2, <3>3, <3>4
  <2>3. faults'.restarts = 0 => faults.restarts = 0
        BY <2>1, <2>2
  <2>4. Versioned' <=> Versioned
        BY <1>3 DEF Versioned
  <2>5. Tombstones' = Tombstones
        BY <1>3 DEF Tombstones
  <2> QED BY <1>2, <1>3, <2>3, <2>4, <2>5 DEF RingSuffices
<1>5. RingOK
      BY <1>4 DEF RingInv
<1>6. ASSUME UNCHANGED <<rows, cache, client>> PROVE RingOK'
  <2>1. \A c \in Clients : ClientOK(cache, client'[c])
        BY <1>5, <1>6 DEF RingOK
  <2> QED BY <1>3, <1>5, <1>6, <2>1, RingStays
<1>7. CASE \E k \in Keys : Write(k) \/ Delete(k)
      BY <1>1, <1>5, <1>7, TableRing
<1>8. CASE PollApplies
      BY <1>1, <1>4, <1>5, <1>8, PollAppliesRing
<1>9. CASE \E c \in Clients : ClientStep(c)
      BY <1>4, <1>5, <1>9, ClientRing
<1>10. CASE Restart
      BY <1>2, <1>4, <1>5, <1>10, RestartRing
<1> QED BY <1>6, <1>7, <1>8, <1>9, <1>10, StepKinds DEF vars

\* What a client will hold, as the proofs have it.
LEMMA OutcomeView ==
    ASSUME TypeOK, NEW c \in Clients
    PROVE  Outcome(c) = View(client[c].store, client[c].queue, Len(client[c].queue))
<1>1. client[c].queue \in Seq(WatchEvent)
      BY ClientFacts
<1>2. DOMAIN client[c].queue = 1..Len(client[c].queue)
      BY <1>1, LenProperties
<1> QED BY <1>2 DEF Outcome, View, About

\* Converged, wherever the ring alone accounts for what a client missed: with no
\* tombstones configured, on a counter, or on a mapped version with a ring and no
\* restart (watch.go, record, replayable, missedSince and transition).  Polls may
\* come between a registration and its prepend; of a client whose initial events
\* were prepended behind one that run had taken, it says nothing.
THEOREM ClientsConverge == Spec => [](RingSuffices => Converged)
<1>1. Init => TypeOK /\ MarkInv /\ TableInv /\ CacheTracks /\ RingInv
      BY TypeInit, MarkInit, TableInit, RingInit
<1>2. TypeOK /\ MarkInv /\ TableInv /\ CacheTracks /\ RingInv /\ [Next]_vars
         => TypeOK' /\ MarkInv' /\ TableInv' /\ CacheTracks' /\ RingInv'
      BY TypeStep, MarkStep, TableStep, RingStep
<1>3. ASSUME TypeOK, RingInv, RingSuffices PROVE Converged
  <2> SUFFICES ASSUME CaughtUp, ~config.byListing, NEW c \in Clients, InOrder(c)
               PROVE  Outcome(c) = selected(rows)
      BY DEF Converged
  <2> DEFINE V == View(client[c].store, client[c].queue, Len(client[c].queue))
  <2>1. Follows(cache, client[c])
        BY <1>3 DEF RingInv, RingOK, ClientOK, InOrder
  <2>2. \A k \in Keys : V[k] = selected(cache.items)[k]
        BY <2>1 DEF Follows, Agrees
  <2>3. V = selected(cache.items)
        BY <2>2 DEF View, selected
  <2>4. cache.items = rows
        BY DEF CaughtUp
  <2> QED BY <1>3, <2>3, <2>4, OutcomeView
<1> QED BY <1>1, <1>2, <1>3, PTL DEF Spec

\* RowsArrive in the same configurations, the clients that list before they watch
\* included, those whose replay was overtaken again not (watch.go, Watch and
\* prepend; rest.go, List).
THEOREM ListedRowsArrive == Spec => [](RingSuffices => RowsArrive)
<1>1. Init => TypeOK /\ MarkInv /\ TableInv /\ CacheTracks /\ RingInv
      BY TypeInit, MarkInit, TableInit, RingInit
<1>2. TypeOK /\ MarkInv /\ TableInv /\ CacheTracks /\ RingInv /\ [Next]_vars
         => TypeOK' /\ MarkInv' /\ TableInv' /\ CacheTracks' /\ RingInv'
      BY TypeStep, MarkStep, TableStep, RingStep
<1>3. ASSUME TypeOK, RingInv, RingSuffices PROVE RowsArrive
  <2> SUFFICES ASSUME CaughtUp, NEW c \in Clients, NEW k \in Keys, InOrder(c), matches(rows[k])
               PROVE  Outcome(c)[k] = rows[k]
      BY DEF RowsArrive
  <2> DEFINE V == View(client[c].store, client[c].queue, Len(client[c].queue))
  <2>1. Follows(cache, client[c])
        BY <1>3 DEF RingInv, RingOK, ClientOK, InOrder
  <2>2. cache.items = rows
        BY DEF CaughtUp
  <2>3. Agrees(cache, k, V[k])
        BY <2>1 DEF Follows
  <2>4. V[k] = selected(rows)[k]
        BY <2>2, <2>3 DEF Agrees
  <2>5. selected(rows)[k] = rows[k]
        BY DEF selected
  <2>6. Outcome(c) = V
        BY <1>3, OutcomeView
  <2> QED BY <2>4, <2>5, <2>6
<1> QED BY <1>1, <1>2, <1>3, PTL DEF Spec
=============================================================================
