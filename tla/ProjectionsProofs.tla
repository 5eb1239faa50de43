------------------------- MODULE ProjectionsProofs -------------------------
(* Theorems about Projections, for every set of deployments, any number of   *)
(* replicas and group versions, and every finite set of projections.         *)
EXTENDS Projections, FiniteSetTheorems, WellFoundedInduction, TLAPS

-----------------------------------------------------------------------------
(* Claims can always be settled. *)

\* A set of natural numbers has a least one: the form of induction used below,
\* on the sizes of the sets that are counterexamples.
LEMMA LeastNumber ==
    ASSUME NEW T, T \subseteq Nat, T # {}
    PROVE  \E x \in T : \A y \in T : x <= y
<1> DEFINE R == OpToRel(<, Nat)
<1>1. IsWellFoundedOn(R, Nat)
      BY NatLessThanWellFounded
<1>2. \A x, y \in Nat : x < y => <<x, y>> \in R
      BY DEF OpToRel
<1> HIDE DEF R
<1>3. PICK x \in T : \A y \in T : ~(<<y, x>> \in R)
      BY <1>1, WFMin
<1>4. ASSUME NEW y \in T PROVE ~(y < x)
  <2>1. <<y, x>> \notin R
        BY <1>3
  <2>2. x \in Nat /\ y \in Nat
        OBVIOUS
  <2> QED BY <1>2, <2>1, <2>2, Zenon
<1>5. x \in Nat /\ \A y \in T : y \in Nat /\ ~(y < x)
      BY <1>4
<1> QED BY <1>5

\* Of a family of finite sets one has the least size.
LEMMA SmallestSet ==
    ASSUME NEW S, IsFiniteSet(S), NEW F, F \subseteq SUBSET S, F # {}
    PROVE  \E A \in F : \A B \in F : Cardinality(A) <= Cardinality(B)
<1> DEFINE T == {Cardinality(A) : A \in F}
<1>1. T \subseteq Nat /\ T # {}
      BY FS_Subset, FS_CardinalityType
<1>2. PICK n \in T : \A m \in T : n <= m
      BY <1>1, LeastNumber
<1> QED BY <1>2

LEMMA StrictSubset ==
    ASSUME NEW A, IsFiniteSet(A), NEW B, B \subseteq A, NEW x \in A, x \notin B
    PROVE  Cardinality(A) \in Nat /\ Cardinality(B) \in Nat /\ Cardinality(B) < Cardinality(A)
<1>1. IsFiniteSet(B) /\ Cardinality(B) \in Nat /\ Cardinality(A) \in Nat /\ Cardinality(B) <= Cardinality(A)
      BY FS_Subset, FS_CardinalityType
<1>2. Cardinality(B) # Cardinality(A)
      BY FS_Subset
<1> QED BY <1>1, <1>2

\* A finite set with a strict order has a last element.
LEMMA LastOne ==
    ASSUME NEW S, IsFiniteSet(S), S # {}, NEW D,
           \A x \in S : x \notin D[x],
           \A x, y, z \in S : y \in D[x] /\ z \in D[y] => z \in D[x]
    PROVE  \E x \in S : \A y \in S : y \notin D[x]
<1> DEFINE F == {A \in SUBSET S : A # {} /\ \A x \in A : \E y \in A : y \in D[x]}
<1>1. SUFFICES ASSUME F # {} PROVE FALSE
  <2>1. S \notin F => \E x \in S : \A y \in S : y \notin D[x]
        OBVIOUS
  <2> QED BY <1>1, <2>1
<1>2. PICK A \in F : \A B \in F : Cardinality(A) <= Cardinality(B)
  <2>1. F \subseteq SUBSET S
        OBVIOUS
  <2> HIDE DEF F
  <2> QED BY <1>1, <2>1, SmallestSet
<1>3. A \subseteq S /\ A # {} /\ \A x \in A : \E y \in A : y \in D[x]
      OBVIOUS
<1>4. PICK x \in A : TRUE
      BY <1>3
<1> DEFINE B == {y \in A : y \in D[x]}
<1>5. B # {} /\ B \subseteq A /\ x \notin B
      BY <1>3
<1>6. \A y \in B : \E z \in B : z \in D[y]
  <2> SUFFICES ASSUME NEW y \in B PROVE \E z \in B : z \in D[y]
      OBVIOUS
  <2>1. PICK z \in A : z \in D[y]
        BY <1>3
  <2> QED BY <1>3, <2>1
<1>7. B \in F
      BY <1>3, <1>5, <1>6
<1> HIDE DEF B, F
<1>8. IsFiniteSet(A)
      BY <1>3, FS_Subset
<1>9. Cardinality(A) \in Nat /\ Cardinality(B) \in Nat /\ Cardinality(B) < Cardinality(A)
      BY <1>5, <1>8, StrictSubset
<1> QED BY <1>2, <1>7, <1>9

\* resolveClaims ends, in what it says: whatever the order, as long as it is one,
\* each projection keeps its claims unless one ranked above it keeps one of them.
Settled(T, w, order, surv) ==
    \A n \in T : n \in w <=> ~\E m \in w \ {n} :
        n \in order[m] /\ surv[m].spec.claims \cap surv[n].spec.claims # {}

LEMMA WinnersSettle ==
    ASSUME NEW surv, NEW order,
           \A x \in Names : surv[x] # None => x \notin order[x],
           \A x, y, z \in Names : surv[x] # None /\ surv[y] # None /\ surv[z] # None =>
               (y \in order[x] /\ z \in order[y] => z \in order[x])
    PROVE  LET ns == {n \in Names : surv[n] # None} IN
           winners(order, surv) \subseteq ns /\ Settled(ns, winners(order, surv), order, surv)
<1> DEFINE ns == {n \in Names : surv[n] # None}
           F == {T \in SUBSET ns : ~\E w \in SUBSET T : Settled(T, w, order, surv)}
<1>1. IsFiniteSet(ns)
      BY ProjectionsAssumption, FS_Subset
<1>2. /\ \A x \in ns : x \notin order[x]
      /\ \A x, y, z \in ns : y \in order[x] /\ z \in order[y] => z \in order[x]
      OBVIOUS
<1>3. F = {}
  <2> SUFFICES ASSUME F # {} PROVE FALSE
      OBVIOUS
  <2> HIDE DEF ns
  <2>1. PICK T \in F : \A B \in F : Cardinality(T) <= Cardinality(B)
    <3>1. F \subseteq SUBSET ns
          OBVIOUS
    <3> HIDE DEF F
    <3> QED BY <1>1, <3>1, SmallestSet
  <2>2. T \subseteq ns /\ IsFiniteSet(T) /\ ~\E w \in SUBSET T : Settled(T, w, order, surv)
        BY <1>1, FS_Subset
  <2>3. T # {}
    <3> SUFFICES ASSUME T = {} PROVE FALSE
        OBVIOUS
    <3>1. Settled(T, {}, order, surv)
          BY DEF Settled
    <3> QED BY <2>2, <3>1
  <2>4. PICK z \in T : \A y \in T : y \notin order[z]
    <3>1. /\ \A x \in T : x \notin order[x]
          /\ \A x, y, u \in T : y \in order[x] /\ u \in order[y] => u \in order[x]
          BY <1>2, <2>2
    <3> QED BY <2>2, <2>3, <3>1, LastOne
  <2> DEFINE B == T \ {z}
  <2>5. B \subseteq ns /\ B \subseteq T /\ z \notin B
        BY <2>2
  <2>6. Cardinality(T) \in Nat /\ Cardinality(B) \in Nat /\ Cardinality(B) < Cardinality(T)
    <3> HIDE DEF B
    <3> QED BY <2>2, <2>5, StrictSubset
  <2>7. B \notin F
    <3> HIDE DEF B, F
    <3> QED BY <2>1, <2>6
  <2>8. PICK w \in SUBSET B : Settled(B, w, order, surv)
        BY <2>5, <2>7
  <2> DEFINE taken == \E m \in w : z \in order[m] /\ surv[m].spec.claims \cap surv[z].spec.claims # {}
             v == IF taken THEN w ELSE w \cup {z}
  <2>9. v \in SUBSET T
        OBVIOUS
  <2>10. Settled(T, v, order, surv)
    <3> SUFFICES ASSUME NEW n \in T
                 PROVE  n \in v <=> ~\E m \in v \ {n} :
                            n \in order[m] /\ surv[m].spec.claims \cap surv[n].spec.claims # {}
        BY DEF Settled
    <3>1. CASE n = z
      <4>1. v \ {z} = w
            BY <2>5
      <4>2. z \in v <=> ~taken
            BY <2>5
      <4> HIDE DEF v
      <4> QED BY <3>1, <4>1, <4>2
    <3>2. CASE n # z
      <4>1. n \in B /\ n \notin order[z]
            BY <2>4, <3>2
      <4>2. n \in w <=> ~\E m \in w \ {n} :
                n \in order[m] /\ surv[m].spec.claims \cap surv[n].spec.claims # {}
            BY <2>8, <4>1 DEF Settled
      <4>3. (n \in v <=> n \in w) /\ w \subseteq v /\ v \subseteq w \cup {z}
            BY <3>2
      <4> HIDE DEF v, B
      <4> QED BY <4>1, <4>2, <4>3
    <3> QED BY <3>1, <3>2
  <2> QED BY <2>2, <2>9, <2>10
<1>4. \E w \in SUBSET ns : Settled(ns, w, order, surv)
  <2> HIDE DEF ns
  <2> QED BY <1>3
<1>5. winners(order, surv) = CHOOSE w \in SUBSET ns : Settled(ns, w, order, surv)
      BY DEF winners, Settled
<1> HIDE DEF ns
<1>6. winners(order, surv) \in SUBSET ns /\ Settled(ns, winners(order, surv), order, surv)
      BY <1>4, <1>5
<1> QED BY <1>6 DEF ns

-----------------------------------------------------------------------------
(* Types, and what replicas hold of objects. *)

LEMMA NoneIsNothing ==
    /\ None \notin Specs /\ None \notin Object /\ None \notin Judgement /\ None \notin Memory
    /\ None \notin Candidate /\ None \notin Compilation
BY ProjectionsAssumption

LEMMA ConfigFacts ==
    ASSUME TypeOK
    PROVE  /\ config.names \subseteq Names /\ config.replicas \subseteq Replicas
           /\ config.specs \subseteq Specs /\ config.allowed \subseteq Groups /\ config.turns \in Nat
           /\ config.apiServices \in BOOLEAN
BY ProjectionsAssumption DEF TypeOK, Config

LEMMA ClusterFacts ==
    ASSUME TypeOK
    PROVE  /\ turns \in Nat /\ turns <= config.turns /\ creds \in Nat /\ creds <= turns
           /\ minted \in Nat
           /\ objects \in [Names -> Object \cup {None}] /\ files \in [Names -> Specs \cup {None}]
           /\ apis \in [Groups -> APIService] /\ rep \in [Replicas -> Replica]
           /\ \A n \in Names : objects[n] # None =>
                 /\ objects[n] \in Object /\ objects[n].uid \in Nat /\ objects[n].gen \in Nat
                 /\ objects[n].spec \in Specs /\ objects[n].status \in Status /\ objects[n].status.gen \in Nat
                 /\ objects[n].status.gen <= objects[n].gen /\ objects[n].uid \in 1..minted
<1>1. Cardinality(Names) \in Nat
      BY ProjectionsAssumption, FS_CardinalityType
<1>2. config.turns \in Nat
      BY ConfigFacts
<1>3. turns \in Nat /\ turns <= config.turns
      BY <1>2 DEF TypeOK
<1>4. ASSUME NEW n \in Names, objects[n] # None
      PROVE  /\ objects[n] \in Object /\ objects[n].uid \in Nat /\ objects[n].gen \in Nat
             /\ objects[n].spec \in Specs /\ objects[n].status \in Status /\ objects[n].status.gen \in Nat
  <2>1. objects[n] \in Object
        BY <1>4 DEF TypeOK
  <2>2. objects[n].status \in Status /\ objects[n].uid \in Nat /\ objects[n].gen \in Nat /\ objects[n].spec \in Specs
        BY <2>1 DEF Object
  <2> QED BY <2>1, <2>2 DEF Status
<1> QED BY <1>1, <1>3, <1>4 DEF TypeOK

LEMMA ReplicaFacts ==
    ASSUME TypeOK, NEW r \in Replicas
    PROVE  LET q == rep[r] IN
           /\ q \in Replica
           /\ q.lister \in [Names -> Object \cup {None}] /\ q.regs \in [Groups -> APIService]
           /\ q.seen \in Nat /\ q.queued \in BOOLEAN /\ q.recheck \in BOOLEAN
           /\ q.pc \in {"idle", "register", "status"}
           /\ q.compiled \in [Names -> Compilation \cup {None}] /\ q.failing \subseteq Names
           /\ q.last \in [Names -> Memory \cup {None}] /\ q.due \in [Names -> Judgement \cup {None}]
           /\ q.declared \subseteq Groups /\ q.unrouted \subseteq Groups
<1>1. rep[r] \in Replica
      BY DEF TypeOK
<1> QED BY <1>1 DEF Replica

\* What a replica's copies of objects are.
LEMMA CopyFacts ==
    ASSUME TypeOK, NEW r \in Replicas, NEW n \in Names
    PROVE  LET q == rep[r] IN
           /\ q.lister[n] # None =>
                 /\ q.lister[n] \in Object /\ q.lister[n].uid \in Nat /\ q.lister[n].gen \in Nat
                 /\ q.lister[n].spec \in Specs /\ q.lister[n].status \in Status
                 /\ q.lister[n].status.gen \in Nat
           /\ q.due[n] # None =>
                 /\ q.due[n] \in Judgement /\ q.due[n].verdict \in Verdicts /\ q.due[n].was \in Object
                 /\ q.due[n].was.uid \in Nat /\ q.due[n].was.gen \in Nat /\ q.due[n].was.spec \in Specs
                 /\ q.due[n].was.status \in Status /\ q.due[n].was.status.gen \in Nat
           /\ q.last[n] # None =>
                 /\ q.last[n] \in Memory /\ q.last[n].uid \in Nat /\ q.last[n].status \in Status
                 /\ q.last[n].status.gen \in Nat
           /\ q.compiled[n] # None =>
                 /\ q.compiled[n] \in Compilation /\ q.compiled[n].spec \in Specs
                 /\ q.compiled[n].spec.group \in Groups /\ q.compiled[n].file \in BOOLEAN
<1> DEFINE q == rep[r]
<1>0. \A s \in Specs : s.group \in Groups
      BY ProjectionsAssumption
<1>1. \A x \in Object : /\ x.uid \in Nat /\ x.gen \in Nat /\ x.spec \in Specs /\ x.status \in Status
                        /\ x.status.gen \in Nat
      BY DEF Object, Status
<1>2. \A x \in Judgement : x.verdict \in Verdicts /\ x.was \in Object
      BY DEF Judgement
<1>3. \A x \in Memory : x.uid \in Nat /\ x.status \in Status /\ x.status.gen \in Nat
      BY DEF Memory, Status
<1>4. \A x \in Compilation : x.spec \in Specs /\ x.file \in BOOLEAN
      BY DEF Compilation
<1>5. /\ q.lister[n] # None => q.lister[n] \in Object
      /\ q.due[n] # None => q.due[n] \in Judgement
      /\ q.last[n] # None => q.last[n] \in Memory
      /\ q.compiled[n] # None => q.compiled[n] \in Compilation
      BY ReplicaFacts
<1> HIDE DEF q
<1> QED BY <1>0, <1>1, <1>2, <1>3, <1>4, <1>5 DEF q

LEMMA NameOrderProperty ==
    /\ nameOrder \in [Names -> 1..Cardinality(Names)] /\ Cardinality(Names) \in Nat
    /\ \A m, n \in Names : m # n => nameOrder[m] # nameOrder[n]
<1> DEFINE c == Cardinality(Names)
           P(f) == \A m, n \in Names : m # n => f[m] # f[n]
<1>1. c \in Nat /\ ExistsBijection(1..c, Names)
      BY ProjectionsAssumption, FS_CardinalityType
<1> HIDE DEF c
<1>2. PICK g : g \in Bijection(1..c, Names)
      BY <1>1 DEF ExistsBijection
<1>3. g \in [1..c -> Names] /\ \A n \in Names : \E i \in 1..c : g[i] = n
      BY <1>2 DEF Bijection, Injection, Surjection
<1> DEFINE f == [n \in Names |-> CHOOSE i \in 1..c : g[i] = n]
<1>4. \A n \in Names : f[n] \in 1..c /\ g[f[n]] = n
      BY <1>3
<1>5. f \in [Names -> 1..c] /\ P(f)
  <2>1. f \in [Names -> 1..c]
        BY <1>4
  <2> HIDE DEF f
  <2> QED BY <1>4, <2>1
<1> HIDE DEF f
<1>6. nameOrder = CHOOSE h \in [Names -> 1..c] : P(h)
      BY DEF nameOrder, c
<1>7. nameOrder \in [Names -> 1..c] /\ P(nameOrder)
      BY <1>5, <1>6
<1> QED BY <1>1, <1>7 DEF c

\* A copy of an object, or a status remembered for one, is of the past: not newer
\* than the object, and the same specification at the same generation; and once a
\* status speaks of an object's generation, the object has one that does.
Copies(x, n) ==
    /\ x.uid \in 1..minted
    /\ objects[n] # None /\ x.uid = objects[n].uid =>
          /\ x.gen <= objects[n].gen
          /\ x.gen = objects[n].gen =>
                /\ x.spec = objects[n].spec
                /\ x.status.gen = x.gen => objects[n].status.gen = objects[n].gen
Remembers(x, n) ==
    /\ x.uid \in 1..minted
    /\ objects[n] # None /\ x.uid = objects[n].uid =>
          /\ x.status.gen <= objects[n].gen
          /\ x.status.gen = objects[n].gen => objects[n].status.gen = objects[n].gen

CopyOK(q) ==
    /\ q.seen <= creds
    /\ q.pc = "idle" => \A n \in Names : q.due[n] = None
    /\ \A n \in Names :
          /\ q.lister[n] # None => Copies(q.lister[n], n)
          /\ q.due[n] # None => Copies(q.due[n].was, n)
          /\ q.last[n] # None => Remembers(q.last[n], n)
          /\ q.pc = "register" /\ q.compiled[n] # None /\ ~q.compiled[n].file => q.due[n] # None
CopyInv == \A r \in Replicas : CopyOK(rep[r])

-----------------------------------------------------------------------------
(* What each step does to a replica. *)

SameNews(w, q) == w.lister = q.lister /\ w.regs = q.regs /\ w.seen = q.seen
SameWork(w, q) ==
    /\ w.pc = q.pc /\ w.compiled = q.compiled /\ w.failing = q.failing /\ w.last = q.last
    /\ w.due = q.due /\ w.declared = q.declared /\ w.unrouted = q.unrouted

LEMMA CandidateType ==
    ASSUME TypeOK, NEW r \in Replicas, NEW n \in Names
    PROVE  LET cand == candidate(rep[r], n) IN
           /\ cand # None => /\ cand \in Candidate /\ cand.spec \in Specs /\ cand.spec.group \in Groups
                             /\ cand.file \in BOOLEAN
           /\ cand = None <=> files[n] = None /\ rep[r].lister[n] = None
           /\ files[n] # None => cand # None /\ cand.spec = files[n] /\ cand.file = TRUE
           /\ files[n] = None /\ rep[r].lister[n] # None =>
                 cand # None /\ cand.spec = rep[r].lister[n].spec /\ cand.file = FALSE
<1> DEFINE cand == candidate(rep[r], n)
<1>1. \A s \in Specs : s.group \in Groups
      BY ProjectionsAssumption
<1>2. CASE files[n] # None
  <2>1. cand = [spec |-> files[n], file |-> TRUE] /\ files[n] \in Specs
        BY <1>2, ClusterFacts DEF candidate
  <2>2. cand \in Candidate
        BY <2>1 DEF Candidate
  <2>3. cand.spec = files[n] /\ cand.file = TRUE
        BY <2>1
  <2>4. cand # None
        BY <2>2, NoneIsNothing, Zenon
  <2> HIDE DEF cand
  <2> QED BY <1>1, <1>2, <2>1, <2>2, <2>3, <2>4 DEF cand
<1>3. CASE files[n] = None /\ rep[r].lister[n] # None
  <2>1. cand = [spec |-> rep[r].lister[n].spec, file |-> FALSE] /\ rep[r].lister[n].spec \in Specs
        BY <1>3, CopyFacts DEF candidate
  <2>2. cand \in Candidate
        BY <2>1 DEF Candidate
  <2>3. cand.spec = rep[r].lister[n].spec /\ cand.file = FALSE
        BY <2>1
  <2>4. cand # None
        BY <2>2, NoneIsNothing, Zenon
  <2> HIDE DEF cand
  <2> QED BY <1>1, <1>3, <2>1, <2>2, <2>3, <2>4 DEF cand
<1>4. CASE files[n] = None /\ rep[r].lister[n] = None
      BY <1>4 DEF candidate
<1> QED BY <1>2, <1>3, <1>4

\* What is served of a candidate: it as it is now, or if that fails what was.
LEMMA SurvivingType ==
    ASSUME TypeOK, NEW r \in Replicas, NEW broken
    PROVE  /\ surviving(rep[r], broken) \in [Names -> Compilation \cup {None}]
           /\ \A n \in Names :
                 LET cand == candidate(rep[r], n)
                     s == surviving(rep[r], broken)[n] IN
                 /\ s # None => cand # None /\ s.file = cand.file /\ cand.spec.group \in config.allowed
                 /\ s # None /\ n \notin broken =>
                       s = [spec |-> cand.spec, creds |-> creds, file |-> cand.file]
                 /\ s = None /\ n \notin broken => cand = None \/ cand.spec.group \notin config.allowed
<1> DEFINE q == rep[r]
           S == surviving(q, broken)
<1>1. ASSUME NEW n \in Names
      PROVE  LET cand == candidate(q, n)
                 s == S[n] IN
             /\ s \in Compilation \cup {None}
             /\ s # None => cand # None /\ s.file = cand.file /\ cand.spec.group \in config.allowed
             /\ s # None /\ n \notin broken =>
                   s = [spec |-> cand.spec, creds |-> creds, file |-> cand.file]
             /\ s = None /\ n \notin broken => cand = None \/ cand.spec.group \notin config.allowed
  <2> DEFINE cand == candidate(q, n)
  <2>1. S[n] = IF cand = None \/ (cand # None /\ cand.spec.group \notin config.allowed) THEN None
               ELSE IF n \notin broken
               THEN [spec |-> cand.spec, creds |-> creds, file |-> cand.file]
               ELSE IF q.compiled[n] # None /\ q.compiled[n].file = cand.file THEN q.compiled[n]
               ELSE None
        BY DEF surviving
  <2>2. cand # None => /\ cand.spec \in Specs /\ cand.file \in BOOLEAN
        BY CandidateType
  <2>3. q.compiled[n] # None => q.compiled[n] \in Compilation
        BY CopyFacts
  <2>4. creds \in Nat
        BY ClusterFacts
  <2>5. cand # None => [spec |-> cand.spec, creds |-> creds, file |-> cand.file] \in Compilation
        BY <2>2, <2>4 DEF Compilation
  <2> HIDE DEF cand, S, q
  <2> QED BY <2>1, <2>3, <2>5, NoneIsNothing DEF cand
<1>2. S = [n \in Names |-> S[n]]
      BY DEF surviving
<1> HIDE DEF S
<1>3. S \in [Names -> Compilation \cup {None}]
      BY <1>1, <1>2
<1> QED BY <1>1, <1>3 DEF S

LEMMA DeliverEffect ==
    ASSUME TypeOK, NEW r \in Replicas, NEW n \in Names, Deliver(r, n)
    PROVE  /\ UNCHANGED <<config, objects, files, creds, apis, minted, turns>>
           /\ \E w \in Replica :
                 /\ rep' = [rep EXCEPT ![r] = w] /\ SameWork(w, rep[r])
                 /\ w.regs = rep[r].regs /\ w.seen = rep[r].seen /\ w.recheck = rep[r].recheck
                 /\ w.lister = [rep[r].lister EXCEPT ![n] = objects[n]]
                 /\ w.queued = (rep[r].queued \/ wakes(rep[r].lister[n], objects[n]))
<1> DEFINE q == rep[r]
           l == [q.lister EXCEPT ![n] = objects[n]]
           b == q.queued \/ wakes(q.lister[n], objects[n])
           w == [q EXCEPT !.lister = l, !.queued = b]
<1>1. q \in Replica /\ q.lister \in [Names -> Object \cup {None}] /\ objects[n] \in Object \cup {None}
      /\ q.queued \in BOOLEAN
      BY ReplicaFacts, ClusterFacts
<1>2. rep' = [rep EXCEPT ![r] = w]
      BY ClusterFacts DEF Deliver
<1>3. l \in [Names -> Object \cup {None}] /\ b \in BOOLEAN
      BY <1>1
<1> HIDE DEF l, b, q
<1>4. /\ w \in Replica /\ SameWork(w, q) /\ w.regs = q.regs /\ w.seen = q.seen /\ w.recheck = q.recheck
      /\ w.lister = l /\ w.queued = b
      BY <1>1, <1>3 DEF Replica, SameWork
<1>5. UNCHANGED <<config, objects, files, creds, apis, minted, turns>>
      BY DEF Deliver, cluster
<1> QED BY <1>2, <1>4, <1>5 DEF l, b, q

LEMMA DeliverAPIServiceEffect ==
    ASSUME TypeOK, NEW r \in Replicas, NEW g \in Groups, DeliverAPIService(r, g)
    PROVE  /\ UNCHANGED <<config, objects, files, creds, apis, minted, turns>>
           /\ \E w \in Replica :
                 /\ rep' = [rep EXCEPT ![r] = w] /\ SameWork(w, rep[r])
                 /\ w.lister = rep[r].lister /\ w.seen = rep[r].seen /\ w.recheck = rep[r].recheck
                 /\ w.regs = [rep[r].regs EXCEPT ![g] = apis[g]]
                 /\ w.queued = (rep[r].queued \/ ~sameRegistration(rep[r].regs[g], apis[g]))
<1> DEFINE q == rep[r]
           l == [q.regs EXCEPT ![g] = apis[g]]
           b == q.queued \/ ~sameRegistration(q.regs[g], apis[g])
           w == [q EXCEPT !.regs = l, !.queued = b]
<1>1. q \in Replica /\ q.regs \in [Groups -> APIService] /\ apis[g] \in APIService
      /\ q.queued \in BOOLEAN
      BY ReplicaFacts, ClusterFacts
<1>2. rep' = [rep EXCEPT ![r] = w]
      BY ClusterFacts DEF DeliverAPIService
<1>3. l \in [Groups -> APIService] /\ b \in BOOLEAN
      BY <1>1
<1> HIDE DEF l, b, q
<1>4. /\ w \in Replica /\ SameWork(w, q) /\ w.lister = q.lister /\ w.seen = q.seen /\ w.recheck = q.recheck
      /\ w.regs = l /\ w.queued = b
      BY <1>1, <1>3 DEF Replica, SameWork
<1>5. UNCHANGED <<config, objects, files, creds, apis, minted, turns>>
      BY DEF DeliverAPIService, cluster
<1> QED BY <1>2, <1>4, <1>5 DEF l, b, q

\* News of a Secret, and the delayed sync.
LEMMA WakeEffect ==
    ASSUME TypeOK, NEW r \in Replicas, DeliverSecret(r) \/ Recheck(r)
    PROVE  /\ UNCHANGED <<config, objects, files, creds, apis, minted, turns>>
           /\ \E w \in Replica :
                 /\ rep' = [rep EXCEPT ![r] = w] /\ SameWork(w, rep[r])
                 /\ w.lister = rep[r].lister /\ w.regs = rep[r].regs
                 /\ w.seen \in {rep[r].seen, creds} /\ w.queued = TRUE
<1> DEFINE q == rep[r]
<1>1. q \in Replica /\ creds \in Nat
      BY ReplicaFacts, ClusterFacts
<1>2. UNCHANGED <<config, objects, files, creds, apis, minted, turns>>
      BY DEF DeliverSecret, Recheck, cluster
<1>3. CASE DeliverSecret(r)
  <2> DEFINE w == [q EXCEPT !.seen = creds, !.queued = TRUE]
  <2>1. rep' = [rep EXCEPT ![r] = w]
        BY <1>3, ClusterFacts DEF DeliverSecret
  <2> HIDE DEF q
  <2>2. /\ w \in Replica /\ SameWork(w, q) /\ w.lister = q.lister /\ w.regs = q.regs
        /\ w.seen = creds /\ w.queued = TRUE
        BY <1>1 DEF Replica, SameWork
  <2> QED BY <1>2, <2>1, <2>2 DEF q
<1>4. CASE Recheck(r)
  <2> DEFINE w == [q EXCEPT !.recheck = FALSE, !.queued = TRUE]
  <2>1. rep' = [rep EXCEPT ![r] = w]
        BY <1>4, ClusterFacts DEF Recheck
  <2> HIDE DEF q
  <2>2. /\ w \in Replica /\ SameWork(w, q) /\ w.lister = q.lister /\ w.regs = q.regs
        /\ w.seen = q.seen /\ w.queued = TRUE
        BY <1>1 DEF Replica, SameWork
  <2> QED BY <1>2, <2>1, <2>2 DEF q
<1> QED BY <1>3, <1>4

LEMMA StartedFacts ==
    ASSUME objects \in [Names -> Object \cup {None}], apis \in [Groups -> APIService], creds \in Nat
    PROVE  /\ Started \in Replica /\ Started.lister = objects /\ Started.regs = apis /\ Started.seen = creds
           /\ Started.queued = TRUE /\ Started.pc = "idle" /\ Started.failing = {}
           /\ \A n \in Names : /\ Started.compiled[n] = None /\ Started.last[n] = None
                               /\ Started.due[n] = None
BY DEF Started, Replica

\* What a sync compiles, judges and counts as declared.
Compiles(q, broken) ==
    [n \in Names |-> IF n \in winners(below(q), surviving(q, broken)) THEN surviving(q, broken)[n] ELSE None]
Judges(q, broken) ==
    [n \in Names |-> IF q.lister[n] = None THEN None
        ELSE [was |-> q.lister[n],
              verdict |-> verdict(n, broken, surviving(q, broken), winners(below(q), surviving(q, broken)))]]

InstallsAs(r, broken, w) ==
    /\ rep' = [rep EXCEPT ![r] = w] /\ SameNews(w, rep[r])
    /\ w.recheck = rep[r].recheck /\ w.unrouted = rep[r].unrouted
    /\ w.pc = (IF config.apiServices THEN "register" ELSE "status")
    /\ w.queued = FALSE /\ w.failing = broken
    /\ w.compiled = Compiles(rep[r], broken) /\ w.due = Judges(rep[r], broken)
    /\ w.declared = declaredGroupVersions(rep[r])
    /\ w.last = [n \in Names |-> IF rep[r].lister[n] = None THEN None ELSE rep[r].last[n]]

LEMMA InstallEffect ==
    ASSUME TypeOK, NEW r \in Replicas, NEW broken \in SUBSET Names, SyncInstalls(r, broken)
    PROVE  /\ UNCHANGED <<config, objects, files, creds, apis, minted>>
           /\ turns' \in Nat /\ turns <= turns' /\ turns' <= config.turns
           /\ rep[r].pc = "idle" /\ rep[r].queued
           /\ \E w \in Replica : InstallsAs(r, broken, w)
<1> DEFINE q == rep[r]
           c == Compiles(q, broken)
           d == Judges(q, broken)
           e == declaredGroupVersions(q)
           l == [n \in Names |-> IF q.lister[n] = None THEN None ELSE q.last[n]]
           p == IF config.apiServices THEN "register" ELSE "status"
           w == [q EXCEPT !.pc = p, !.queued = FALSE, !.failing = broken, !.compiled = c,
                          !.declared = e, !.last = l, !.due = d]
<1>1. /\ q \in Replica /\ q.lister \in [Names -> Object \cup {None}]
      /\ q.last \in [Names -> Memory \cup {None}]
      BY ReplicaFacts
<1>2. rep' = [rep EXCEPT ![r] = w]
      BY ClusterFacts DEF SyncInstalls, Compiles, Judges, declaredGroupVersions
<1>3. c \in [Names -> Compilation \cup {None}]
      BY SurvivingType DEF Compiles
<1>4. d \in [Names -> Judgement \cup {None}]
  <2>1. \A n \in Names : \A s, v : verdict(n, broken, s, v) \in Verdicts
        BY DEF verdict, Verdicts
  <2>2. \A n \in Names : \A s, v : q.lister[n] # None =>
            [was |-> q.lister[n], verdict |-> verdict(n, broken, s, v)] \in Judgement
        BY <1>1, <2>1 DEF Judgement
  <2> QED BY <2>2 DEF Judges
<1>5. e \in SUBSET Groups
      BY ConfigFacts DEF declaredGroupVersions
<1>6. l \in [Names -> Memory \cup {None}]
      BY <1>1
<1>7. p \in {"idle", "register", "status"}
      OBVIOUS
<1>8. UNCHANGED <<config, objects, files, creds, apis, minted>> /\ q.pc = "idle" /\ q.queued
      BY DEF SyncInstalls, cluster
<1>9. turns' \in Nat /\ turns <= turns' /\ turns' <= config.turns
      BY ClusterFacts, ConfigFacts DEF SyncInstalls, Turn
<1> HIDE DEF c, d, e, l, q, p
<1>10. /\ w \in Replica /\ SameNews(w, q) /\ w.recheck = q.recheck /\ w.unrouted = q.unrouted
       /\ w.pc = p /\ w.queued = FALSE /\ w.failing = broken /\ w.compiled = c /\ w.due = d
       /\ w.declared = e /\ w.last = l
      BY <1>1, <1>3, <1>4, <1>5, <1>6, <1>7 DEF Replica, SameNews
<1>11. InstallsAs(r, broken, w)
      BY <1>2, <1>10 DEF InstallsAs, c, d, e, l, q, p
<1> QED BY <1>8, <1>9, <1>10, <1>11 DEF q

LEMMA RegisterEffect ==
    ASSUME TypeOK, NEW r \in Replicas, SyncRegisters(r)
    PROVE  /\ UNCHANGED <<config, objects, files, creds, minted, turns>>
           /\ rep[r].pc = "register"
           /\ apis' = [g \in Groups |-> CASE g \in wanted(rep[r]) -> ensured(rep[r], g)
                                          [] prunes(rep[r], g) -> Absent
                                          [] OTHER -> apis[g]]
           /\ \E w \in Replica :
                 /\ rep' = [rep EXCEPT ![r] = w] /\ SameNews(w, rep[r])
                 /\ w.queued = rep[r].queued /\ w.pc = "status" /\ w.compiled = rep[r].compiled
                 /\ w.failing = rep[r].failing /\ w.last = rep[r].last /\ w.due = rep[r].due
                 /\ w.declared = rep[r].declared
                 /\ w.recheck = \E g \in wanted(rep[r]) : unroutable(rep[r], g) \/ pending(rep[r], g)
<1> DEFINE q == rep[r]
           u == {g \in wanted(q) : unroutable(q, g)}
           b == \E g \in wanted(q) : unroutable(q, g) \/ pending(q, g)
           w == [q EXCEPT !.pc = "status", !.unrouted = u, !.recheck = b]
<1>1. q \in Replica
      BY ReplicaFacts
<1>2. rep' = [rep EXCEPT ![r] = w]
      BY ClusterFacts DEF SyncRegisters
<1>3. u \in SUBSET Groups
      BY CopyFacts DEF wanted
<1>4. b \in BOOLEAN
      OBVIOUS
<1>5. /\ UNCHANGED <<config, objects, files, creds, minted, turns>> /\ q.pc = "register"
      /\ apis' = [g \in Groups |-> CASE g \in wanted(q) -> ensured(q, g)
                                     [] prunes(q, g) -> Absent
                                     [] OTHER -> apis[g]]
      BY DEF SyncRegisters
<1> HIDE DEF u, b, q
<1>6. /\ w \in Replica /\ SameNews(w, q) /\ w.queued = q.queued /\ w.pc = "status"
      /\ w.compiled = q.compiled /\ w.failing = q.failing /\ w.last = q.last /\ w.due = q.due
      /\ w.declared = q.declared /\ w.recheck = b
      BY <1>1, <1>3, <1>4 DEF Replica, SameNews
<1> QED BY <1>2, <1>5, <1>6 DEF q, b

LEMMA EndEffect ==
    ASSUME TypeOK, NEW r \in Replicas, SyncEnds(r)
    PROVE  /\ UNCHANGED <<config, objects, files, creds, apis, minted, turns>>
           /\ rep[r].pc = "status" /\ \A n \in Names : rep[r].due[n] = None
           /\ \E w \in Replica :
                 /\ rep' = [rep EXCEPT ![r] = w] /\ SameNews(w, rep[r])
                 /\ w.queued = rep[r].queued /\ w.recheck = rep[r].recheck /\ w.pc = "idle"
                 /\ w.compiled = rep[r].compiled /\ w.failing = rep[r].failing
                 /\ w.last = rep[r].last /\ w.due = rep[r].due
<1> DEFINE q == rep[r]
           w == [q EXCEPT !.pc = "idle", !.declared = {}, !.unrouted = {}]
<1>1. q \in Replica
      BY ReplicaFacts
<1>2. rep' = [rep EXCEPT ![r] = w]
      BY ClusterFacts DEF SyncEnds
<1>3. /\ UNCHANGED <<config, objects, files, creds, apis, minted, turns>>
      /\ q.pc = "status" /\ \A n \in Names : q.due[n] = None
      BY DEF SyncEnds, cluster
<1> HIDE DEF q
<1>4. /\ w \in Replica /\ SameNews(w, q) /\ w.queued = q.queued /\ w.recheck = q.recheck
      /\ w.pc = "idle" /\ w.compiled = q.compiled /\ w.failing = q.failing /\ w.last = q.last
      /\ w.due = q.due
      BY <1>1 DEF Replica, SameNews
<1> QED BY <1>2, <1>3, <1>4 DEF q

\* The ways a report on an object goes: the status is written, or the object has
\* moved on or is gone, or the write is skipped, or it fails.
Remembered(q, n) == [status |-> judged(q, n), uid |-> q.due[n].was.uid]
Written(q, n, l, o) ==
    /\ objects[n] # None /\ objects[n].gen = q.due[n].was.gen
    /\ l = Remembered(q, n) /\ o = [objects[n] EXCEPT !.status = judged(q, n)]
Late(q, n, l, o) ==
    /\ objects[n] # None /\ objects[n].gen # q.due[n].was.gen
    /\ l = Remembered(q, n) /\ o = objects[n]
Gone(q, n, l, o) == objects[n] = None /\ l = q.last[n] /\ o = objects[n]
SkippedListed(q, n, l, o) ==
    /\ q.last[n] = None /\ q.due[n].was.status = judged(q, n)
    /\ l = Remembered(q, n) /\ o = objects[n]
Skipped(q, n, l, o) ==
    /\ q.last[n] # None /\ q.last[n].status = judged(q, n)
    /\ l = q.last[n] /\ o = objects[n]
Told(q, n, l, o) ==
    \/ Written(q, n, l, o) \/ Late(q, n, l, o) \/ Gone(q, n, l, o)
    \/ SkippedListed(q, n, l, o) \/ Skipped(q, n, l, o)

LEMMA JudgedType ==
    ASSUME TypeOK, NEW r \in Replicas, NEW n \in Names, rep[r].due[n] # None
    PROVE  LET q == rep[r] IN
           /\ judged(q, n) \in Status /\ judged(q, n).gen = q.due[n].was.gen
           /\ judged(q, n).verdict = q.due[n].verdict
           /\ Remembered(q, n) \in Memory /\ Remembered(q, n).status = judged(q, n)
           /\ Remembered(q, n).uid = q.due[n].was.uid
<1> DEFINE q == rep[r]
           d == q.due[n]
           b == (d.verdict = "serving" => d.was.spec.group \notin q.unrouted)
<1>1. d.verdict \in Verdicts /\ d.was.gen \in Nat /\ d.was.uid \in Nat
      BY CopyFacts
<1>2. judged(q, n) = [gen |-> d.was.gen, verdict |-> d.verdict, routed |-> b] /\ b \in BOOLEAN
      BY DEF judged
<1> HIDE DEF d, b, q
<1>3. judged(q, n) \in Status /\ judged(q, n).gen = d.was.gen /\ judged(q, n).verdict = d.verdict
      BY <1>1, <1>2 DEF Status
<1>4. Remembered(q, n) = [status |-> judged(q, n), uid |-> d.was.uid]
      BY DEF Remembered, d
<1>5. /\ Remembered(q, n) \in Memory /\ Remembered(q, n).status = judged(q, n)
      /\ Remembered(q, n).uid = d.was.uid
      BY <1>1, <1>3, <1>4 DEF Memory
<1> QED BY <1>3, <1>5 DEF d, q

LEMMA StatusAfterTold ==
    ASSUME NEW q, NEW n
    PROVE  Told(q, n, statusAfter(q, n).last, statusAfter(q, n).object)
<1> DEFINE st == judged(q, n)
           un == statusUnchanged(q, n, st)
           me == Remembered(q, n)
           a == statusAfter(q, n)
<1>1. a = CASE un -> [last |-> IF q.last[n] # None THEN q.last[n] ELSE me, object |-> objects[n]]
            [] ~un /\ objects[n] = None -> [last |-> q.last[n], object |-> None]
            [] ~un /\ objects[n] # None ->
                   [last |-> me, object |-> IF objects[n].gen = q.due[n].was.gen
                                            THEN [objects[n] EXCEPT !.status = st] ELSE objects[n]]
      BY DEF statusAfter, Remembered
<1>2. un <=> st = IF q.last[n] # None THEN q.last[n].status ELSE q.due[n].was.status
      BY DEF statusUnchanged
<1> HIDE DEF un, me, st, a
<1>3. CASE un
  <2>1. a.last = (IF q.last[n] # None THEN q.last[n] ELSE me) /\ a.object = objects[n]
        BY <1>1, <1>3
  <2> QED BY <1>2, <1>3, <2>1 DEF Told, Skipped, SkippedListed, st, me, a
<1>4. CASE ~un /\ objects[n] = None
  <2>1. a.last = q.last[n] /\ a.object = None
        BY <1>1, <1>4
  <2> QED BY <1>4, <2>1 DEF Told, Gone, a
<1>5. CASE ~un /\ objects[n] # None
  <2>1. /\ a.last = me
        /\ a.object = IF objects[n].gen = q.due[n].was.gen
                      THEN [objects[n] EXCEPT !.status = st] ELSE objects[n]
        BY <1>1, <1>5
  <2>2. CASE objects[n].gen = q.due[n].was.gen
        BY <1>5, <2>1, <2>2 DEF Told, Written, st, me, a
  <2>3. CASE objects[n].gen # q.due[n].was.gen
        BY <1>5, <2>1, <2>3 DEF Told, Late, st, me, a
  <2> QED BY <2>2, <2>3
<1> QED BY <1>3, <1>4, <1>5

LEMMA ToldType ==
    ASSUME TypeOK, NEW r \in Replicas, NEW n \in Names, rep[r].due[n] # None,
           NEW l, NEW o, Told(rep[r], n, l, o) \/ (l = rep[r].last[n] /\ o = objects[n])
    PROVE  l \in Memory \cup {None} /\ o \in Object \cup {None}
<1> DEFINE q == rep[r]
<1>1. /\ Remembered(q, n) \in Memory /\ judged(q, n) \in Status
      /\ q.last[n] \in Memory \cup {None} /\ objects[n] \in Object \cup {None}
      BY JudgedType, ReplicaFacts, ClusterFacts
<1>2. objects[n] # None => [objects[n] EXCEPT !.status = judged(q, n)] \in Object
      BY <1>1 DEF Object
<1> HIDE DEF q
<1> QED BY <1>1, <1>2 DEF Told, Written, Late, Gone, Skipped, SkippedListed, q

ReportsAs(r, n, w, o) ==
    /\ rep' = [rep EXCEPT ![r] = w] /\ objects' = [objects EXCEPT ![n] = o]
    /\ SameNews(w, rep[r]) /\ w.queued = rep[r].queued /\ w.recheck = rep[r].recheck
    /\ w.pc = rep[r].pc /\ w.compiled = rep[r].compiled
    /\ w.due = [rep[r].due EXCEPT ![n] = None]
    /\ w.last = [rep[r].last EXCEPT ![n] = w.last[n]]
    /\ \/ Told(rep[r], n, w.last[n], o) /\ w.failing = rep[r].failing
       \/ w.last[n] = rep[r].last[n] /\ o = objects[n] /\ w.failing = rep[r].failing \cup {n}

LEMMA ReportEffect ==
    ASSUME TypeOK, NEW r \in Replicas, NEW n \in Names, SyncReports(r, n) \/ SyncReportFails(r, n)
    PROVE  /\ UNCHANGED <<config, files, creds, apis, minted>>
           /\ turns' \in Nat /\ turns <= turns' /\ turns' <= config.turns
           /\ rep[r].pc = "status" /\ rep[r].due[n] # None
           /\ \E w \in Replica, o \in Object \cup {None} : ReportsAs(r, n, w, o)
<1> DEFINE q == rep[r]
           Effect(l, o, f) == LET w == [q EXCEPT !.due = [q.due EXCEPT ![n] = None],
                                                 !.last = [q.last EXCEPT ![n] = l],
                                                 !.failing = f] IN
              rep' = [rep EXCEPT ![r] = w] /\ objects' = [objects EXCEPT ![n] = o]
           Outcome(w, l, o, f) ==
              /\ rep' = [rep EXCEPT ![r] = w] /\ objects' = [objects EXCEPT ![n] = o]
              /\ SameNews(w, q) /\ w.queued = q.queued /\ w.recheck = q.recheck
              /\ w.pc = q.pc /\ w.compiled = q.compiled
              /\ w.due = [q.due EXCEPT ![n] = None] /\ w.last = [q.last EXCEPT ![n] = w.last[n]]
              /\ w.last[n] = l /\ w.failing = f
<1>1. /\ q \in Replica /\ q.due \in [Names -> Judgement \cup {None}] /\ q.failing \subseteq Names
      /\ q.last \in [Names -> Memory \cup {None}]
      BY ReplicaFacts
<1>2. ASSUME NEW a, NEW f, Reports(r, n, a, f)
      PROVE  /\ UNCHANGED <<config, files, creds, apis, minted>> /\ q.pc = "status" /\ q.due[n] # None
             /\ Effect(a.last, a.object, q.failing \cup f)
      BY <1>2, ClusterFacts DEF Reports
<1>3. turns' \in Nat /\ turns <= turns' /\ turns' <= config.turns
      BY ClusterFacts, ConfigFacts DEF SyncReports, SyncReportFails, Turn
<1>4. ASSUME NEW l, NEW o, NEW f \in SUBSET Names, Effect(l, o, f),
             l \in Memory \cup {None}, o \in Object \cup {None}
      PROVE  \E w \in Replica : Outcome(w, l, o, f)
  <2> DEFINE d == [q.due EXCEPT ![n] = None]
             k == [q.last EXCEPT ![n] = l]
             w == [q EXCEPT !.due = d, !.last = k, !.failing = f]
  <2>1. d \in [Names -> Judgement \cup {None}] /\ k \in [Names -> Memory \cup {None}] /\ k[n] = l
        BY <1>1, <1>4
  <2>2. rep' = [rep EXCEPT ![r] = w] /\ objects' = [objects EXCEPT ![n] = o]
        BY <1>4
  <2> HIDE DEF d, k, q
  <2>3. /\ w \in Replica /\ SameNews(w, q) /\ w.queued = q.queued /\ w.recheck = q.recheck
        /\ w.pc = q.pc /\ w.compiled = q.compiled /\ w.due = d /\ w.last = k /\ w.failing = f
        BY <1>1, <2>1 DEF Replica, SameNews
  <2> QED BY <2>1, <2>2, <2>3 DEF d, k
<1>5. CASE SyncReports(r, n)
  <2> DEFINE a == statusAfter(q, n)
  <2>1. /\ UNCHANGED <<config, files, creds, apis, minted>> /\ q.pc = "status" /\ q.due[n] # None
        /\ Effect(a.last, a.object, q.failing)
    <3>1. Reports(r, n, a, {}) /\ q.failing \cup {} = q.failing
          BY <1>5 DEF SyncReports
    <3> HIDE DEF a, Effect, q
    <3> QED BY <1>2, <3>1
  <2>2. Told(q, n, a.last, a.object)
        BY StatusAfterTold
  <2> HIDE DEF a, Effect, Outcome
  <2>3. a.last \in Memory \cup {None} /\ a.object \in Object \cup {None}
        BY <2>1, <2>2, ToldType
  <2>4. q.failing \in SUBSET Names
        BY <1>1
  <2>5. PICK w \in Replica : Outcome(w, a.last, a.object, q.failing)
        BY <1>4, <2>1, <2>3, <2>4
  <2>6. ReportsAs(r, n, w, a.object)
        BY <2>2, <2>5 DEF Outcome, ReportsAs
  <2> QED BY <1>3, <2>1, <2>3, <2>5, <2>6
<1>6. CASE SyncReportFails(r, n)
  <2> DEFINE a == [last |-> q.last[n], object |-> objects[n]]
  <2>1. /\ UNCHANGED <<config, files, creds, apis, minted>> /\ q.pc = "status" /\ q.due[n] # None
        /\ Effect(a.last, a.object, q.failing \cup {n})
    <3>1. Reports(r, n, a, {n})
          BY <1>6 DEF SyncReportFails
    <3> HIDE DEF a, Effect, q
    <3> QED BY <1>2, <3>1
  <2>2. a.last = q.last[n] /\ a.object = objects[n]
        OBVIOUS
  <2> HIDE DEF a, Effect, Outcome
  <2>3. a.last \in Memory \cup {None} /\ a.object \in Object \cup {None}
        BY <2>1, <2>2, ToldType
  <2>4. q.failing \cup {n} \in SUBSET Names
        BY <1>1
  <2>5. PICK w \in Replica : Outcome(w, a.last, a.object, q.failing \cup {n})
        BY <1>4, <2>1, <2>3, <2>4
  <2>6. ReportsAs(r, n, w, a.object)
        BY <2>2, <2>5 DEF Outcome, ReportsAs
  <2> QED BY <1>3, <2>1, <2>3, <2>5, <2>6
<1> QED BY <1>5, <1>6

LEMMA FileEffect ==
    ASSUME TypeOK, NEW n \in Names, NEW s \in config.specs \cup {None}, FileChanges(n, s)
    PROVE  /\ UNCHANGED <<config, objects, creds, apis, minted>>
           /\ files' \in [Names -> Specs \cup {None}] /\ turns' = turns + 1 /\ turns < config.turns
           /\ rep' \in [Replicas -> Replica]
           /\ \A r \in Replicas : /\ SameNews(rep'[r], rep[r]) /\ SameWork(rep'[r], rep[r])
                                  /\ rep'[r].queued = TRUE /\ rep'[r].recheck = rep[r].recheck
<1>1. /\ UNCHANGED <<config, objects, creds, apis, minted>>
      /\ files' \in [Names -> Specs \cup {None}] /\ turns' = turns + 1 /\ turns < config.turns
      BY ClusterFacts, ConfigFacts DEF FileChanges, Turn
<1>2. rep' = [r \in Replicas |-> [rep[r] EXCEPT !.queued = TRUE]]
      BY DEF FileChanges
<1>3. \A q \in Replica : LET w == [q EXCEPT !.queued = TRUE] IN
          w \in Replica /\ SameNews(w, q) /\ SameWork(w, q) /\ w.queued = TRUE /\ w.recheck = q.recheck
      BY DEF Replica, SameNews, SameWork
<1>4. \A r \in Replicas : rep[r] \in Replica
      BY ReplicaFacts
<1> QED BY <1>1, <1>2, <1>3, <1>4

-----------------------------------------------------------------------------
(* Types are kept. *)

LEMMA OwnersType ==
    ASSUME TypeOK, CopyInv, NEW r \in Replicas, rep[r].pc = "register", NEW g
    PROVE  owners(rep[r], g) \subseteq 1..minted
<1> DEFINE q == rep[r]
           ns == {n \in Names : q.compiled[n] # None /\ q.compiled[n].spec.group = g}
<1>1. owners(q, g) = IF \E n \in ns : q.compiled[n].file THEN {} ELSE {q.due[n].was.uid : n \in ns}
      BY DEF owners
<1>2. ASSUME NEW n \in ns, ~q.compiled[n].file PROVE q.due[n].was.uid \in 1..minted
  <2>1. n \in Names /\ CopyOK(q) /\ q.compiled[n] # None
        BY DEF CopyInv
  <2>2. q.due[n] # None
        BY <1>2, <2>1 DEF CopyOK
  <2>3. Copies(q.due[n].was, n)
        BY <2>1, <2>2 DEF CopyOK
  <2> QED BY <2>3 DEF Copies
<1> HIDE DEF ns, q
<1> QED BY <1>1, <1>2 DEF q

LEMMA RegisteredType ==
    ASSUME TypeOK, CopyInv, NEW r \in Replicas, SyncRegisters(r)
    PROVE  apis' \in [Groups -> APIService] /\ \A g \in Groups : apis'[g].owners \subseteq 1..minted
<1> DEFINE q == rep[r]
           A == {a \in APIService : a.owners \subseteq 1..minted}
<1>1. minted \in Nat /\ apis \in [Groups -> A]
      BY ClusterFacts DEF TypeOK
<1>2. apis' = [g \in Groups |-> CASE g \in wanted(q) -> ensured(q, g)
                                  [] prunes(q, g) -> Absent
                                  [] OTHER -> apis[g]]
      BY DEF SyncRegisters
<1>3. Absent \in A
      BY DEF Absent, Registration, APIService
<1>4. ASSUME NEW g \in Groups PROVE ensured(q, g) \in A
  <2> DEFINE o == owners(q, g)
  <2>1. o \subseteq 1..minted /\ o \subseteq Nat
    <3>1. q.pc = "register"
          BY DEF SyncRegisters
    <3>2. o \subseteq 1..minted
          BY <3>1, OwnersType
    <3> HIDE DEF o
    <3> QED BY <1>1, <3>2
  <2>2. apis[g] \in A
        BY <1>1
  <2>3. ensured(q, g) \in {[route |-> "ours", available |-> "pending", owners |-> o],
                           [apis[g] EXCEPT !.owners = o], apis[g]}
    <3>1. desired(q, g) = [route |-> "ours", available |-> "pending", owners |-> o]
          BY DEF desired, Registration
    <3>2. desired(q, g).owners = o
          BY <3>1
    <3> HIDE DEF o
    <3> QED BY <3>1, <3>2 DEF ensured
  <2> HIDE DEF o
  <2>4. [route |-> "ours", available |-> "pending", owners |-> o] \in A
        BY <2>1 DEF APIService
  <2>5. [apis[g] EXCEPT !.owners = o] \in A
        BY <2>1, <2>2 DEF APIService
  <2> HIDE DEF A
  <2> QED BY <2>2, <2>3, <2>4, <2>5
<1>5. apis' \in [Groups -> A]
  <2> HIDE DEF A, q
  <2> QED BY <1>1, <1>2, <1>3, <1>4
<1> QED BY <1>5

\* A step that only moves one replica keeps the types.
LEMMA TypeReplica ==
    ASSUME TypeOK, UNCHANGED <<config, objects, files, creds, apis, minted>>,
           turns' \in Nat, turns <= turns', turns' <= config.turns,
           NEW r \in Replicas, NEW w \in Replica, rep' = [rep EXCEPT ![r] = w]
    PROVE  TypeOK'
<1>1. rep' \in [Replicas -> Replica]
      BY ClusterFacts
<1>2. Cardinality(Names) \in Nat /\ config.turns \in Nat /\ turns \in Nat
      BY NameOrderProperty, ConfigFacts, ClusterFacts
<1>3. /\ config \in Configs /\ objects \in [Names -> Object \cup {None}]
      /\ \A n \in Names : objects[n] # None =>
             objects[n].status.gen <= objects[n].gen /\ objects[n].uid \in 1..minted
      /\ files \in [Names -> Specs \cup {None}] /\ apis \in [Groups -> APIService]
      /\ \A g \in Groups : apis[g].owners \subseteq 1..minted
      BY DEF TypeOK
<1>4. turns' \in 0..config.turns /\ creds \in 0..turns'
      /\ minted \in Cardinality(Names)..(Cardinality(Names) + turns')
      BY <1>2 DEF TypeOK
<1> QED BY <1>1, <1>3, <1>4 DEF TypeOK

\* A step of others, or a report, that only changes what is stored.
LEMMA TypeStored ==
    ASSUME TypeOK, UNCHANGED config, rep' \in [Replicas -> Replica],
           turns' \in Nat, turns' <= config.turns, creds' \in 0..turns', minted <= minted',
           minted' \in Cardinality(Names)..(Cardinality(Names) + turns'),
           objects' \in [Names -> Object \cup {None}], files' \in [Names -> Specs \cup {None}],
           \A n \in Names : objects'[n] # None =>
               objects'[n].status.gen <= objects'[n].gen /\ objects'[n].uid \in 1..minted',
           apis' \in [Groups -> APIService],
           \A g \in Groups : apis'[g].owners \subseteq 1..minted
    PROVE  TypeOK'
<1>1. /\ Cardinality(Names) \in Nat /\ config.turns \in Nat /\ turns \in Nat /\ minted \in Nat
      /\ creds \in Nat
      BY NameOrderProperty, ConfigFacts, ClusterFacts
<1>2. turns' \in 0..config'.turns
      BY <1>1
<1>3. \A g \in Groups : apis'[g].owners \subseteq 1..minted'
      BY <1>1
<1>4. config' \in Configs
      BY DEF TypeOK
<1> QED BY <1>2, <1>3, <1>4 DEF TypeOK

\* The bounds of the counters, whatever step is taken.
LEMMA CountersKept ==
    ASSUME TypeOK, NEW t \in Nat, turns <= t
    PROVE  creds \in 0..t /\ minted \in Cardinality(Names)..(Cardinality(Names) + t)
<1>1. Cardinality(Names) \in Nat /\ turns \in Nat /\ minted \in Nat /\ creds \in Nat
      BY NameOrderProperty, ClusterFacts
<1> QED BY <1>1 DEF TypeOK

LEMMA TypeInit == Init => TypeOK
<1> SUFFICES ASSUME Init PROVE TypeOK
    OBVIOUS
<1>1. config \in Config /\ config.turns \in Nat /\ config.start \in [Names -> Specs \cup {None}]
      /\ config.registered \in [Groups -> {"absent", "ours", "byHand", "elsewhere"}]
      BY ProjectionsAssumption DEF Init, Config
<1>2. NoStatus \in Status /\ NoStatus.gen = 0
      BY DEF NoStatus, Status, Verdicts
<1>3. /\ nameOrder \in [Names -> 1..Cardinality(Names)] /\ Cardinality(Names) \in Nat
      BY NameOrderProperty
<1>4. ASSUME NEW n \in Names
      PROVE  /\ objects[n] \in Object \cup {None}
             /\ objects[n] # None =>
                   objects[n].status.gen <= objects[n].gen /\ objects[n].uid \in 1..minted
  <2>1. CASE config.start[n] = None
        BY <2>1 DEF Init
  <2>2. CASE config.start[n] # None
    <3> DEFINE o == [uid |-> nameOrder[n], gen |-> 1, spec |-> config.start[n], status |-> NoStatus]
    <3>1. objects[n] = o
          BY <2>2 DEF Init
    <3>2. nameOrder[n] \in 1..minted /\ nameOrder[n] \in Nat /\ config.start[n] \in Specs
          BY <1>1, <1>3, <2>2 DEF Init
    <3>3. o \in Object /\ o.status.gen = 0 /\ o.gen = 1 /\ o.uid = nameOrder[n]
          BY <1>2, <3>2 DEF Object
    <3> HIDE DEF o
    <3> QED BY <3>1, <3>2, <3>3
  <2> QED BY <2>1, <2>2
<1>5. objects \in [Names -> Object \cup {None}]
  <2>1. objects = [n \in Names |-> objects[n]]
        BY DEF Init
  <2> QED BY <1>4, <2>1
<1>6. apis \in [Groups -> APIService] /\ \A g \in Groups : apis[g].owners = {}
      BY <1>1 DEF Init, Registration, APIService
<1>7. Started \in Replica
      BY <1>5, <1>6, StartedFacts DEF Init
<1>8. /\ config \in Configs /\ files = [n \in Names |-> None] /\ creds = 0 /\ turns = 0
      /\ minted = Cardinality(Names) /\ rep = [r \in Replicas |-> Started]
      BY DEF Init
<1>9. files \in [Names -> Specs \cup {None}] /\ rep \in [Replicas -> Replica]
      BY <1>7, <1>8
<1>10. /\ turns \in 0..config.turns /\ creds \in 0..turns
       /\ minted \in Cardinality(Names)..(Cardinality(Names) + turns)
      BY <1>1, <1>3, <1>8
<1> QED BY <1>4, <1>5, <1>6, <1>8, <1>9, <1>10 DEF TypeOK

-----------------------------------------------------------------------------
(* Copies stay copies. *)

\* How an object may change in a step: it is new, or changed, or only its status
\* is, which speaks of its generation if it did before.
Later(n) ==
    objects'[n] # None =>
        \/ objects'[n].uid \notin 1..minted
        \/ /\ objects[n] # None /\ objects'[n].uid = objects[n].uid
           /\ \/ objects'[n].gen = objects[n].gen + 1
              \/ /\ objects'[n].gen = objects[n].gen /\ objects'[n].spec = objects[n].spec
                 /\ objects[n].status.gen = objects[n].gen => objects'[n].status.gen = objects'[n].gen
AllLater == minted' \in Nat /\ minted <= minted' /\ \A n \in Names : Later(n)

LEMMA CopiesKept ==
    ASSUME TypeOK, AllLater, NEW n \in Names, NEW x \in Object, Copies(x, n)
    PROVE  Copies(x, n)'
<1>1. x.gen \in Nat /\ x.uid \in Nat /\ minted \in Nat
      BY ClusterFacts DEF Object
<1>2. objects[n] # None => objects[n].gen \in Nat
      BY ClusterFacts
<1>3. minted' \in Nat /\ minted <= minted' /\ Later(n)
      BY DEF AllLater
<1>4. x.uid \in 1..minted /\ x.uid \in 1..minted'
      BY <1>1, <1>3 DEF Copies
<1>5. ASSUME objects'[n] # None, x.uid = objects'[n].uid
      PROVE  /\ x.gen <= objects'[n].gen
             /\ x.gen = objects'[n].gen =>
                   /\ x.spec = objects'[n].spec
                   /\ x.status.gen = x.gen => objects'[n].status.gen = objects'[n].gen
  <2>1. /\ objects[n] # None /\ objects'[n].uid = objects[n].uid
        /\ \/ objects'[n].gen = objects[n].gen + 1
           \/ /\ objects'[n].gen = objects[n].gen /\ objects'[n].spec = objects[n].spec
              /\ objects[n].status.gen = objects[n].gen => objects'[n].status.gen = objects'[n].gen
        BY <1>3, <1>4, <1>5 DEF Later
  <2>2. /\ x.gen <= objects[n].gen
        /\ x.gen = objects[n].gen =>
              /\ x.spec = objects[n].spec
              /\ x.status.gen = x.gen => objects[n].status.gen = objects[n].gen
        BY <1>5, <2>1 DEF Copies
  <2> QED BY <1>1, <1>2, <2>1, <2>2
<1> QED BY <1>4, <1>5 DEF Copies

LEMMA RemembersKept ==
    ASSUME TypeOK, AllLater, NEW n \in Names, NEW x \in Memory, Remembers(x, n)
    PROVE  Remembers(x, n)'
<1>1. x.status.gen \in Nat /\ x.uid \in Nat /\ minted \in Nat
      BY ClusterFacts DEF Memory, Status
<1>2. objects[n] # None => objects[n].gen \in Nat
      BY ClusterFacts
<1>3. minted' \in Nat /\ minted <= minted' /\ Later(n)
      BY DEF AllLater
<1>4. x.uid \in 1..minted /\ x.uid \in 1..minted'
      BY <1>1, <1>3 DEF Remembers
<1>5. ASSUME objects'[n] # None, x.uid = objects'[n].uid
      PROVE  /\ x.status.gen <= objects'[n].gen
             /\ x.status.gen = objects'[n].gen => objects'[n].status.gen = objects'[n].gen
  <2>1. /\ objects[n] # None /\ objects'[n].uid = objects[n].uid
        /\ \/ objects'[n].gen = objects[n].gen + 1
           \/ /\ objects'[n].gen = objects[n].gen /\ objects'[n].spec = objects[n].spec
              /\ objects[n].status.gen = objects[n].gen => objects'[n].status.gen = objects'[n].gen
        BY <1>3, <1>4, <1>5 DEF Later
  <2>2. /\ x.status.gen <= objects[n].gen
        /\ x.status.gen = objects[n].gen => objects[n].status.gen = objects[n].gen
        BY <1>5, <2>1 DEF Remembers
  <2> QED BY <1>1, <1>2, <2>1, <2>2
<1> QED BY <1>4, <1>5 DEF Remembers

LEMMA SameIsLater ==
    ASSUME TypeOK, UNCHANGED <<objects, minted>>
    PROVE  AllLater
BY ClusterFacts DEF AllLater, Later

\* A replica's copies after a step, in terms of those before.
LEMMA CopyKept ==
    ASSUME TypeOK, TypeOK', AllLater, creds <= creds',
           NEW q \in Replica, CopyOK(q), NEW w \in Replica,
           w.seen = q.seen \/ w.seen = creds',
           \A n \in Names : w.lister[n] = q.lister[n] \/ w.lister[n] = objects'[n],
           \A n \in Names : w.due[n] # None =>
               w.due[n] = q.due[n] \/ (q.lister[n] # None /\ w.due[n].was = q.lister[n]),
           \A n \in Names : w.last[n] # None => w.last[n] = q.last[n] \/ Remembers(w.last[n], n)',
           w.pc = "idle" => \A n \in Names : w.due[n] = None,
           \A n \in Names : w.pc = "register" /\ w.compiled[n] # None /\ ~w.compiled[n].file =>
               w.due[n] # None
    PROVE  CopyOK(w)'
<1>1. /\ q.seen \in Nat /\ q.lister \in [Names -> Object \cup {None}]
      /\ q.due \in [Names -> Judgement \cup {None}] /\ q.last \in [Names -> Memory \cup {None}]
      BY DEF Replica
<1>2. creds \in Nat /\ creds' \in Nat /\ config' \in Config
      BY ClusterFacts, ProjectionsAssumption DEF TypeOK, Config
<1>3. w.seen <= creds'
      BY <1>1, <1>2 DEF CopyOK
<1>4. ASSUME NEW n \in Names
      PROVE  /\ w.lister[n] # None => Copies(w.lister[n], n)'
             /\ w.due[n] # None => Copies(w.due[n].was, n)'
             /\ w.last[n] # None => Remembers(w.last[n], n)'
  <2>1. q.lister[n] # None => q.lister[n] \in Object /\ Copies(q.lister[n], n)
        BY <1>1 DEF CopyOK
  <2>2. q.lister[n] # None => Copies(q.lister[n], n)'
        BY <2>1, CopiesKept
  <2>3. q.due[n] # None => q.due[n].was \in Object /\ Copies(q.due[n].was, n)
        BY <1>1 DEF CopyOK, Judgement
  <2>4. q.due[n] # None => Copies(q.due[n].was, n)'
        BY <2>3, CopiesKept
  <2>5. q.last[n] # None => q.last[n] \in Memory /\ Remembers(q.last[n], n)
        BY <1>1 DEF CopyOK
  <2>6. q.last[n] # None => Remembers(q.last[n], n)'
        BY <2>5, RemembersKept
  <2>7. ASSUME objects'[n] # None, w.lister[n] = objects'[n] PROVE Copies(w.lister[n], n)'
    <3>1. objects'[n] \in Object /\ objects'[n].uid \in 1..minted'
          BY <2>7 DEF TypeOK
    <3>2. objects'[n].gen \in Nat
          BY <3>1 DEF Object
    <3> QED BY <2>7, <3>1, <3>2 DEF Copies
  <2>8. w.lister[n] # None => Copies(w.lister[n], n)'
        BY <2>2, <2>7
  <2>9. w.due[n] # None => Copies(w.due[n].was, n)'
        BY <2>2, <2>4
  <2>10. w.last[n] # None => Remembers(w.last[n], n)'
        BY <2>6
  <2> QED BY <2>8, <2>9, <2>10
<1> QED BY <1>3, <1>4 DEF CopyOK

LEMMA CopySame ==
    ASSUME TypeOK, TypeOK', AllLater, creds <= creds', NEW q \in Replica, CopyOK(q)
    PROVE  CopyOK(q)'
<1>1. /\ q.pc = "idle" => \A n \in Names : q.due[n] = None
      /\ \A n \in Names : q.pc = "register" /\ q.compiled[n] # None /\ ~q.compiled[n].file =>
             q.due[n] # None
      BY DEF CopyOK
<1> QED BY <1>1, CopyKept

LEMMA CopyStored ==
    ASSUME TypeOK, TypeOK', CopyInv, AllLater, creds <= creds', rep' = rep
    PROVE  CopyInv'
<1> SUFFICES ASSUME NEW r \in Replicas PROVE CopyOK(rep[r])'
    BY DEF CopyInv
<1>1. PICK q : q = rep[r]
      OBVIOUS
<1>2. q \in Replica /\ CopyOK(q)
      BY <1>1, ReplicaFacts DEF CopyInv
<1>3. CopyOK(q)'
      BY <1>2, CopySame
<1> QED BY <1>1, <1>3

LEMMA CopyReplica ==
    ASSUME TypeOK, TypeOK', CopyInv, AllLater, creds' = creds,
           NEW r \in Replicas, NEW w \in Replica, rep' = [rep EXCEPT ![r] = w], CopyOK(w)'
    PROVE  CopyInv'
<1> SUFFICES ASSUME NEW s \in Replicas PROVE CopyOK(rep[s])'
    BY DEF CopyInv
<1>1. PICK q : q = rep[s]
      OBVIOUS
<1>2. CASE s = r
  <2>1. rep'[s] = w
        BY <1>2, ClusterFacts
  <2> QED BY <2>1
<1>3. CASE s # r
  <2>1. rep'[s] = q
        BY <1>1, <1>3, ClusterFacts
  <2>2. q \in Replica /\ CopyOK(q) /\ creds <= creds'
        BY <1>1, ReplicaFacts, ClusterFacts DEF CopyInv
  <2>3. CopyOK(q)'
        BY <2>2, CopySame
  <2> QED BY <2>1, <2>3
<1> QED BY <1>2, <1>3

Kept == TypeOK' /\ CopyInv' /\ AllLater

LEMMA CreateKept ==
    ASSUME TypeOK, CopyInv, NEW n \in Names, NEW s \in Specs, Create(n, s)
    PROVE  Kept
<1> DEFINE o == [uid |-> minted + 1, gen |-> 1, spec |-> s, status |-> NoStatus]
<1>1. /\ minted \in Nat /\ minted' = minted + 1 /\ turns \in Nat /\ turns' = turns + 1
      /\ turns < config.turns /\ config.turns \in Nat /\ UNCHANGED <<config, files, creds, apis, rep>>
      BY ClusterFacts, ConfigFacts DEF Create, Turn
<1>2. objects' = [objects EXCEPT ![n] = o]
      BY DEF Create
<1>3. NoStatus \in Status /\ NoStatus.gen = 0
      BY DEF NoStatus, Status, Verdicts
<1>4. o \in Object /\ o.uid = minted + 1 /\ o.gen = 1 /\ o.status.gen = 0
      BY <1>1, <1>3 DEF Object
<1> HIDE DEF o
<1>5. objects \in [Names -> Object \cup {None}]
      BY ClusterFacts
<1>6. objects' \in [Names -> Object \cup {None}] /\ objects'[n] = o
      /\ \A m \in Names : m # n => objects'[m] = objects[m]
      BY <1>2, <1>4, <1>5
<1>7. \A m \in Names : objects'[m] # None =>
          objects'[m].status.gen <= objects'[m].gen /\ objects'[m].uid \in 1..minted'
      BY <1>1, <1>4, <1>6 DEF TypeOK
<1>8. /\ creds \in 0..turns' /\ minted' \in Cardinality(Names)..(Cardinality(Names) + turns')
  <2>1. creds \in 0..turns /\ minted \in Cardinality(Names)..(Cardinality(Names) + turns)
        /\ Cardinality(Names) \in Nat
        BY <1>1, CountersKept, NameOrderProperty
  <2> QED BY <1>1, <2>1
<1>9. turns' \in Nat /\ turns' <= config.turns /\ minted <= minted'
      BY <1>1
<1>10. /\ apis' \in [Groups -> APIService] /\ rep' \in [Replicas -> Replica]
       /\ files' \in [Names -> Specs \cup {None}]
       /\ \A g \in Groups : apis'[g].owners \subseteq 1..minted
      BY <1>1 DEF TypeOK
<1>11. TypeOK'
      BY <1>1, <1>6, <1>7, <1>8, <1>9, <1>10, TypeStored
<1>12. AllLater
      BY <1>1, <1>4, <1>6 DEF AllLater, Later
<1>13. creds <= creds' /\ rep' = rep
      BY <1>1, ClusterFacts
<1> QED BY <1>11, <1>12, <1>13, CopyStored DEF Kept

LEMMA EditKept ==
    ASSUME TypeOK, CopyInv, NEW n \in Names, NEW s \in Specs, Edit(n, s) \/ Delete(n)
    PROVE  Kept
<1> DEFINE e == [[objects[n] EXCEPT !.spec = s] EXCEPT !.gen = objects[n].gen + 1]
           o == objects'[n]
<1>1. /\ minted \in Nat /\ turns \in Nat /\ turns' = turns + 1 /\ objects[n] # None
      /\ turns < config.turns /\ config.turns \in Nat /\ UNCHANGED <<config, files, creds, apis, minted, rep>>
      BY ClusterFacts, ConfigFacts DEF Edit, Delete, Turn
<1>2. /\ objects[n] \in Object /\ objects[n].uid \in 1..minted /\ objects[n].gen \in Nat
      /\ objects[n].status.gen \in Nat /\ objects[n].status.gen <= objects[n].gen
      BY <1>1, ClusterFacts
<1>3. objects' = [objects EXCEPT ![n] = e] \/ objects' = [objects EXCEPT ![n] = None]
      BY ClusterFacts DEF Edit, Delete
<1>4. /\ e \in Object /\ e.uid = objects[n].uid /\ e.gen = objects[n].gen + 1
      /\ e.status = objects[n].status
  <2>1. PICK x, k : x = objects[n] /\ k = objects[n].gen + 1
        OBVIOUS
  <2>2. x \in Object /\ k \in Nat
        BY <1>2, <2>1
  <2>3. LET y == [[x EXCEPT !.spec = s] EXCEPT !.gen = k] IN
        y \in Object /\ y.uid = x.uid /\ y.gen = k /\ y.status = x.status
        BY <2>2 DEF Object
  <2> QED BY <2>1, <2>3
<1> HIDE DEF e
<1>5. objects \in [Names -> Object \cup {None}]
      BY ClusterFacts
<1>6. objects' \in [Names -> Object \cup {None}] /\ (objects'[n] = e \/ objects'[n] = None)
      /\ \A m \in Names : m # n => objects'[m] = objects[m]
      BY <1>3, <1>4, <1>5
<1>7. \A m \in Names : objects'[m] # None =>
          objects'[m].status.gen <= objects'[m].gen /\ objects'[m].uid \in 1..minted'
  <2>1. e.status.gen <= e.gen /\ e.uid \in 1..minted'
        BY <1>1, <1>2, <1>4
  <2> QED BY <1>1, <1>6, <2>1 DEF TypeOK
<1>8. turns' \in Nat /\ turns <= turns' /\ turns' <= config.turns /\ minted <= minted'
      BY <1>1
<1>9. /\ creds' \in 0..turns' /\ minted' \in Cardinality(Names)..(Cardinality(Names) + turns')
      BY <1>1, <1>8, CountersKept
<1>10. /\ apis' \in [Groups -> APIService] /\ rep' \in [Replicas -> Replica]
       /\ files' \in [Names -> Specs \cup {None}]
       /\ \A g \in Groups : apis'[g].owners \subseteq 1..minted
      BY <1>1 DEF TypeOK
<1>11. TypeOK'
      BY <1>1, <1>6, <1>7, <1>8, <1>9, <1>10, TypeStored
<1>12. AllLater
  <2>1. Later(n)
        BY <1>1, <1>4, <1>6 DEF Later
  <2>2. \A m \in Names : m # n => Later(m)
        BY <1>6 DEF Later
  <2> QED BY <1>1, <1>8, <2>1, <2>2 DEF AllLater
<1>13. creds <= creds' /\ rep' = rep
      BY <1>1, ClusterFacts
<1> QED BY <1>11, <1>12, <1>13, CopyStored DEF Kept

LEMMA OthersKept ==
    ASSUME TypeOK, CopyInv,
           \/ Rotate
           \/ \E g \in Groups, v \in {"up", "down"} : Dial(g, v)
           \/ \E g \in Groups, v \in {"absent", "elsewhere"} : Meddle(g, v)
           \/ \E g \in Groups : Collect(g)
    PROVE  Kept /\ UNCHANGED <<config, objects, files, rep>>
<1> DEFINE A == {a \in APIService : a.owners \subseteq 1..minted}
<1>1. /\ minted \in Nat /\ turns \in Nat /\ config.turns \in Nat /\ creds \in Nat /\ creds <= turns
      /\ apis \in [Groups -> A] /\ turns <= config.turns
      BY ClusterFacts, ConfigFacts DEF TypeOK
<1>2. /\ UNCHANGED <<config, objects, files, minted, rep>>
      /\ turns' \in Nat /\ turns <= turns' /\ turns' <= config.turns
      /\ creds <= creds' /\ creds' \in 0..turns'
      BY <1>1 DEF Rotate, Dial, Meddle, Collect, Turn
<1>3. apis' \in [Groups -> A]
  <2>1. ASSUME NEW g \in Groups, NEW v \in {"up", "down"}, Dial(g, v) PROVE apis' \in [Groups -> A]
    <3>1. apis[g] \in A /\ apis' = [apis EXCEPT ![g] = [apis[g] EXCEPT !.available = v]]
          BY <1>1, <2>1 DEF Dial
    <3>2. [apis[g] EXCEPT !.available = v] \in A
          BY <3>1 DEF APIService
    <3> HIDE DEF A
    <3> QED BY <1>1, <3>1, <3>2
  <2>2. \A v \in {"absent", "elsewhere"} : Registration(v) \in A
        BY DEF Registration, APIService
  <2>3. Absent \in A
        BY <2>2 DEF Absent
  <2> HIDE DEF A
  <2>4. ASSUME NEW g \in Groups, NEW v \in {"absent", "elsewhere"}, Meddle(g, v)
        PROVE  apis' \in [Groups -> A]
        BY <1>1, <2>2, <2>4 DEF Meddle
  <2>5. ASSUME NEW g \in Groups, Collect(g) PROVE apis' \in [Groups -> A]
        BY <1>1, <2>3, <2>5 DEF Collect
  <2>6. ASSUME Rotate PROVE apis' \in [Groups -> A]
        BY <1>1, <2>6 DEF Rotate
  <2> QED BY <2>1, <2>4, <2>5, <2>6
<1>4. apis' \in [Groups -> APIService] /\ \A g \in Groups : apis'[g].owners \subseteq 1..minted
      BY <1>3
<1> HIDE DEF A
<1>5. minted' \in Cardinality(Names)..(Cardinality(Names) + turns') /\ minted <= minted'
      BY <1>1, <1>2, CountersKept
<1>6. /\ rep' \in [Replicas -> Replica] /\ files' \in [Names -> Specs \cup {None}]
      /\ objects' \in [Names -> Object \cup {None}]
      /\ \A m \in Names : objects'[m] # None =>
             objects'[m].status.gen <= objects'[m].gen /\ objects'[m].uid \in 1..minted'
      BY <1>2 DEF TypeOK
<1>7. TypeOK'
      BY <1>2, <1>4, <1>5, <1>6, TypeStored
<1>8. AllLater
      BY <1>2, SameIsLater
<1> QED BY <1>2, <1>7, <1>8, CopyStored DEF Kept

LEMMA FileKept ==
    ASSUME TypeOK, CopyInv, NEW n \in Names, NEW s \in config.specs \cup {None}, FileChanges(n, s)
    PROVE  Kept
<1>1. /\ UNCHANGED <<config, objects, creds, apis, minted>>
      /\ files' \in [Names -> Specs \cup {None}] /\ turns' = turns + 1 /\ turns < config.turns
      /\ rep' \in [Replicas -> Replica]
      /\ \A r \in Replicas : /\ SameNews(rep'[r], rep[r]) /\ SameWork(rep'[r], rep[r])
                             /\ rep'[r].queued = TRUE /\ rep'[r].recheck = rep[r].recheck
      BY FileEffect
<1>2. /\ minted \in Nat /\ turns \in Nat /\ config.turns \in Nat /\ creds \in Nat
      BY ClusterFacts, ConfigFacts
<1>3. turns' \in Nat /\ turns <= turns' /\ turns' <= config.turns /\ minted <= minted' /\ creds <= creds'
      BY <1>1, <1>2
<1>4. creds' \in 0..turns' /\ minted' \in Cardinality(Names)..(Cardinality(Names) + turns')
      BY <1>1, <1>3, CountersKept
<1>5. /\ apis' \in [Groups -> APIService] /\ \A g \in Groups : apis'[g].owners \subseteq 1..minted
      /\ objects' \in [Names -> Object \cup {None}]
      /\ \A m \in Names : objects'[m] # None =>
             objects'[m].status.gen <= objects'[m].gen /\ objects'[m].uid \in 1..minted'
      BY <1>1 DEF TypeOK
<1>6. TypeOK'
      BY <1>1, <1>3, <1>4, <1>5, TypeStored
<1>7. AllLater
      BY <1>1, SameIsLater
<1>8. ASSUME NEW r \in Replicas PROVE CopyOK(rep[r])'
  <2>1. PICK q, w : q = rep[r] /\ w = rep'[r]
        OBVIOUS
  <2>2. q \in Replica /\ CopyOK(q) /\ w \in Replica /\ SameNews(w, q) /\ SameWork(w, q)
        BY <1>1, <2>1, ReplicaFacts DEF CopyInv
  <2>3. /\ w.seen = q.seen /\ w.lister = q.lister /\ w.due = q.due /\ w.last = q.last
        /\ w.pc = q.pc /\ w.compiled = q.compiled
        BY <2>2 DEF SameNews, SameWork
  <2>4. /\ w.pc = "idle" => \A m \in Names : w.due[m] = None
        /\ \A m \in Names : w.pc = "register" /\ w.compiled[m] # None /\ ~w.compiled[m].file =>
               w.due[m] # None
        BY <2>2, <2>3 DEF CopyOK
  <2>5. CopyOK(w)'
        BY <1>3, <1>6, <1>7, <2>2, <2>3, <2>4, CopyKept
  <2> QED BY <2>1, <2>5
<1> QED BY <1>6, <1>7, <1>8 DEF Kept, CopyInv

\* A replica hears of something.
LEMMA InformsKept ==
    ASSUME TypeOK, CopyInv, NEW r \in Replicas,
           \/ \E n \in Names : Deliver(r, n)
           \/ \E g \in Groups : DeliverAPIService(r, g)
           \/ DeliverSecret(r) \/ Recheck(r)
    PROVE  Kept
<1>1. /\ UNCHANGED <<config, objects, files, creds, apis, minted, turns>>
      /\ \E w \in Replica :
            /\ rep' = [rep EXCEPT ![r] = w] /\ SameWork(w, rep[r])
            /\ w.seen = rep[r].seen \/ w.seen = creds
            /\ \A n \in Names : w.lister[n] = rep[r].lister[n] \/ w.lister[n] = objects[n]
  <2>1. ASSUME NEW n \in Names, Deliver(r, n) PROVE <1>1!:
    <3>1. rep[r].lister \in [Names -> Object \cup {None}]
          BY ReplicaFacts
    <3>2. PICK w \in Replica :
              /\ rep' = [rep EXCEPT ![r] = w] /\ SameWork(w, rep[r])
              /\ w.seen = rep[r].seen /\ w.lister = [rep[r].lister EXCEPT ![n] = objects[n]]
          BY <2>1, DeliverEffect
    <3>3. \A m \in Names : w.lister[m] = rep[r].lister[m] \/ w.lister[m] = objects[m]
          BY <3>1, <3>2
    <3>4. UNCHANGED <<config, objects, files, creds, apis, minted, turns>>
          BY <2>1, DeliverEffect
    <3> QED BY <3>2, <3>3, <3>4
  <2>2. ASSUME NEW g \in Groups, DeliverAPIService(r, g) PROVE <1>1!:
        BY <2>2, DeliverAPIServiceEffect
  <2>3. ASSUME DeliverSecret(r) \/ Recheck(r) PROVE <1>1!:
        BY <2>3, WakeEffect
  <2> QED BY <2>1, <2>2, <2>3
<1>2. PICK w \in Replica :
            /\ rep' = [rep EXCEPT ![r] = w] /\ SameWork(w, rep[r])
            /\ w.seen = rep[r].seen \/ w.seen = creds
            /\ \A n \in Names : w.lister[n] = rep[r].lister[n] \/ w.lister[n] = objects[n]
      BY <1>1
<1>3. turns' \in Nat /\ turns <= turns' /\ turns' <= config.turns /\ creds <= creds'
      BY <1>1, ClusterFacts
<1>4. TypeOK'
      BY <1>1, <1>2, <1>3, TypeReplica
<1>5. AllLater
      BY <1>1, SameIsLater
<1>6. PICK q : q = rep[r]
      OBVIOUS
<1>7. q \in Replica /\ CopyOK(q)
      BY <1>6, ReplicaFacts DEF CopyInv
<1>8. /\ w.due = q.due /\ w.last = q.last /\ w.pc = q.pc /\ w.compiled = q.compiled
      /\ w.seen = q.seen \/ w.seen = creds'
      /\ \A n \in Names : w.lister[n] = q.lister[n] \/ w.lister[n] = objects'[n]
      BY <1>1, <1>2, <1>6 DEF SameWork
<1>9. /\ w.pc = "idle" => \A m \in Names : w.due[m] = None
      /\ \A m \in Names : w.pc = "register" /\ w.compiled[m] # None /\ ~w.compiled[m].file =>
             w.due[m] # None
      BY <1>7, <1>8 DEF CopyOK
<1>10. CopyOK(w)'
      BY <1>3, <1>4, <1>5, <1>7, <1>8, <1>9, CopyKept
<1>11. CopyInv'
      BY <1>1, <1>2, <1>4, <1>5, <1>10, CopyReplica
<1> QED BY <1>4, <1>5, <1>11 DEF Kept

LEMMA RestartKept ==
    ASSUME TypeOK, CopyInv, NEW r \in Replicas, Restart(r)
    PROVE  Kept
<1>1. /\ UNCHANGED <<config, objects, files, creds, apis, minted>> /\ rep' = [rep EXCEPT ![r] = Started]
      /\ turns' \in Nat /\ turns <= turns' /\ turns' <= config.turns /\ creds <= creds'
      BY ClusterFacts, ConfigFacts DEF Restart, cluster, Turn
<1>2. PICK w : w = Started
      OBVIOUS
<1>3. /\ w \in Replica /\ w.lister = objects /\ w.seen = creds /\ w.pc = "idle"
      /\ \A n \in Names : w.compiled[n] = None /\ w.last[n] = None /\ w.due[n] = None
      BY <1>2, StartedFacts, ClusterFacts
<1>4. TypeOK'
      BY <1>1, <1>2, <1>3, TypeReplica
<1>5. AllLater
      BY <1>1, SameIsLater
<1>6. PICK q : q = rep[r]
      OBVIOUS
<1>7. q \in Replica /\ CopyOK(q)
      BY <1>6, ReplicaFacts DEF CopyInv
<1>8. CopyOK(w)'
      BY <1>1, <1>3, <1>4, <1>5, <1>7, CopyKept
<1>9. CopyInv'
      BY <1>1, <1>2, <1>3, <1>4, <1>5, <1>8, CopyReplica
<1> QED BY <1>4, <1>5, <1>9 DEF Kept

LEMMA InstallKept ==
    ASSUME TypeOK, CopyInv, NEW r \in Replicas, NEW broken \in SUBSET Names, SyncInstalls(r, broken)
    PROVE  Kept
<1>1. /\ UNCHANGED <<config, objects, files, creds, apis, minted>>
      /\ turns' \in Nat /\ turns <= turns' /\ turns' <= config.turns /\ creds <= creds'
      BY InstallEffect, ClusterFacts
<1>2. PICK w \in Replica : InstallsAs(r, broken, w)
      BY InstallEffect
<1> USE DEF InstallsAs
<1>3. TypeOK'
      BY <1>1, <1>2, TypeReplica
<1>4. AllLater
      BY <1>1, SameIsLater
<1>5. PICK q : q = rep[r]
      OBVIOUS
<1>6. q \in Replica /\ CopyOK(q)
      BY <1>5, ReplicaFacts DEF CopyInv
<1>7. w.seen = q.seen /\ w.lister = q.lister /\ w.pc # "idle"
      BY <1>2, <1>5 DEF SameNews
<1>8. ASSUME NEW n \in Names
      PROVE  /\ w.due[n] # None => q.lister[n] # None /\ w.due[n].was = q.lister[n]
             /\ w.last[n] # None => w.last[n] = q.last[n]
             /\ w.compiled[n] # None /\ ~w.compiled[n].file => w.due[n] # None
  <2>1. /\ w.due[n] # None => q.lister[n] # None /\ w.due[n].was = q.lister[n]
        /\ w.last[n] # None => w.last[n] = q.last[n]
        BY <1>2, <1>5 DEF Judges
  <2>2. ASSUME w.compiled[n] # None, ~w.compiled[n].file PROVE w.due[n] # None
    <3> DEFINE s == surviving(rep[r], broken)[n]
               cand == candidate(rep[r], n)
    <3>1. w.compiled[n] = s
          BY <1>2, <2>2 DEF Compiles
    <3>2. s # None => cand # None /\ s.file = cand.file
          BY SurvivingType
    <3>3. /\ files[n] # None => cand.file = TRUE
          /\ cand # None /\ files[n] = None => rep[r].lister[n] # None
          BY CandidateType
    <3> HIDE DEF s, cand
    <3>4. rep[r].lister[n] # None
          BY <2>2, <3>1, <3>2, <3>3
    <3> DEFINE v == verdict(n, broken, surviving(rep[r], broken),
                            winners(below(rep[r]), surviving(rep[r], broken)))
    <3>5. v \in Verdicts
          BY DEF verdict, Verdicts
    <3>6. w.due[n] = [was |-> rep[r].lister[n], verdict |-> v]
          BY <1>2, <3>4 DEF Judges
    <3> HIDE DEF v
    <3>7. w.due[n] \in Judgement
          BY <3>4, <3>5, <3>6, CopyFacts DEF Judgement
    <3> QED BY <3>7, NoneIsNothing
  <2> QED BY <2>1, <2>2
<1>9. CopyOK(w)'
      BY <1>1, <1>3, <1>4, <1>6, <1>7, <1>8, CopyKept
<1>10. CopyInv'
      BY <1>1, <1>2, <1>3, <1>4, <1>9, CopyReplica
<1> QED BY <1>3, <1>4, <1>10 DEF Kept

LEMMA RegisterKept ==
    ASSUME TypeOK, CopyInv, NEW r \in Replicas, SyncRegisters(r)
    PROVE  Kept
<1>1. UNCHANGED <<config, objects, files, creds, minted, turns>> /\ rep[r].pc = "register"
      BY RegisterEffect
<1>2. PICK w \in Replica :
         /\ rep' = [rep EXCEPT ![r] = w] /\ SameNews(w, rep[r]) /\ w.pc = "status"
         /\ w.compiled = rep[r].compiled /\ w.last = rep[r].last /\ w.due = rep[r].due
      BY RegisterEffect
<1>3. apis' \in [Groups -> APIService] /\ \A g \in Groups : apis'[g].owners \subseteq 1..minted
      BY RegisteredType
<1>4. turns' \in Nat /\ turns <= turns' /\ turns' <= config.turns /\ minted <= minted' /\ creds <= creds'
      BY <1>1, ClusterFacts
<1>5. creds' \in 0..turns' /\ minted' \in Cardinality(Names)..(Cardinality(Names) + turns')
      BY <1>1, <1>4, CountersKept
<1>6. /\ rep' \in [Replicas -> Replica] /\ files' \in [Names -> Specs \cup {None}]
      /\ objects' \in [Names -> Object \cup {None}]
      /\ \A m \in Names : objects'[m] # None =>
             objects'[m].status.gen <= objects'[m].gen /\ objects'[m].uid \in 1..minted'
      BY <1>1, <1>2 DEF TypeOK
<1>7. TypeOK'
      BY <1>1, <1>3, <1>4, <1>5, <1>6, TypeStored
<1>8. AllLater
      BY <1>1, SameIsLater
<1>9. PICK q : q = rep[r]
      OBVIOUS
<1>10. q \in Replica /\ CopyOK(q)
      BY <1>9, ReplicaFacts DEF CopyInv
<1>11. /\ w.seen = q.seen /\ w.lister = q.lister /\ w.due = q.due /\ w.last = q.last
       /\ w.pc = "status"
      BY <1>2, <1>9 DEF SameNews
<1>12. CopyOK(w)'
      BY <1>4, <1>7, <1>8, <1>10, <1>11, CopyKept
<1>13. CopyInv'
      BY <1>1, <1>2, <1>7, <1>8, <1>12, CopyReplica
<1> QED BY <1>7, <1>8, <1>13 DEF Kept

LEMMA EndKept ==
    ASSUME TypeOK, CopyInv, NEW r \in Replicas, SyncEnds(r)
    PROVE  Kept
<1>1. /\ UNCHANGED <<config, objects, files, creds, apis, minted, turns>>
      /\ \A n \in Names : rep[r].due[n] = None
      BY EndEffect
<1>2. PICK w \in Replica :
         /\ rep' = [rep EXCEPT ![r] = w] /\ SameNews(w, rep[r]) /\ w.pc = "idle"
         /\ w.compiled = rep[r].compiled /\ w.last = rep[r].last /\ w.due = rep[r].due
      BY EndEffect
<1>3. turns' \in Nat /\ turns <= turns' /\ turns' <= config.turns /\ creds <= creds'
      BY <1>1, ClusterFacts
<1>4. TypeOK'
      BY <1>1, <1>2, <1>3, TypeReplica
<1>5. AllLater
      BY <1>1, SameIsLater
<1>6. PICK q : q = rep[r]
      OBVIOUS
<1>7. q \in Replica /\ CopyOK(q)
      BY <1>6, ReplicaFacts DEF CopyInv
<1>8. /\ w.seen = q.seen /\ w.lister = q.lister /\ w.due = q.due /\ w.last = q.last
      /\ w.pc = "idle" /\ \A n \in Names : w.due[n] = None
      BY <1>1, <1>2, <1>6 DEF SameNews
<1>9. CopyOK(w)'
      BY <1>3, <1>4, <1>5, <1>7, <1>8, CopyKept
<1>10. CopyInv'
      BY <1>1, <1>2, <1>4, <1>5, <1>9, CopyReplica
<1> QED BY <1>4, <1>5, <1>10 DEF Kept

\* A report leaves the object what it is, but for a status of its generation.
LEMMA ReportedObject ==
    ASSUME TypeOK, NEW r \in Replicas, NEW n \in Names, rep[r].due[n] # None,
           NEW l, NEW o, Told(rep[r], n, l, o) \/ (l = rep[r].last[n] /\ o = objects[n])
    PROVE  \/ o = objects[n]
           \/ /\ objects[n] # None /\ o \in Object /\ o.uid = objects[n].uid /\ o.gen = objects[n].gen
              /\ o.spec = objects[n].spec /\ o.status = judged(rep[r], n)
              /\ o.status.gen = o.gen /\ rep[r].due[n].was.gen = o.gen
              /\ l = Remembered(rep[r], n)
<1>1. CASE Written(rep[r], n, l, o)
  <2>1. objects[n] # None /\ objects[n] \in Object /\ o = [objects[n] EXCEPT !.status = judged(rep[r], n)]
        BY <1>1, ClusterFacts DEF Written
  <2>2. judged(rep[r], n) \in Status /\ judged(rep[r], n).gen = rep[r].due[n].was.gen
        BY JudgedType
  <2>3. PICK x, st : x = objects[n] /\ st = judged(rep[r], n)
        OBVIOUS
  <2>4. x \in Object /\ st \in Status /\ o = [x EXCEPT !.status = st]
        BY <2>1, <2>2, <2>3
  <2>5. o \in Object /\ o.uid = x.uid /\ o.gen = x.gen /\ o.spec = x.spec /\ o.status = st
        BY <2>4 DEF Object
  <2>6. objects[n].gen = rep[r].due[n].was.gen /\ l = Remembered(rep[r], n)
        BY <1>1 DEF Written
  <2> QED BY <2>1, <2>2, <2>3, <2>5, <2>6
<1>2. CASE ~Written(rep[r], n, l, o)
      BY <1>2 DEF Told, Late, Gone, Skipped, SkippedListed
<1> QED BY <1>1, <1>2

LEMMA ReportKept ==
    ASSUME TypeOK, CopyInv, NEW r \in Replicas, NEW n \in Names, SyncReports(r, n) \/ SyncReportFails(r, n)
    PROVE  Kept
<1>1. /\ UNCHANGED <<config, files, creds, apis, minted>>
      /\ turns' \in Nat /\ turns <= turns' /\ turns' <= config.turns /\ creds <= creds'
      /\ minted <= minted' /\ minted' \in Nat
      /\ rep[r].pc = "status" /\ rep[r].due[n] # None
      BY ReportEffect, ClusterFacts
<1>2. PICK w \in Replica, o \in Object \cup {None} : ReportsAs(r, n, w, o)
      BY ReportEffect
<1> USE DEF ReportsAs
<1>3. \/ o = objects[n]
      \/ /\ objects[n] # None /\ o \in Object /\ o.uid = objects[n].uid /\ o.gen = objects[n].gen
         /\ o.spec = objects[n].spec /\ o.status.gen = o.gen
  <2>1. Told(rep[r], n, w.last[n], o) \/ (w.last[n] = rep[r].last[n] /\ o = objects[n])
        BY <1>2
  <2> HIDE DEF ReportsAs
  <2>2. rep[r].due[n] # None
        BY <1>1
  <2>3. PICK l : l = w.last[n]
        OBVIOUS
  <2>4. Told(rep[r], n, l, o) \/ (l = rep[r].last[n] /\ o = objects[n])
        BY <2>1, <2>3
  <2>5. \/ o = objects[n]
        \/ /\ objects[n] # None /\ o \in Object /\ o.uid = objects[n].uid /\ o.gen = objects[n].gen
           /\ o.spec = objects[n].spec /\ o.status = judged(rep[r], n)
           /\ o.status.gen = o.gen /\ rep[r].due[n].was.gen = o.gen
           /\ l = Remembered(rep[r], n)
        BY <2>2, <2>4, ReportedObject
  <2> QED BY <2>5
<1>4. /\ objects' \in [Names -> Object \cup {None}] /\ objects'[n] = o
      /\ \A m \in Names : m # n => objects'[m] = objects[m]
      BY <1>2, ClusterFacts
<1>5. \A m \in Names : objects'[m] # None =>
          objects'[m].status.gen <= objects'[m].gen /\ objects'[m].uid \in 1..minted'
  <2>1. \A m \in Names : objects[m] # None =>
            /\ objects[m].status.gen <= objects[m].gen /\ objects[m].uid \in 1..minted
            /\ objects[m].gen \in Nat
        BY ClusterFacts
  <2> QED BY <1>1, <1>3, <1>4, <2>1
<1>6. creds' \in 0..turns' /\ minted' \in Cardinality(Names)..(Cardinality(Names) + turns')
      BY <1>1, CountersKept
<1>7. /\ rep' \in [Replicas -> Replica] /\ files' \in [Names -> Specs \cup {None}]
      /\ apis' \in [Groups -> APIService] /\ \A g \in Groups : apis'[g].owners \subseteq 1..minted
      BY <1>1, <1>2 DEF TypeOK
<1>8. TypeOK'
      BY <1>1, <1>4, <1>5, <1>6, <1>7, TypeStored
<1>9. AllLater
  <2>1. Later(n)
        BY <1>3, <1>4 DEF Later
  <2>2. \A m \in Names : m # n => Later(m)
        BY <1>4 DEF Later
  <2> QED BY <1>1, <2>1, <2>2 DEF AllLater
<1>10. PICK q : q = rep[r]
      OBVIOUS
<1>11. /\ q \in Replica /\ CopyOK(q) /\ q.due \in [Names -> Judgement \cup {None}]
       /\ q.last \in [Names -> Memory \cup {None}]
      BY <1>10, ReplicaFacts DEF CopyInv
<1>12. /\ w.seen = q.seen /\ w.lister = q.lister /\ w.pc = "status"
      BY <1>1, <1>2, <1>10 DEF SameNews
<1>13. \A m \in Names : w.due[m] # None => w.due[m] = q.due[m]
      BY <1>2, <1>10, <1>11
<1>14. \A m \in Names : m # n => w.last[m] = q.last[m]
  <2>1. w.last = [q.last EXCEPT ![n] = w.last[n]]
        BY <1>2, <1>10
  <2> QED BY <1>11, <2>1
<1>15. w.last[n] = q.last[n] \/ Remembers(w.last[n], n)'
  <2>1. SUFFICES ASSUME w.last[n] # q.last[n] PROVE Remembers(w.last[n], n)'
        OBVIOUS
  <2>2. Written(q, n, w.last[n], o) \/ Late(q, n, w.last[n], o) \/ SkippedListed(q, n, w.last[n], o)
        BY <1>2, <1>10, <2>1 DEF Told, Gone, Skipped
  <2>3. /\ w.last[n] = Remembered(q, n)
        BY <2>2 DEF Written, Late, SkippedListed
  <2>4. w.last[n].status.gen = q.due[n].was.gen /\ w.last[n].uid = q.due[n].was.uid
        /\ judged(q, n).gen = q.due[n].was.gen /\ q.due[n].was.gen \in Nat
        BY <1>1, <1>10, <2>3, JudgedType, CopyFacts
  <2>5. Copies(q.due[n].was, n)
        BY <1>1, <1>10, <1>11 DEF CopyOK
  <2>6. w.last[n].uid \in 1..minted'
        BY <1>1, <2>4, <2>5 DEF Copies
  <2>7. ASSUME objects'[n] # None, w.last[n].uid = objects'[n].uid
        PROVE  /\ w.last[n].status.gen <= objects'[n].gen
               /\ w.last[n].status.gen = objects'[n].gen => objects'[n].status.gen = objects'[n].gen
    <3>1. objects[n] # None /\ objects'[n].uid = objects[n].uid /\ objects'[n].gen = objects[n].gen
          /\ (objects'[n] = objects[n] \/ objects'[n].status.gen = objects'[n].gen)
          BY <1>3, <1>4, <2>7
    <3>2. objects[n].gen \in Nat
          BY <3>1, ClusterFacts
    <3>3. /\ q.due[n].was.gen <= objects[n].gen
          /\ q.due[n].was.gen = objects[n].gen /\ q.due[n].was.status.gen = q.due[n].was.gen =>
                objects[n].status.gen = objects[n].gen
          BY <2>4, <2>5, <2>7, <3>1 DEF Copies
    <3>4. CASE Written(q, n, w.last[n], o) /\ objects'[n] # objects[n]
          BY <2>4, <3>1, <3>3, <3>4
    <3>5. CASE Written(q, n, w.last[n], o) /\ objects'[n] = objects[n]
      <4>1. o = [objects[n] EXCEPT !.status = judged(q, n)] /\ objects[n] \in Object
            /\ objects[n].gen = q.due[n].was.gen
            BY <3>1, <3>5, ClusterFacts DEF Written
      <4>2. o.status = judged(q, n)
            BY <4>1 DEF Object
      <4> QED BY <1>4, <2>4, <3>1, <3>2, <3>3, <3>5, <4>1, <4>2
    <3>6. CASE Late(q, n, w.last[n], o)
          BY <2>4, <3>1, <3>3, <3>6 DEF Late
    <3>7. CASE SkippedListed(q, n, w.last[n], o)
      <4>1. q.due[n].was.status.gen = q.due[n].was.gen /\ objects'[n] = objects[n]
            BY <1>4, <2>4, <3>7 DEF SkippedListed
      <4> QED BY <2>4, <3>1, <3>3, <4>1
    <3> QED BY <2>2, <3>4, <3>5, <3>6, <3>7
  <2> QED BY <2>6, <2>7 DEF Remembers
<1>16. \A m \in Names : w.last[m] # None => w.last[m] = q.last[m] \/ Remembers(w.last[m], m)'
      BY <1>14, <1>15
<1>17. CopyOK(w)'
      BY <1>1, <1>8, <1>9, <1>11, <1>12, <1>13, <1>16, CopyKept
<1>18. CopyInv'
      BY <1>1, <1>2, <1>8, <1>9, <1>17, CopyReplica
<1> QED BY <1>8, <1>9, <1>18 DEF Kept

-----------------------------------------------------------------------------
(* Every step. *)

\* The steps there are, by what they change.
Stored ==
    \/ \E n \in Names, s \in Specs : Create(n, s)
    \/ \E n \in Names, s \in Specs : Edit(n, s) \/ Delete(n)
Elsewhere ==
    \/ Rotate
    \/ \E g \in Groups, v \in {"up", "down"} : Dial(g, v)
    \/ \E g \in Groups, v \in {"absent", "elsewhere"} : Meddle(g, v)
    \/ \E g \in Groups : Collect(g)
Heard(r) ==
    \/ \E n \in Names : Deliver(r, n)
    \/ \E g \in Groups : DeliverAPIService(r, g)
    \/ DeliverSecret(r) \/ Recheck(r)

LEMMA NextCases ==
    ASSUME TypeOK, Next
    PROVE  \/ Stored
           \/ \E n \in Names, s \in config.specs \cup {None} : FileChanges(n, s)
           \/ Elsewhere
           \/ \E r \in config.replicas : Restart(r)
           \/ \E r \in config.replicas, broken \in SUBSET Names : SyncInstalls(r, broken)
           \/ \E r \in config.replicas : SyncRegisters(r)
           \/ \E r \in config.replicas : SyncEnds(r)
           \/ \E r \in config.replicas, n \in Names : SyncReports(r, n) \/ SyncReportFails(r, n)
           \/ \E r \in config.replicas : Heard(r)
<1>1. config.names \subseteq Names /\ config.specs \subseteq Specs
      BY ConfigFacts
<1>2. ASSUME NEW n \in config.names, (\E s \in config.specs : Create(n, s) \/ Edit(n, s)) \/ Delete(n)
      PROVE  Stored
  <2>1. CASE Delete(n)
    <3>1. objects[n] # None /\ n \in Names
          BY <1>1, <2>1 DEF Delete
    <3>2. objects[n].spec \in Specs
          BY <3>1, ClusterFacts
    <3> QED BY <2>1, <3>1, <3>2 DEF Stored
  <2>2. CASE \E s \in config.specs : Create(n, s) \/ Edit(n, s)
        BY <1>1, <2>2 DEF Stored
  <2> QED BY <1>2, <2>1, <2>2
<1>3. ASSUME NEW r \in config.replicas, Informs(r) PROVE Heard(r)
      BY <1>1, <1>3 DEF Informs, Heard
<1>4. ASSUME NEW r \in config.replicas, Works(r)
      PROVE  \/ \E broken \in SUBSET Names : SyncInstalls(r, broken)
             \/ SyncRegisters(r) \/ SyncEnds(r)
             \/ \E n \in Names : SyncReports(r, n) \/ SyncReportFails(r, n)
      BY <1>1, <1>4 DEF Works
<1>5. CASE Others
  <2>1. CASE \E n \in config.names :
                (\E s \in config.specs : Create(n, s) \/ Edit(n, s)) \/ Delete(n)
        BY <1>2, <2>1
  <2>2. CASE \E n \in config.names, s \in config.specs \cup {None} : FileChanges(n, s)
        BY <1>1, <2>2
  <2>3. CASE \/ Rotate
             \/ \E g \in Groups : \/ \E v \in {"up", "down"} : Dial(g, v)
                                  \/ \E route \in {"absent", "elsewhere"} : Meddle(g, route)
        BY <2>3 DEF Elsewhere
  <2>4. CASE \E r \in config.replicas : Restart(r)
        BY <2>4
  <2> QED BY <1>5, <2>1, <2>2, <2>3, <2>4 DEF Others
<1>6. CASE \E g \in Groups : Collect(g)
      BY <1>6 DEF Elsewhere
<1>7. CASE \E r \in config.replicas : Works(r) \/ Informs(r)
      BY <1>3, <1>4, <1>7
<1> QED BY <1>5, <1>6, <1>7 DEF Next

LEMMA BaseStep ==
    ASSUME TypeOK, CopyInv, [Next]_vars
    PROVE  Kept
<1>1. CASE UNCHANGED vars
  <2>1. /\ UNCHANGED <<config, objects, files, creds, apis, minted, turns, rep>>
        BY <1>1 DEF vars
  <2>2. TypeOK'
        BY <2>1 DEF TypeOK
  <2>3. AllLater /\ creds <= creds' /\ rep' = rep
        BY <2>1, SameIsLater, ClusterFacts
  <2> QED BY <2>2, <2>3, CopyStored DEF Kept
<1>2. CASE Next
  <2>1. config.replicas \subseteq Replicas
        BY ConfigFacts
  <2>2. CASE Stored
        BY <2>2, CreateKept, EditKept DEF Stored
  <2>3. CASE \E n \in Names, s \in config.specs \cup {None} : FileChanges(n, s)
        BY <2>3, FileKept
  <2>4. CASE Elsewhere
        BY <2>4, OthersKept DEF Elsewhere
  <2>5. CASE \E r \in config.replicas : Restart(r)
        BY <2>1, <2>5, RestartKept
  <2>6. CASE \E r \in config.replicas, broken \in SUBSET Names : SyncInstalls(r, broken)
        BY <2>1, <2>6, InstallKept
  <2>7. CASE \E r \in config.replicas : SyncRegisters(r)
        BY <2>1, <2>7, RegisterKept
  <2>8. CASE \E r \in config.replicas : SyncEnds(r)
        BY <2>1, <2>8, EndKept
  <2>9. CASE \E r \in config.replicas, n \in Names : SyncReports(r, n) \/ SyncReportFails(r, n)
        BY <2>1, <2>9, ReportKept
  <2>10. CASE \E r \in config.replicas : Heard(r)
        BY <2>1, <2>10, InformsKept DEF Heard
  <2> QED BY <1>2, <2>2, <2>3, <2>4, <2>5, <2>6, <2>7, <2>8, <2>9, <2>10, NextCases
<1> QED BY <1>1, <1>2

LEMMA CopyInit ==
    ASSUME Init
    PROVE  CopyInv
<1>1. TypeOK
      BY TypeInit
<1>2. ASSUME NEW r \in Replicas PROVE CopyOK(rep[r])
  <2>1. rep[r] = Started
        BY DEF Init
  <2>2. /\ Started.lister = objects /\ Started.seen = creds /\ Started.pc = "idle"
        /\ \A n \in Names : Started.last[n] = None /\ Started.due[n] = None
        BY <1>1, StartedFacts, ClusterFacts
  <2>3. \A n \in Names : objects[n] # None => Copies(objects[n], n)
        BY <1>1, ClusterFacts DEF Copies
  <2>4. creds \in Nat
        BY <1>1, ClusterFacts
  <2> QED BY <2>1, <2>2, <2>3, <2>4 DEF CopyOK
<1> QED BY <1>2 DEF CopyInv

\* Whatever the replicas, those who edit projections and those who meddle with
\* registrations do, in any order: every variable keeps its type, and a status
\* speaks of no generation its object has not reached, though it is written by
\* replicas that judged an earlier copy (controller.go, updateStatus).
THEOREM TypeCorrect == Spec => []TypeOK
<1>1. Init => TypeOK /\ CopyInv
      BY TypeInit, CopyInit
<1>2. TypeOK /\ CopyInv /\ [Next]_vars => (TypeOK /\ CopyInv)'
      BY BaseStep DEF Kept
<1> QED BY <1>1, <1>2, PTL DEF Spec

-----------------------------------------------------------------------------
(* What is served follows what is known. *)

\* Two replicas that would compile and rank the same.
Alike(q, w) ==
    \A n \in Names :
        /\ w.lister[n] = None <=> q.lister[n] = None
        /\ w.lister[n].spec = q.lister[n].spec
        /\ w.lister[n].uid = q.lister[n].uid
        /\ standingOf(w.lister[n]) = standingOf(q.lister[n])

LEMMA CandidateSame ==
    ASSUME UNCHANGED files, NEW q, NEW w, Alike(q, w), NEW n \in Names
    PROVE  candidate(w, n)' = candidate(q, n)
BY DEF candidate, Alike

LEMMA DeclaredSame ==
    ASSUME UNCHANGED <<config, files>>, NEW q, NEW w, Alike(q, w)
    PROVE  declaredGroupVersions(w)' = declaredGroupVersions(q)
<1>1. \A n \in Names : candidate(w, n)' = candidate(q, n)
      BY CandidateSame
<1> QED BY <1>1 DEF declaredGroupVersions

LEMMA CompilesSame ==
    ASSUME UNCHANGED <<config, files, creds>>, NEW q, NEW w, Alike(q, w)
    PROVE  Compiles(w, {})' = Compiles(q, {})
<1>1. ASSUME NEW n \in Names PROVE surviving(w, {})'[n] = surviving(q, {})[n]
  <2>1. candidate(w, n)' = candidate(q, n)
        BY CandidateSame
  <2> DEFINE Of(cand) == IF cand = None \/ (cand # None /\ cand.spec.group \notin config.allowed) THEN None
                         ELSE [spec |-> cand.spec, creds |-> creds, file |-> cand.file]
  <2>2. surviving(q, {})[n] = Of(candidate(q, n))
        BY DEF surviving
  <2>3. surviving(w, {})'[n] = Of(candidate(w, n)')
        BY DEF surviving
  <2> QED BY <2>1, <2>2, <2>3
<1>2. surviving(w, {})' = surviving(q, {})
  <2>1. /\ surviving(w, {})' = [n \in Names |-> surviving(w, {})'[n]]
        /\ surviving(q, {}) = [n \in Names |-> surviving(q, {})[n]]
        BY DEF surviving
  <2> QED BY <1>1, <2>1
<1>3. ASSUME NEW m \in Names, NEW n \in Names
      PROVE  ranksAbove(w, m, n)' <=> ranksAbove(q, m, n)
  <2>1. \A k \in Names : rank(w, k)' = rank(q, k)
        BY DEF rank, Alike
  <2>2. \A k \in Names : w.lister[k].uid = q.lister[k].uid
        BY DEF Alike
  <2> QED BY <2>1, <2>2 DEF ranksAbove
<1>4. below(w)' = below(q)
      BY <1>3 DEF below
<1>5. winners(below(w), surviving(w, {}))' = winners(below(q), surviving(q, {}))
  <2>1. winners(below(w), surviving(w, {}))' = winners(below(w)', surviving(w, {})')
        BY DEF winners
  <2> QED BY <1>2, <1>4, <2>1
<1> QED BY <1>2, <1>5 DEF Compiles

SurfaceOK(q) == ~q.queued /\ q.failing = {} /\ q.seen = creds => q.compiled = Compiles(q, {})
SurfaceInv == \A r \in Replicas : SurfaceOK(rep[r])

LEMMA SurfaceSame ==
    ASSUME UNCHANGED <<config, files, creds>>, NEW q, NEW w, SurfaceOK(q),
           \/ w.queued \/ w.failing # {}
           \/ /\ Alike(q, w) /\ w.seen = q.seen /\ w.queued = q.queued /\ w.failing = q.failing
              /\ w.compiled = q.compiled
    PROVE  SurfaceOK(w)'
<1>1. Alike(q, w) => Compiles(w, {})' = Compiles(q, {})
      BY CompilesSame
<1> QED BY <1>1 DEF SurfaceOK

LEMMA SurfaceReplica ==
    ASSUME TypeOK, SurfaceInv, UNCHANGED <<config, files, creds>>,
           NEW r \in Replicas, NEW w \in Replica, rep' = [rep EXCEPT ![r] = w], SurfaceOK(w)'
    PROVE  SurfaceInv'
<1> SUFFICES ASSUME NEW s \in Replicas PROVE SurfaceOK(rep[s])'
    BY DEF SurfaceInv
<1>1. PICK q : q = rep[s]
      OBVIOUS
<1>2. CASE s = r
  <2>1. rep'[s] = w
        BY <1>2, ClusterFacts
  <2> QED BY <2>1
<1>3. CASE s # r
  <2>1. rep'[s] = q
        BY <1>1, <1>3, ClusterFacts
  <2>2. SurfaceOK(q) /\ Alike(q, q)
        BY <1>1 DEF SurfaceInv, Alike
  <2>3. SurfaceOK(q)'
        BY <2>2, SurfaceSame
  <2> QED BY <2>1, <2>3
<1> QED BY <1>2, <1>3

LEMMA SurfaceUnmoved ==
    ASSUME TypeOK, SurfaceInv, UNCHANGED <<config, files, creds, rep>>
    PROVE  SurfaceInv'
<1> SUFFICES ASSUME NEW s \in Replicas PROVE SurfaceOK(rep[s])'
    BY DEF SurfaceInv
<1>1. PICK q : q = rep[s]
      OBVIOUS
<1>2. SurfaceOK(q) /\ Alike(q, q)
      BY <1>1 DEF SurfaceInv, Alike
<1>3. SurfaceOK(q)'
      BY <1>2, SurfaceSame
<1> QED BY <1>1, <1>3

\* An object that arrives and does not queue a sync has changed nothing that a
\* sync goes by.
LEMMA UnnoticedIsAlike ==
    ASSUME TypeOK, CopyInv, NEW r \in Replicas, NEW n \in Names,
           ~wakes(rep[r].lister[n], objects[n]),
           NEW w \in Replica, w.lister = [rep[r].lister EXCEPT ![n] = objects[n]]
    PROVE  Alike(rep[r], w)
<1> DEFINE old == rep[r].lister[n]
           new == objects[n]
<1>1. rep[r].lister \in [Names -> Object \cup {None}]
      BY ReplicaFacts
<1>2. w.lister[n] = new /\ \A m \in Names : m # n => w.lister[m] = rep[r].lister[m]
      BY <1>1
<1>3. old = None <=> new = None
      BY DEF wakes
<1>4. CASE old = None
      BY <1>2, <1>3, <1>4 DEF Alike
<1>5. CASE old # None
  <2>1. new # None /\ old.uid = new.uid /\ old.gen = new.gen /\ standingOf(old) = standingOf(new)
        BY <1>3, <1>5 DEF wakes
  <2>2. Copies(old, n)
        BY <1>5 DEF CopyInv, CopyOK
  <2>3. old.spec = new.spec
        BY <2>1, <2>2 DEF Copies
  <2> HIDE DEF old, new
  <2>4. ASSUME NEW m \in Names
        PROVE  /\ w.lister[m] = None <=> rep[r].lister[m] = None
               /\ w.lister[m].spec = rep[r].lister[m].spec
               /\ w.lister[m].uid = rep[r].lister[m].uid
               /\ standingOf(w.lister[m]) = standingOf(rep[r].lister[m])
    <3>1. CASE m # n
          BY <1>2, <3>1
    <3>2. CASE m = n
          BY <1>2, <1>3, <2>1, <2>3, <3>2 DEF old, new
    <3> QED BY <3>1, <3>2
  <2> QED BY <2>4 DEF Alike
<1> QED BY <1>4, <1>5

LEMMA SurfaceStep ==
    ASSUME TypeOK, CopyInv, SurfaceInv, [Next]_vars
    PROVE  SurfaceInv'
<1>0. config.replicas \subseteq Replicas
      BY ConfigFacts
<1>1. CASE UNCHANGED vars
      BY <1>1, SurfaceUnmoved DEF vars
<1>2. CASE Stored
      BY <1>2, SurfaceUnmoved DEF Stored, Create, Edit, Delete
<1>3. ASSUME NEW n \in Names, NEW s \in config.specs \cup {None}, FileChanges(n, s) PROVE SurfaceInv'
      BY <1>3, FileEffect DEF SurfaceInv, SurfaceOK
<1>4. CASE Elsewhere
  <2>1. CASE Rotate
    <3>1. creds' = creds + 1 /\ rep' = rep
          BY <2>1 DEF Rotate
    <3>2. ASSUME NEW r \in Replicas PROVE rep'[r].seen # creds'
      <4>1. creds \in Nat /\ rep[r].seen \in Nat /\ rep[r].seen <= creds
            BY ClusterFacts, ReplicaFacts DEF CopyInv, CopyOK
      <4> QED BY <3>1, <4>1
    <3> QED BY <3>2 DEF SurfaceInv, SurfaceOK
  <2>2. CASE ~Rotate
        BY <1>4, <2>2, SurfaceUnmoved DEF Elsewhere, Dial, Meddle, Collect
  <2> QED BY <2>1, <2>2
<1>5. ASSUME NEW r \in Replicas, Restart(r) PROVE SurfaceInv'
  <2>1. PICK w : w = Started
        OBVIOUS
  <2>2. w \in Replica /\ w.queued = TRUE
        BY <2>1, StartedFacts, ClusterFacts
  <2>3. UNCHANGED <<config, files, creds>> /\ rep' = [rep EXCEPT ![r] = w]
        BY <1>5, <2>1 DEF Restart, cluster
  <2>4. SurfaceOK(w)'
        BY <2>2 DEF SurfaceOK
  <2> QED BY <2>2, <2>3, <2>4, SurfaceReplica
<1>6. ASSUME NEW r \in Replicas, NEW broken \in SUBSET Names, SyncInstalls(r, broken) PROVE SurfaceInv'
  <2>1. UNCHANGED <<config, files, creds>>
        BY <1>6, InstallEffect
  <2>2. PICK w \in Replica : InstallsAs(r, broken, w)
        BY <1>6, InstallEffect
  <2>3. PICK q : q = rep[r]
        OBVIOUS
  <2>4. /\ rep' = [rep EXCEPT ![r] = w] /\ w.failing = broken /\ w.lister = q.lister
        /\ w.compiled = Compiles(q, broken)
        BY <2>2, <2>3 DEF InstallsAs, SameNews
  <2>5. Alike(q, w)
        BY <2>4 DEF Alike
  <2>6. Compiles(w, {})' = Compiles(q, {})
        BY <2>1, <2>5, CompilesSame
  <2>7. SurfaceOK(w)'
        BY <2>4, <2>6 DEF SurfaceOK
  <2> QED BY <2>1, <2>4, <2>7, SurfaceReplica
<1>7. ASSUME NEW r \in Replicas, NEW w \in Replica, rep' = [rep EXCEPT ![r] = w],
             UNCHANGED <<config, files, creds>>,
             \/ w.queued \/ w.failing # {}
             \/ /\ Alike(rep[r], w) /\ w.seen = rep[r].seen /\ w.queued = rep[r].queued
                /\ w.failing = rep[r].failing /\ w.compiled = rep[r].compiled
      PROVE  SurfaceInv'
  <2>1. PICK q : q = rep[r]
        OBVIOUS
  <2>2. SurfaceOK(q)
        BY <2>1 DEF SurfaceInv
  <2>3. SurfaceOK(w)'
        BY <1>7, <2>1, <2>2, SurfaceSame
  <2> QED BY <1>7, <2>3, SurfaceReplica
<1>8. ASSUME NEW r \in Replicas, SyncRegisters(r) \/ SyncEnds(r) PROVE SurfaceInv'
  <2>1. PICK w \in Replica :
           /\ rep' = [rep EXCEPT ![r] = w] /\ SameNews(w, rep[r]) /\ w.queued = rep[r].queued
           /\ w.compiled = rep[r].compiled /\ w.failing = rep[r].failing
        BY <1>8, RegisterEffect, EndEffect
  <2>2. UNCHANGED <<config, files, creds>>
        BY <1>8, RegisterEffect, EndEffect
  <2>3. Alike(rep[r], w) /\ w.seen = rep[r].seen
        BY <2>1 DEF SameNews, Alike
  <2> QED BY <1>7, <2>1, <2>2, <2>3
<1>9. ASSUME NEW r \in Replicas, NEW n \in Names, SyncReports(r, n) \/ SyncReportFails(r, n)
      PROVE  SurfaceInv'
  <2>1. PICK w \in Replica, o \in Object \cup {None} : ReportsAs(r, n, w, o)
        BY <1>9, ReportEffect
  <2>2. UNCHANGED <<config, files, creds>>
        BY <1>9, ReportEffect
  <2>3. /\ rep' = [rep EXCEPT ![r] = w] /\ SameNews(w, rep[r]) /\ w.queued = rep[r].queued
        /\ w.compiled = rep[r].compiled
        /\ w.failing = rep[r].failing \/ w.failing = rep[r].failing \cup {n}
        BY <2>1 DEF ReportsAs
  <2>4. Alike(rep[r], w) /\ w.seen = rep[r].seen
        BY <2>3 DEF SameNews, Alike
  <2>5. w.failing # {} \/ w.failing = rep[r].failing
        BY <2>3
  <2> QED BY <1>7, <2>2, <2>3, <2>4, <2>5
<1>10. ASSUME NEW r \in Replicas, Heard(r) PROVE SurfaceInv'
  <2>1. ASSUME NEW n \in Names, Deliver(r, n) PROVE SurfaceInv'
    <3>1. PICK w \in Replica :
             /\ rep' = [rep EXCEPT ![r] = w] /\ SameWork(w, rep[r]) /\ w.seen = rep[r].seen
             /\ w.lister = [rep[r].lister EXCEPT ![n] = objects[n]]
             /\ w.queued = (rep[r].queued \/ wakes(rep[r].lister[n], objects[n]))
          BY <2>1, DeliverEffect
    <3>2. UNCHANGED <<config, files, creds>>
          BY <2>1, DeliverEffect
    <3>3. ~w.queued => Alike(rep[r], w)
          BY <3>1, UnnoticedIsAlike
    <3>4. w.queued \/ w.queued = rep[r].queued
      <4>1. rep[r].queued \in BOOLEAN
            BY ReplicaFacts
      <4> QED BY <3>1, <4>1
    <3>5. w.failing = rep[r].failing /\ w.compiled = rep[r].compiled
          BY <3>1 DEF SameWork
    <3> QED BY <1>7, <3>1, <3>2, <3>3, <3>4, <3>5
  <2>2. ASSUME NEW g \in Groups, DeliverAPIService(r, g) PROVE SurfaceInv'
    <3>1. PICK w \in Replica :
             /\ rep' = [rep EXCEPT ![r] = w] /\ SameWork(w, rep[r]) /\ w.seen = rep[r].seen
             /\ w.lister = rep[r].lister
             /\ w.queued = (rep[r].queued \/ ~sameRegistration(rep[r].regs[g], apis[g]))
          BY <2>2, DeliverAPIServiceEffect
    <3>2. UNCHANGED <<config, files, creds>>
          BY <2>2, DeliverAPIServiceEffect
    <3>3. Alike(rep[r], w)
          BY <3>1 DEF Alike
    <3>4. w.queued \/ w.queued = rep[r].queued
      <4>1. rep[r].queued \in BOOLEAN
            BY ReplicaFacts
      <4> QED BY <3>1, <4>1
    <3>5. w.failing = rep[r].failing /\ w.compiled = rep[r].compiled
          BY <3>1 DEF SameWork
    <3> QED BY <1>7, <3>1, <3>2, <3>3, <3>4, <3>5
  <2>3. ASSUME DeliverSecret(r) \/ Recheck(r) PROVE SurfaceInv'
    <3>1. PICK w \in Replica : rep' = [rep EXCEPT ![r] = w] /\ w.queued = TRUE
          BY <2>3, WakeEffect
    <3>2. UNCHANGED <<config, files, creds>>
          BY <2>3, WakeEffect
    <3> QED BY <1>7, <3>1, <3>2
  <2> QED BY <1>10, <2>1, <2>2, <2>3 DEF Heard
<1>11. CASE Next
      BY <1>0, <1>2, <1>3, <1>4, <1>5, <1>6, <1>8, <1>9, <1>10, <1>11, NextCases
<1> QED BY <1>1, <1>11

\* The order of claims is an order, among the names that stand for something.
LEMMA RankOrder ==
    ASSUME TypeOK, NEW r \in Replicas
    PROVE  LET known == {n \in Names : candidate(rep[r], n) # None} IN
           /\ \A x \in known : x \notin below(rep[r])[x]
           /\ \A x, y, z \in known :
                  y \in below(rep[r])[x] /\ z \in below(rep[r])[y] => z \in below(rep[r])[x]
<1> DEFINE q == rep[r]
           known == {n \in Names : candidate(q, n) # None}
           created(k) == IF files[k] # None THEN 0 ELSE q.lister[k].uid
<1>1. ASSUME NEW k \in known PROVE rank(q, k) \in Nat /\ created(k) \in Nat /\ nameOrder[k] \in Nat
  <2>1. rank(q, k) \in {0, 1, 2}
    <3>1. standingOf(q.lister[k]) \in {"serving", "unknown", "lost"}
          BY DEF standingOf
    <3> QED BY <3>1 DEF rank
  <2>2. created(k) \in Nat
    <3>1. CASE files[k] # None
          BY <3>1
    <3>2. CASE files[k] = None
      <4>1. q.lister[k] # None
            BY <3>2, CandidateType
      <4>2. q.lister[k].uid \in Nat
            BY <4>1, CopyFacts
      <4> QED BY <3>2, <4>2
    <3> QED BY <3>1, <3>2
  <2>3. nameOrder[k] \in Nat
        BY NameOrderProperty
  <2> QED BY <2>1, <2>2, <2>3
<1>2. \A x, y \in known : y \in below(q)[x] <=>
          \/ rank(q, x) < rank(q, y)
          \/ /\ rank(q, x) = rank(q, y)
             /\ \/ created(x) < created(y)
                \/ created(x) = created(y) /\ nameOrder[x] < nameOrder[y]
      BY DEF below, ranksAbove
<1> HIDE DEF known, created, q
<1>3. ASSUME NEW x \in known PROVE x \notin below(q)[x]
      BY <1>1, <1>2
<1>4. ASSUME NEW x \in known, NEW y \in known, NEW z \in known, y \in below(q)[x], z \in below(q)[y]
      PROVE  z \in below(q)[x]
  <2>1. PICK rx, ry, rz, cx, cy, cz, nx, ny, nz :
            /\ rx = rank(q, x) /\ ry = rank(q, y) /\ rz = rank(q, z)
            /\ cx = created(x) /\ cy = created(y) /\ cz = created(z)
            /\ nx = nameOrder[x] /\ ny = nameOrder[y] /\ nz = nameOrder[z]
        OBVIOUS
  <2>2. /\ rx \in Nat /\ ry \in Nat /\ rz \in Nat /\ cx \in Nat /\ cy \in Nat /\ cz \in Nat
        /\ nx \in Nat /\ ny \in Nat /\ nz \in Nat
        BY <1>1, <2>1
  <2>3. /\ rx < ry \/ (rx = ry /\ (cx < cy \/ (cx = cy /\ nx < ny)))
        /\ ry < rz \/ (ry = rz /\ (cy < cz \/ (cy = cz /\ ny < nz)))
        BY <1>2, <1>4, <2>1
  <2>4. rx < rz \/ (rx = rz /\ (cx < cz \/ (cx = cz /\ nx < nz)))
        BY <2>2, <2>3
  <2> QED BY <1>2, <2>1, <2>4
<1> QED BY <1>3, <1>4 DEF known, q

\* What a sync that nothing fails in compiles: each candidate that may be served,
\* as it is now, unless another that is served claims what it does.
LEMMA CompilesSettled ==
    ASSUME TypeOK, NEW r \in Replicas, NEW n \in Names
    PROVE  LET served == Compiles(rep[r], {})
               cand == candidate(rep[r], n) IN
           IF served[n] # None
           THEN cand # None /\ served[n] = [spec |-> cand.spec, creds |-> creds, file |-> cand.file]
           ELSE \/ cand = None
                \/ cand.spec.group \notin config.allowed
                \/ \E m \in Names \ {n} : served[m] # None
                       /\ served[m].spec.claims \cap cand.spec.claims # {}
<1> DEFINE q == rep[r]
           surv == surviving(q, {})
           order == below(q)
           won == winners(order, surv)
           ns == {x \in Names : surv[x] # None}
           served == Compiles(q, {})
           cand == candidate(q, n)
<1>1. \A x \in Names : served[x] = IF x \in won THEN surv[x] ELSE None
      BY DEF Compiles
<1>2. \A x \in Names : surv[x] # None => candidate(q, x) # None
      BY SurvivingType
<1>3. /\ \A x \in Names : surv[x] # None => x \notin order[x]
      /\ \A x, y, z \in Names : surv[x] # None /\ surv[y] # None /\ surv[z] # None =>
             (y \in order[x] /\ z \in order[y] => z \in order[x])
  <2> DEFINE known == {x \in Names : candidate(q, x) # None}
  <2>1. /\ \A x \in known : x \notin order[x]
        /\ \A x, y, z \in known : y \in order[x] /\ z \in order[y] => z \in order[x]
        BY RankOrder
  <2> HIDE DEF surv, order
  <2>2. \A x \in Names : surv[x] # None => x \in known
        BY <1>2
  <2> HIDE DEF known
  <2> QED BY <2>1, <2>2
<1>4. won \subseteq ns /\ Settled(ns, won, order, surv)
  <2>1. PICK s, o : s = surv /\ o = order
        OBVIOUS
  <2> HIDE DEF surv, order
  <2>2. LET t == {x \in Names : s[x] # None} IN winners(o, s) \subseteq t /\ Settled(t, winners(o, s), o, s)
        BY <1>3, <2>1, WinnersSettle
  <2> QED BY <2>1, <2>2
<1>5. /\ surv[n] # None => cand # None /\ surv[n] = [spec |-> cand.spec, creds |-> creds, file |-> cand.file]
      /\ surv[n] = None => cand = None \/ cand.spec.group \notin config.allowed
      BY SurvivingType
<1> HIDE DEF surv, order, won, served, cand, q
<1>6. CASE n \in won
      BY <1>1, <1>4, <1>5, <1>6 DEF q, served, cand
<1>7. CASE n \notin won /\ surv[n] = None
      BY <1>1, <1>5, <1>7 DEF q, served, cand
<1>8. CASE n \notin won /\ surv[n] # None
  <2>1. PICK m \in won \ {n} : surv[m].spec.claims \cap surv[n].spec.claims # {}
        BY <1>4, <1>8 DEF Settled
  <2>2. m \in Names \ {n} /\ served[m] = surv[m] /\ surv[m] # None
        BY <1>1, <1>4, <2>1
  <2>3. surv[n].spec = cand.spec
        BY <1>5, <1>8
  <2>4. served[n] = None
        BY <1>1, <1>8
  <2> QED BY <2>1, <2>2, <2>3, <2>4 DEF q, served, cand
<1> QED BY <1>6, <1>7, <1>8

\* Replicas that list the same compile the same.
LEMMA CompilesTogether ==
    ASSUME NEW q, NEW w, q.lister = w.lister
    PROVE  Compiles(q, {}) = Compiles(w, {})
<1>1. \A n \in Names : candidate(q, n) = candidate(w, n) /\ rank(q, n) = rank(w, n)
      BY DEF candidate, rank
<1>2. surviving(q, {}) = surviving(w, {})
      BY <1>1 DEF surviving
<1>3. \A m, n \in Names : ranksAbove(q, m, n) <=> ranksAbove(w, m, n)
      BY <1>1 DEF ranksAbove
<1>4. below(q) = below(w)
      BY <1>3 DEF below
<1> QED BY <1>2, <1>4 DEF Compiles

LEMMA SurfaceHolds ==
    ASSUME TypeOK, SurfaceInv
    PROVE  SurfaceSettled
<1> SUFFICES ASSUME Quiet, Faultless, NEW r \in config.replicas
             PROVE  LET served == rep[r].compiled IN
                    /\ \A r2 \in config.replicas : rep[r2].compiled = served
                    /\ \A n \in Names :
                           LET cand == candidate(rep[r], n) IN
                           IF served[n] # None
                           THEN cand # None /\ served[n] = [spec |-> cand.spec, creds |-> creds,
                                                            file |-> cand.file]
                           ELSE \/ cand = None
                                \/ cand.spec.group \notin config.allowed
                                \/ \E m \in Names \ {n} : served[m] # None
                                       /\ served[m].spec.claims \cap cand.spec.claims # {}
    BY DEF SurfaceSettled
<1>1. config.replicas \subseteq Replicas
      BY ConfigFacts
<1>2. \A s \in config.replicas : rep[s].compiled = Compiles(rep[s], {}) /\ rep[s].lister = objects
      BY <1>1 DEF SurfaceInv, SurfaceOK, Quiet, Faultless
<1>3. \A s \in config.replicas : rep[s].compiled = rep[r].compiled
  <2> SUFFICES ASSUME NEW s \in config.replicas PROVE rep[s].compiled = rep[r].compiled
      OBVIOUS
  <2>1. rep[s].lister = rep[r].lister
        BY <1>2
  <2>2. Compiles(rep[s], {}) = Compiles(rep[r], {})
        BY <2>1, CompilesTogether
  <2> QED BY <1>2, <2>2
<1>4. ASSUME NEW n \in Names
      PROVE  LET served == Compiles(rep[r], {})
                 cand == candidate(rep[r], n) IN
             IF served[n] # None
             THEN cand # None /\ served[n] = [spec |-> cand.spec, creds |-> creds, file |-> cand.file]
             ELSE \/ cand = None
                  \/ cand.spec.group \notin config.allowed
                  \/ \E m \in Names \ {n} : served[m] # None
                         /\ served[m].spec.claims \cap cand.spec.claims # {}
      BY <1>1, CompilesSettled
<1>5. rep[r].compiled = Compiles(rep[r], {})
      BY <1>2
<1> QED BY <1>3, <1>4, <1>5

LEMMA SurfaceInit ==
    ASSUME Init
    PROVE  SurfaceInv
BY DEF Init, Started, SurfaceInv, SurfaceOK

\* Every replica that has heard of everything, in whatever order it listed, heard,
\* was restarted and synced, serves the same: each projection as it is now, unless
\* another that is served claims what it does (controller.go, resolveClaims).
THEOREM SurfaceAgreed == Spec => []SurfaceSettled
<1> DEFINE Inv == TypeOK /\ CopyInv /\ SurfaceInv
<1>1. Init => Inv
      BY TypeInit, CopyInit, SurfaceInit
<1>2. Inv /\ [Next]_vars => Inv'
      BY BaseStep, SurfaceStep DEF Kept
<1>3. Inv => SurfaceSettled
      BY SurfaceHolds
<1> QED BY <1>1, <1>2, <1>3, PTL DEF Spec

-----------------------------------------------------------------------------
(* What is registered follows what is served. *)

\* After a sync registered, and until it is to sync again, a replica saw every
\* group version it serves routed here; while it is to register, it knows what is
\* declared.
Stands(q) ==
    /\ q.pc # "register" /\ ~q.queued /\ ~q.recheck => \A g \in wanted(q) : routesHere(q.regs[g])
    /\ q.pc = "register" /\ ~q.queued =>
          q.declared = declaredGroupVersions(q) /\ (q.failing = {} => wanted(q) \subseteq q.declared)
\* A registration of this server's is one that some replica wants, or will prune, or
\* has yet to hear of.
Answers(q, g) ==
    q.regs[g].route # "ours" \/ q.queued \/ q.pc = "register" \/ q.failing # {} \/ g \in declaredGroupVersions(q)
Answered(g) == \E r \in config.replicas : Answers(rep[r], g)
RegInv ==
    config.apiServices =>
        /\ \A r \in Replicas : Stands(rep[r])
        /\ config.replicas # {} => \A g \in Groups : apis[g].route = "ours" => Answered(g)

\* What a step may change of a replica without touching its registrations.
Kin(q, w) ==
    /\ Alike(q, w) /\ \A g \in Groups : w.regs[g].route = q.regs[g].route
    /\ w.queued = q.queued /\ w.pc = q.pc /\ w.compiled = q.compiled /\ w.declared = q.declared
    /\ w.failing = q.failing /\ w.recheck = q.recheck

LEMMA WantedType ==
    ASSUME NEW q \in Replica
    PROVE  wanted(q) \subseteq Groups
<1>1. q.compiled \in [Names -> Compilation \cup {None}]
      BY DEF Replica
<1>2. \A s \in Specs : s.group \in Groups
      BY ProjectionsAssumption
<1>3. \A n \in Names : q.compiled[n] # None => q.compiled[n].spec \in Specs
      BY <1>1 DEF Compilation
<1> QED BY <1>2, <1>3 DEF wanted

LEMMA KinStands ==
    ASSUME UNCHANGED <<config, files>>, NEW q \in Replica, NEW w \in Replica,
           w.queued = TRUE \/ Kin(q, w), Stands(q)
    PROVE  /\ Stands(w)'
           /\ \A g \in Groups : Answers(q, g) => Answers(w, g)'
<1>1. CASE w.queued = TRUE
      BY <1>1 DEF Stands, Answers
<1>2. CASE Kin(q, w)
  <2>1. declaredGroupVersions(w)' = declaredGroupVersions(q)
        BY <1>2, DeclaredSame DEF Kin
  <2>2. wanted(w) = wanted(q) /\ wanted(q) \subseteq Groups
        BY <1>2, WantedType DEF Kin, wanted
  <2>3. \A g \in Groups : routesHere(w.regs[g]) <=> routesHere(q.regs[g])
        BY <1>2 DEF Kin, routesHere
  <2>4. /\ w.queued = q.queued /\ w.pc = q.pc /\ w.declared = q.declared
        /\ w.failing = q.failing /\ w.recheck = q.recheck
        /\ \A g \in Groups : w.regs[g].route = q.regs[g].route
        BY <1>2 DEF Kin
  <2>5. Stands(w)'
        BY <2>1, <2>2, <2>3, <2>4 DEF Stands
  <2>6. \A g \in Groups : Answers(q, g) => Answers(w, g)'
        BY <2>1, <2>4 DEF Answers
  <2> QED BY <2>5, <2>6
<1> QED BY <1>1, <1>2

LEMMA KinItself ==
    ASSUME NEW q
    PROVE  Kin(q, q)
BY DEF Kin, Alike

LEMMA RegReplica ==
    ASSUME TypeOK, RegInv, UNCHANGED <<config, files>>, config.apiServices,
           NEW r \in config.replicas, NEW w \in Replica, rep' = [rep EXCEPT ![r] = w], Stands(w)',
           \A g \in Groups : apis'[g].route = "ours" =>
               Answers(w, g)' \/ (apis[g].route = "ours" /\ (Answers(rep[r], g) => Answers(w, g)'))
    PROVE  RegInv'
<1>1. r \in Replicas /\ config.replicas \subseteq Replicas /\ rep \in [Replicas -> Replica]
      BY ConfigFacts, ClusterFacts
<1>2. rep'[r] = w /\ \A s \in Replicas : s # r => rep'[s] = rep[s]
      BY <1>1
<1>3. ASSUME NEW s \in Replicas, s # r
      PROVE  Stands(rep[s])' /\ \A g \in Groups : Answers(rep[s], g) => Answers(rep[s], g)'
  <2>1. PICK q : q = rep[s]
        OBVIOUS
  <2>2. q \in Replica /\ Stands(q) /\ Kin(q, q)
        BY <1>1, <2>1, KinItself DEF RegInv
  <2>3. Stands(q)' /\ \A g \in Groups : Answers(q, g) => Answers(q, g)'
        BY <2>2, KinStands
  <2>4. rep'[s] = q
        BY <1>2, <1>3, <2>1
  <2> QED BY <2>1, <2>3, <2>4
<1>4. Stands(rep[r])' /\ \A g \in Groups : Answers(w, g)' <=> Answers(rep[r], g)'
      BY <1>2
<1>5. ASSUME NEW g \in Groups, apis'[g].route = "ours" PROVE Answered(g)'
  <2>1. CASE Answers(w, g)'
        BY <1>4, <2>1 DEF Answered
  <2>2. CASE apis[g].route = "ours" /\ (Answers(rep[r], g) => Answers(w, g)')
    <3>1. PICK s \in config.replicas : Answers(rep[s], g)
          BY <2>2 DEF RegInv, Answered
    <3>2. Answers(rep[s], g)'
          BY <1>1, <1>3, <1>4, <2>2, <3>1
    <3> QED BY <3>2 DEF Answered
  <2> QED BY <1>5, <2>1, <2>2
<1> QED BY <1>3, <1>4, <1>5 DEF RegInv

LEMMA RegUnmoved ==
    ASSUME TypeOK, RegInv, UNCHANGED <<config, files, rep>>,
           \A g \in Groups : apis'[g].route = "ours" => apis[g].route = "ours"
    PROVE  RegInv'
<1> SUFFICES ASSUME config.apiServices PROVE RegInv'
    BY DEF RegInv
<1>1. config.replicas \subseteq Replicas
      BY ConfigFacts
<1>2. ASSUME NEW s \in Replicas
      PROVE  Stands(rep[s])' /\ \A g \in Groups : Answers(rep[s], g) => Answers(rep[s], g)'
  <2>1. PICK q : q = rep[s]
        OBVIOUS
  <2>2. q \in Replica /\ Stands(q) /\ Kin(q, q)
        BY <2>1, ReplicaFacts, KinItself DEF RegInv
  <2>3. Stands(q)' /\ \A g \in Groups : Answers(q, g) => Answers(q, g)'
        BY <2>2, KinStands
  <2> QED BY <2>1, <2>3
<1>3. ASSUME NEW g \in Groups, apis'[g].route = "ours", config.replicas # {} PROVE Answered(g)'
  <2>1. PICK s \in config.replicas : Answers(rep[s], g)
        BY <1>3 DEF RegInv, Answered
  <2>2. Answers(rep[s], g)'
        BY <1>1, <1>2, <2>1
  <2> QED BY <2>2 DEF Answered
<1> QED BY <1>2, <1>3 DEF RegInv

\* A sync that registers leaves nothing of this server's that it does not answer for.
LEMMA RegisterAnswers ==
    ASSUME TypeOK, RegInv, config.apiServices, NEW r \in Replicas, SyncRegisters(r),
           NEW w \in Replica, SameNews(w, rep[r]), w.queued = rep[r].queued, w.failing = rep[r].failing,
           NEW g \in Groups, apis'[g].route = "ours"
    PROVE  Answers(w, g)'
<1>1. PICK q : q = rep[r]
      OBVIOUS
<1>2. /\ w.regs = q.regs /\ w.lister = q.lister /\ w.queued = q.queued /\ w.failing = q.failing
      /\ q.pc = "register" /\ Stands(q) /\ UNCHANGED <<config, files>>
      BY <1>1, RegisterEffect DEF SameNews, RegInv
<1>3. SUFFICES ASSUME q.regs[g].route = "ours", ~q.queued, q.failing = {} PROVE g \in declaredGroupVersions(w)'
      BY <1>2 DEF Answers
<1>4. declaredGroupVersions(w)' = declaredGroupVersions(q)
  <2>1. Alike(q, w)
        BY <1>2 DEF Alike
  <2> QED BY <1>2, <2>1, DeclaredSame
<1>5. q.declared = declaredGroupVersions(q) /\ wanted(q) \subseteq q.declared
      BY <1>2, <1>3 DEF Stands
<1>6. g \in wanted(q) \/ ~prunes(q, g)
  <2>1. SUFFICES ASSUME g \notin wanted(q), prunes(q, g) PROVE FALSE
        OBVIOUS
  <2>2. apis'[g] = Absent
        BY <1>1, <2>1, RegisterEffect
  <2> QED BY <2>2 DEF Absent, Registration
<1> QED BY <1>3, <1>4, <1>5, <1>6 DEF prunes

LEMMA RegStep ==
    ASSUME TypeOK, CopyInv, RegInv, [Next]_vars
    PROVE  RegInv'
<1>0. config.replicas \subseteq Replicas /\ apis \in [Groups -> APIService]
      BY ConfigFacts, ClusterFacts
<1>1. CASE UNCHANGED vars
      BY <1>1, RegUnmoved DEF vars
<1>2. CASE Stored
      BY <1>2, RegUnmoved DEF Stored, Create, Edit, Delete
<1>3. CASE Elsewhere
  <2>1. UNCHANGED <<config, files, rep>>
        BY <1>3 DEF Elsewhere, Rotate, Dial, Meddle, Collect
  <2>2. \A g \in Groups : apis'[g].route = "ours" => apis[g].route = "ours"
    <3>1. ASSUME NEW h \in Groups, NEW v \in {"up", "down"}, Dial(h, v) PROVE <2>2!:
      <4>1. apis' = [apis EXCEPT ![h] = [apis[h] EXCEPT !.available = v]] /\ apis[h] \in APIService
            BY <1>0, <3>1 DEF Dial
      <4>2. [apis[h] EXCEPT !.available = v].route = apis[h].route
            BY <4>1 DEF APIService
      <4> QED BY <1>0, <4>1, <4>2
    <3>2. ASSUME NEW h \in Groups, NEW v \in {"absent", "elsewhere"}, Meddle(h, v) PROVE <2>2!:
          BY <1>0, <3>2 DEF Meddle, Registration
    <3>3. ASSUME NEW h \in Groups, Collect(h) PROVE <2>2!:
          BY <1>0, <3>3 DEF Collect, Absent, Registration
    <3>4. ASSUME Rotate PROVE <2>2!:
          BY <3>4 DEF Rotate
    <3> QED BY <1>3, <3>1, <3>2, <3>3, <3>4 DEF Elsewhere
  <2> QED BY <2>1, <2>2, RegUnmoved
<1>4. CASE config.apiServices
  <2>1. ASSUME NEW n \in Names, NEW s \in config.specs \cup {None}, FileChanges(n, s) PROVE RegInv'
    <3>1. /\ UNCHANGED <<config, apis>> /\ \A r \in Replicas : rep'[r].queued = TRUE
          BY <2>1, FileEffect
    <3>2. \A r \in Replicas : Stands(rep[r])'
          BY <3>1 DEF Stands
    <3>3. \A r \in Replicas : \A g \in Groups : Answers(rep[r], g)'
          BY <3>1 DEF Answers
    <3> QED BY <1>0, <3>1, <3>2, <3>3 DEF RegInv, Answered
  <2>2. ASSUME NEW r \in config.replicas, NEW w \in Replica, rep' = [rep EXCEPT ![r] = w],
               UNCHANGED <<config, files, apis>>, Stands(w)',
               \A g \in Groups : apis[g].route = "ours" /\ Answers(rep[r], g) => Answers(w, g)'
        PROVE  RegInv'
        BY <1>4, <2>2, RegReplica
  <2>3. ASSUME NEW r \in config.replicas, NEW w \in Replica, rep' = [rep EXCEPT ![r] = w],
               UNCHANGED <<config, files, apis>>, w.queued = TRUE \/ Kin(rep[r], w)
        PROVE  RegInv'
    <3>1. PICK q : q = rep[r]
          OBVIOUS
    <3>2. q \in Replica /\ Stands(q)
          BY <1>0, <1>4, <3>1, ReplicaFacts DEF RegInv
    <3>3. Stands(w)' /\ \A g \in Groups : Answers(q, g) => Answers(w, g)'
          BY <2>3, <3>1, <3>2, KinStands
    <3> QED BY <2>2, <2>3, <3>1, <3>3
  <2>4. ASSUME NEW r \in config.replicas, Restart(r) PROVE RegInv'
    <3>1. PICK w : w = Started
          OBVIOUS
    <3>2. w \in Replica /\ w.queued = TRUE
          BY <3>1, StartedFacts, ClusterFacts
    <3>3. UNCHANGED <<config, files, apis>> /\ rep' = [rep EXCEPT ![r] = w]
          BY <2>4, <3>1 DEF Restart, cluster
    <3> QED BY <2>3, <3>2, <3>3
  <2>5. ASSUME NEW r \in config.replicas, NEW broken \in SUBSET Names, SyncInstalls(r, broken)
        PROVE  RegInv'
    <3>1. UNCHANGED <<config, files, apis>>
          BY <1>0, <2>5, InstallEffect
    <3>2. PICK w \in Replica : InstallsAs(r, broken, w)
          BY <1>0, <2>5, InstallEffect
    <3>3. PICK q : q = rep[r]
          OBVIOUS
    <3>4. /\ rep' = [rep EXCEPT ![r] = w] /\ w.failing = broken /\ w.lister = q.lister
          /\ w.compiled = Compiles(q, broken) /\ w.pc = "register" /\ w.declared = declaredGroupVersions(q)
          BY <1>4, <3>2, <3>3 DEF InstallsAs, SameNews
    <3>5. declaredGroupVersions(w)' = declaredGroupVersions(q)
      <4>1. Alike(q, w)
            BY <3>4 DEF Alike
      <4> QED BY <3>1, <4>1, DeclaredSame
    <3>6. ASSUME broken = {} PROVE wanted(w) \subseteq declaredGroupVersions(q)
      <4> SUFFICES ASSUME NEW n \in Names, w.compiled[n] # None
                   PROVE  w.compiled[n].spec.group \in declaredGroupVersions(q)
          BY DEF wanted
      <4> DEFINE s == surviving(rep[r], {})[n]
                 cand == candidate(rep[r], n)
      <4>1. w.compiled[n] = s /\ s # None
            BY <3>3, <3>4, <3>6 DEF Compiles
      <4>2. /\ cand # None /\ cand.spec.group \in config.allowed
            /\ s = [spec |-> cand.spec, creds |-> creds, file |-> cand.file]
            BY <1>0, <4>1, SurvivingType
      <4>3. s.spec = cand.spec
            BY <4>2
      <4>4. cand.spec.group \in declaredGroupVersions(q)
            BY <3>3, <4>2 DEF declaredGroupVersions
      <4> QED BY <4>1, <4>3, <4>4
    <3>7. Stands(w)'
          BY <3>4, <3>5, <3>6 DEF Stands
    <3>8. \A g \in Groups : Answers(w, g)'
          BY <3>4 DEF Answers
    <3> QED BY <2>2, <3>1, <3>4, <3>7, <3>8
  <2>6. ASSUME NEW r \in config.replicas, SyncRegisters(r) PROVE RegInv'
    <3>1. PICK w \in Replica :
             /\ rep' = [rep EXCEPT ![r] = w] /\ SameNews(w, rep[r]) /\ w.queued = rep[r].queued
             /\ w.compiled = rep[r].compiled /\ w.failing = rep[r].failing /\ w.pc = "status"
             /\ w.recheck = \E g \in wanted(rep[r]) : unroutable(rep[r], g) \/ pending(rep[r], g)
          BY <1>0, <2>6, RegisterEffect
    <3>2. UNCHANGED <<config, files>>
          BY <1>0, <2>6, RegisterEffect
    <3>3. \A g \in Groups : apis'[g].route = "ours" => Answers(w, g)'
          BY <1>0, <1>4, <2>6, <3>1, RegisterAnswers
    <3>4. Stands(w)'
      <4>1. wanted(w) = wanted(rep[r]) /\ w.regs = rep[r].regs
            BY <3>1 DEF wanted, SameNews
      <4>2. \A g \in wanted(w) : ~unroutable(rep[r], g) => routesHere(w.regs[g])
            BY <4>1 DEF unroutable
      <4> QED BY <3>1, <4>1, <4>2 DEF Stands
    <3> QED BY <1>4, <3>1, <3>2, <3>3, <3>4, RegReplica
  <2>7. ASSUME NEW r \in config.replicas, SyncEnds(r) PROVE RegInv'
    <3>1. PICK w \in Replica :
             /\ rep' = [rep EXCEPT ![r] = w] /\ SameNews(w, rep[r]) /\ w.queued = rep[r].queued
             /\ w.compiled = rep[r].compiled /\ w.failing = rep[r].failing /\ w.pc = "idle"
             /\ w.recheck = rep[r].recheck
          BY <1>0, <2>7, EndEffect
    <3>2. UNCHANGED <<config, files, apis>> /\ rep[r].pc = "status"
          BY <1>0, <2>7, EndEffect
    <3>3. PICK q : q = rep[r]
          OBVIOUS
    <3>4. Stands(q) /\ wanted(w) = wanted(q) /\ w.regs = q.regs /\ Alike(q, w)
          BY <1>0, <1>4, <3>1, <3>3 DEF RegInv, wanted, SameNews, Alike
    <3>5. declaredGroupVersions(w)' = declaredGroupVersions(q)
          BY <3>2, <3>4, DeclaredSame
    <3>6. Stands(w)'
          BY <3>1, <3>2, <3>3, <3>4 DEF Stands
    <3>7. \A g \in Groups : Answers(q, g) => Answers(w, g)'
          BY <3>1, <3>2, <3>3, <3>4, <3>5 DEF Answers
    <3> QED BY <2>2, <3>1, <3>2, <3>3, <3>6, <3>7
  <2>8. ASSUME NEW r \in config.replicas, NEW n \in Names, SyncReports(r, n) \/ SyncReportFails(r, n)
        PROVE  RegInv'
    <3>1. PICK w \in Replica, o \in Object \cup {None} : ReportsAs(r, n, w, o)
          BY <1>0, <2>8, ReportEffect
    <3>2. UNCHANGED <<config, files, apis>> /\ rep[r].pc = "status"
          BY <1>0, <2>8, ReportEffect
    <3>3. PICK q : q = rep[r]
          OBVIOUS
    <3>4. /\ rep' = [rep EXCEPT ![r] = w] /\ SameNews(w, q) /\ w.queued = q.queued
          /\ w.compiled = q.compiled /\ w.pc = q.pc /\ w.recheck = q.recheck
          /\ q.failing # {} => w.failing # {}
          BY <3>1, <3>3 DEF ReportsAs
    <3>5. Stands(q) /\ wanted(w) = wanted(q) /\ w.regs = q.regs /\ Alike(q, w)
          BY <1>0, <1>4, <3>3, <3>4 DEF RegInv, wanted, SameNews, Alike
    <3>6. declaredGroupVersions(w)' = declaredGroupVersions(q)
          BY <3>2, <3>5, DeclaredSame
    <3>7. Stands(w)'
          BY <3>2, <3>3, <3>4, <3>5 DEF Stands
    <3>8. \A g \in Groups : Answers(q, g) => Answers(w, g)'
          BY <3>4, <3>5, <3>6 DEF Answers
    <3> QED BY <2>2, <3>2, <3>3, <3>4, <3>7, <3>8
  <2>9. ASSUME NEW r \in config.replicas, Heard(r) PROVE RegInv'
    <3>1. ASSUME NEW n \in Names, Deliver(r, n) PROVE RegInv'
      <4>1. PICK w \in Replica :
               /\ rep' = [rep EXCEPT ![r] = w] /\ SameWork(w, rep[r]) /\ w.regs = rep[r].regs
               /\ w.recheck = rep[r].recheck
               /\ w.lister = [rep[r].lister EXCEPT ![n] = objects[n]]
               /\ w.queued = (rep[r].queued \/ wakes(rep[r].lister[n], objects[n]))
            BY <1>0, <3>1, DeliverEffect
      <4>2. UNCHANGED <<config, files, apis>>
            BY <1>0, <3>1, DeliverEffect
      <4>3. ~w.queued => Alike(rep[r], w)
            BY <1>0, <4>1, UnnoticedIsAlike
      <4>4. w.queued = TRUE \/ (~w.queued /\ w.queued = rep[r].queued)
        <5>1. rep[r].queued \in BOOLEAN
              BY <1>0, ReplicaFacts
        <5> QED BY <4>1, <5>1
      <4>5. w.queued = TRUE \/ Kin(rep[r], w)
            BY <4>1, <4>3, <4>4 DEF Kin, SameWork
      <4> QED BY <2>3, <4>1, <4>2, <4>5
    <3>2. ASSUME NEW g \in Groups, DeliverAPIService(r, g) PROVE RegInv'
      <4>1. PICK w \in Replica :
               /\ rep' = [rep EXCEPT ![r] = w] /\ SameWork(w, rep[r]) /\ w.lister = rep[r].lister
               /\ w.recheck = rep[r].recheck /\ w.regs = [rep[r].regs EXCEPT ![g] = apis[g]]
               /\ w.queued = (rep[r].queued \/ ~sameRegistration(rep[r].regs[g], apis[g]))
            BY <1>0, <3>2, DeliverAPIServiceEffect
      <4>2. UNCHANGED <<config, files, apis>>
            BY <1>0, <3>2, DeliverAPIServiceEffect
      <4>3. w.queued = TRUE \/ (~w.queued /\ w.queued = rep[r].queued)
        <5>1. rep[r].queued \in BOOLEAN
              BY <1>0, ReplicaFacts
        <5> QED BY <4>1, <5>1
      <4>4. ASSUME ~w.queued PROVE \A h \in Groups : w.regs[h].route = rep[r].regs[h].route
        <5>1. sameRegistration(rep[r].regs[g], apis[g]) /\ rep[r].regs \in [Groups -> APIService]
              BY <1>0, <4>1, <4>4, ReplicaFacts
        <5>2. PICK a, b : a = rep[r].regs[g] /\ b = apis[g]
              OBVIOUS
        <5>3. a \in APIService /\ b \in APIService /\ [a EXCEPT !.owners = {}] = [b EXCEPT !.owners = {}]
              BY <1>0, <5>1, <5>2 DEF sameRegistration
        <5>4. [a EXCEPT !.owners = {}].route = a.route /\ [b EXCEPT !.owners = {}].route = b.route
              BY <5>3 DEF APIService
        <5>5. a.route = b.route
              BY <5>3, <5>4
        <5> QED BY <4>1, <5>1, <5>2, <5>5
      <4>5. w.queued = TRUE \/ Kin(rep[r], w)
            BY <4>1, <4>3, <4>4 DEF Kin, SameWork, Alike
      <4> QED BY <2>3, <4>1, <4>2, <4>5
    <3>3. ASSUME DeliverSecret(r) \/ Recheck(r) PROVE RegInv'
      <4>1. PICK w \in Replica : rep' = [rep EXCEPT ![r] = w] /\ w.queued = TRUE
            BY <1>0, <3>3, WakeEffect
      <4>2. UNCHANGED <<config, files, apis>>
            BY <1>0, <3>3, WakeEffect
      <4> QED BY <2>3, <4>1, <4>2
    <3> QED BY <2>9, <3>1, <3>2, <3>3 DEF Heard
  <2>10. CASE Next
        BY <1>2, <1>3, <2>1, <2>4, <2>5, <2>6, <2>7, <2>8, <2>9, <2>10, NextCases
  <2> QED BY <1>1, <2>10
<1>5. CASE ~config.apiServices
  <2>1. config' = config
        BY <1>1, BaseStep, ZenonT(40) DEF Next, Others, Works, Informs, vars, cluster, Create, Edit, Delete, FileChanges,
           Rotate, Dial, Meddle, Collect, Restart, SyncInstalls, SyncRegisters, SyncEnds, SyncReports,
           SyncReportFails, Reports, Deliver, DeliverAPIService, DeliverSecret, Recheck
  <2> QED BY <1>5, <2>1 DEF RegInv
<1> QED BY <1>4, <1>5

LEMMA RegHolds ==
    ASSUME TypeOK, RegInv
    PROVE  RegistrationsSettled
<1> SUFFICES ASSUME Quiet, config.apiServices, NEW r \in config.replicas, NEW g \in Groups
             PROVE  /\ g \in wanted(rep[r]) => apis[g].route # "absent"
                    /\ Faultless /\ apis[g].route = "ours" => g \in config.allowed /\ \E n \in Names :
                           candidate(rep[r], n) # None /\ candidate(rep[r], n).spec.group = g
    BY DEF RegistrationsSettled
<1>1. config.replicas \subseteq Replicas
      BY ConfigFacts
<1>2. \A s \in config.replicas : /\ rep[s].pc = "idle" /\ ~rep[s].queued /\ ~rep[s].recheck
                                 /\ rep[s].lister = objects /\ rep[s].regs = apis
      BY DEF Quiet
<1>3. g \in wanted(rep[r]) => apis[g].route # "absent"
  <2>1. \A h \in wanted(rep[r]) : routesHere(rep[r].regs[h])
        BY <1>1, <1>2 DEF RegInv, Stands
  <2> QED BY <1>2, <2>1 DEF routesHere
<1>4. ASSUME Faultless, apis[g].route = "ours"
      PROVE  g \in config.allowed /\ \E n \in Names :
                 candidate(rep[r], n) # None /\ candidate(rep[r], n).spec.group = g
  <2>1. PICK s \in config.replicas : Answers(rep[s], g)
        BY <1>4 DEF RegInv, Answered
  <2>2. g \in declaredGroupVersions(rep[s])
        BY <1>2, <1>4, <2>1 DEF Answers, Faultless
  <2>3. g \in config.allowed /\ \E n \in Names :
            candidate(rep[s], n) # None /\ candidate(rep[s], n).spec.group = g
        BY <2>2 DEF declaredGroupVersions
  <2>4. \A n \in Names : candidate(rep[s], n) = candidate(rep[r], n)
        BY <1>2 DEF candidate
  <2> QED BY <2>3, <2>4
<1> QED BY <1>3, <1>4

LEMMA RegInit ==
    ASSUME Init
    PROVE  RegInv
<1>1. \A r \in Replicas : rep[r] = Started /\ Started.queued = TRUE
      BY DEF Init, Started
<1>2. config.replicas \subseteq Replicas
      BY TypeInit, ConfigFacts
<1>3. \A r \in Replicas : Stands(rep[r])
      BY <1>1 DEF Stands
<1>4. \A r \in Replicas : \A g \in Groups : Answers(rep[r], g)
      BY <1>1 DEF Answers
<1> QED BY <1>2, <1>3, <1>4 DEF RegInv, Answered

\* Once everything has been heard of, a group version a replica serves is registered,
\* and a registration of this server's is of a group version it may take that a
\* live projection declares, though replicas make and prune them from caches that lag
\* and others remove them (apiservice.go, reconcile and prune).
THEOREM RegistrationsAgreed == Spec => []RegistrationsSettled
<1> DEFINE Inv == TypeOK /\ CopyInv /\ RegInv
<1>1. Init => Inv
      BY TypeInit, CopyInit, RegInit
<1>2. Inv /\ [Next]_vars => Inv'
      BY BaseStep, RegStep DEF Kept
<1>3. Inv => RegistrationsSettled
      BY RegHolds
<1> QED BY <1>1, <1>2, <1>3, PTL DEF Spec

-----------------------------------------------------------------------------
(* What is reported follows what is served. *)

Serves(q, n) == q.compiled[n] # None /\ ~q.compiled[n].file

\* What a sync has judged it will report, and has reported, is what it serves.
Tells(q, n) == q.failing = {} /\ q.due[n] # None => (q.due[n].verdict = "serving" <=> Serves(q, n))
Reported(q, n) ==
    /\ Tells(q, n)
    /\ ~q.queued /\ q.failing = {} /\ q.lister[n] # None
       /\ objects[n] # None /\ objects[n].uid = q.lister[n].uid
       => IF q.due[n] # None
          THEN q.due[n].was.uid = q.lister[n].uid /\ q.due[n].was.gen = q.lister[n].gen
          ELSE /\ q.last[n] # None
               /\ q.last[n].status.gen = q.lister[n].gen
               /\ q.last[n].status.verdict = "serving" <=> Serves(q, n)
\* A status that speaks of its object's generation is the last that some replica
\* wrote or read there.
Vouches(q, n) ==
    \/ /\ q.last[n] # None
       /\ q.last[n].status.gen = objects[n].gen => q.last[n].status = objects[n].status
    \/ /\ q.last[n] = None
       /\ q.lister[n] = None \/ q.lister[n] = objects[n]
       /\ q.due[n] # None => q.due[n].was = objects[n]
Vouched(n) ==
    objects[n] # None /\ objects[n].status.gen = objects[n].gen =>
        \E r \in config.replicas : Vouches(rep[r], n)
StatusInv ==
    /\ \A r \in Replicas : \A n \in Names : Reported(rep[r], n)
    /\ \A n \in Names : Vouched(n)

\* What a step may change of a replica without touching what it has reported.
SameReport(q, w, n) ==
    /\ w.due[n] = q.due[n] /\ w.last[n] = q.last[n] /\ w.compiled = q.compiled
    /\ w.failing = {} => q.failing = {}
    /\ \/ w.queued
       \/ /\ ~q.queued /\ (w.lister[n] = None <=> q.lister[n] = None)
          /\ w.lister[n].uid = q.lister[n].uid /\ w.lister[n].gen = q.lister[n].gen

LEMMA StillThere ==
    ASSUME TypeOK, AllLater, NEW q, CopyOK(q), NEW n \in Names, q.lister[n] # None,
           objects'[n] # None, objects'[n].uid = q.lister[n].uid
    PROVE  objects[n] # None /\ objects[n].uid = q.lister[n].uid
<1>1. q.lister[n].uid \in 1..minted
      BY DEF CopyOK, Copies
<1> QED BY <1>1 DEF AllLater, Later

LEMMA ReportedSame ==
    ASSUME TypeOK, AllLater, NEW q, NEW w, NEW n \in Names, CopyOK(q), SameReport(q, w, n),
           Reported(q, n)
    PROVE  Reported(w, n)'
<1>1. Serves(w, n) <=> Serves(q, n)
      BY DEF Serves, SameReport
<1>2. Tells(w, n)
      BY <1>1 DEF Tells, SameReport, Reported
<1>3. ASSUME ~w.queued, w.failing = {}, w.lister[n] # None, objects'[n] # None,
             objects'[n].uid = w.lister[n].uid
      PROVE  IF w.due[n] # None
             THEN w.due[n].was.uid = w.lister[n].uid /\ w.due[n].was.gen = w.lister[n].gen
             ELSE /\ w.last[n] # None
                  /\ w.last[n].status.gen = w.lister[n].gen
                  /\ w.last[n].status.verdict = "serving" <=> Serves(w, n)
  <2>1. /\ q.failing = {} /\ ~q.queued /\ q.lister[n] # None /\ w.lister[n].uid = q.lister[n].uid
        /\ w.lister[n].gen = q.lister[n].gen
        BY <1>3 DEF SameReport
  <2>2. objects[n] # None /\ objects[n].uid = q.lister[n].uid
        BY <1>3, <2>1, StillThere
  <2>3. IF q.due[n] # None
        THEN q.due[n].was.uid = q.lister[n].uid /\ q.due[n].was.gen = q.lister[n].gen
        ELSE /\ q.last[n] # None
             /\ q.last[n].status.gen = q.lister[n].gen
             /\ q.last[n].status.verdict = "serving" <=> Serves(q, n)
        BY <2>1, <2>2 DEF Reported
  <2>4. w.due[n] = q.due[n] /\ w.last[n] = q.last[n]
        BY DEF SameReport
  <2> QED BY <1>1, <2>1, <2>3, <2>4
<1> QED BY <1>2, <1>3 DEF Reported, Tells, Serves

LEMMA VouchesSame ==
    ASSUME NEW q, NEW w, NEW n \in Names, objects'[n] = objects[n],
           w.due[n] = q.due[n] \/ w.due[n] = None, w.last[n] = q.last[n],
           w.lister[n] = q.lister[n] \/ w.lister[n] = objects[n], Vouches(q, n)
    PROVE  Vouches(w, n)'
BY DEF Vouches

LEMMA StatusOthers ==
    ASSUME TypeOK, AllLater, CopyInv, StatusInv, NEW s \in Replicas, rep'[s] = rep[s], NEW n \in Names
    PROVE  /\ Reported(rep[s], n)'
           /\ objects'[n] = objects[n] /\ Vouches(rep[s], n) => Vouches(rep[s], n)'
<1>1. PICK q : q = rep[s]
      OBVIOUS
<1>2. CopyOK(q) /\ Reported(q, n) /\ SameReport(q, q, n) /\ rep'[s] = q
      BY <1>1 DEF CopyInv, StatusInv, SameReport
<1>3. Reported(q, n)'
      BY <1>2, ReportedSame
<1>4. objects'[n] = objects[n] /\ Vouches(q, n) => Vouches(q, n)'
      BY VouchesSame
<1> QED BY <1>1, <1>2, <1>3, <1>4

LEMMA StatusReplica ==
    ASSUME TypeOK, AllLater, CopyInv, StatusInv, UNCHANGED config,
           NEW r \in config.replicas, NEW w \in Replica, rep' = [rep EXCEPT ![r] = w],
           \A n \in Names : Reported(w, n)',
           \A n \in Names : objects'[n] # None /\ objects'[n].status.gen = objects'[n].gen =>
               Vouches(w, n)' \/ (objects'[n] = objects[n] /\ (Vouches(rep[r], n) => Vouches(w, n)'))
    PROVE  StatusInv'
<1>1. r \in Replicas /\ config.replicas \subseteq Replicas /\ rep \in [Replicas -> Replica]
      BY ConfigFacts, ClusterFacts
<1>2. rep'[r] = w /\ \A s \in Replicas : s # r => rep'[s] = rep[s]
      BY <1>1
<1>3. ASSUME NEW s \in Replicas, NEW n \in Names PROVE Reported(rep[s], n)'
  <2>1. CASE s = r
        BY <1>2, <2>1
  <2>2. CASE s # r
        BY <1>2, <2>2, StatusOthers
  <2> QED BY <2>1, <2>2
<1>4. ASSUME NEW n \in Names PROVE Vouched(n)'
  <2>1. SUFFICES ASSUME objects'[n] # None, objects'[n].status.gen = objects'[n].gen
                 PROVE  \E s \in config.replicas : Vouches(rep[s], n)'
        BY DEF Vouched
  <2>2. Vouches(w, n)' <=> Vouches(rep[r], n)'
        BY <1>2
  <2>3. CASE Vouches(w, n)'
        BY <2>2, <2>3
  <2>4. CASE objects'[n] = objects[n] /\ (Vouches(rep[r], n) => Vouches(w, n)')
    <3>1. PICK s \in config.replicas : Vouches(rep[s], n)
          BY <2>1, <2>4 DEF StatusInv, Vouched
    <3>2. CASE s = r
          BY <2>2, <2>4, <3>1, <3>2
    <3>3. CASE s # r
          BY <1>1, <1>2, <2>4, <3>1, <3>3, StatusOthers
    <3> QED BY <3>2, <3>3
  <2> QED BY <2>1, <2>3, <2>4
<1> QED BY <1>3, <1>4 DEF StatusInv

\* A step that only moves one replica, and leaves what it reported.
LEMMA StatusQuiet ==
    ASSUME TypeOK, AllLater, CopyInv, StatusInv, UNCHANGED <<config, objects>>,
           NEW r \in config.replicas, NEW w \in Replica, rep' = [rep EXCEPT ![r] = w],
           \A n \in Names : /\ SameReport(rep[r], w, n)
                            /\ w.lister[n] = rep[r].lister[n] \/ w.lister[n] = objects[n]
    PROVE  StatusInv'
<1>1. PICK q : q = rep[r]
      OBVIOUS
<1>2. r \in Replicas
      BY ConfigFacts
<1>3. CopyOK(q) /\ \A n \in Names : Reported(q, n) /\ SameReport(q, w, n)
      BY <1>1, <1>2 DEF CopyInv, StatusInv
<1>4. \A n \in Names : Reported(w, n)'
      BY <1>3, ReportedSame
<1>5. ASSUME NEW n \in Names, Vouches(q, n) PROVE Vouches(w, n)'
  <2>1. /\ w.due[n] = q.due[n] /\ w.last[n] = q.last[n]
        /\ w.lister[n] = q.lister[n] \/ w.lister[n] = objects[n]
        BY <1>1, <1>3 DEF SameReport
  <2> QED BY <1>5, <2>1, VouchesSame
<1> QED BY <1>1, <1>4, <1>5, StatusReplica

LEMMA StatusStored ==
    ASSUME TypeOK, AllLater, CopyInv, StatusInv, UNCHANGED <<config, rep>>,
           \A n \in Names : objects'[n] # None /\ objects'[n].status.gen = objects'[n].gen =>
               objects'[n] = objects[n]
    PROVE  StatusInv'
<1>1. config.replicas \subseteq Replicas
      BY ConfigFacts
<1>2. \A s \in Replicas : \A n \in Names :
          /\ Reported(rep[s], n)'
          /\ objects'[n] = objects[n] /\ Vouches(rep[s], n) => Vouches(rep[s], n)'
      BY StatusOthers
<1>3. ASSUME NEW n \in Names PROVE Vouched(n)'
  <2>1. SUFFICES ASSUME objects'[n] # None, objects'[n].status.gen = objects'[n].gen
                 PROVE  \E s \in config.replicas : Vouches(rep[s], n)'
        BY DEF Vouched
  <2>2. PICK s \in config.replicas : Vouches(rep[s], n)
        BY <2>1 DEF StatusInv, Vouched
  <2> QED BY <1>1, <1>2, <2>1, <2>2
<1> QED BY <1>2, <1>3 DEF StatusInv

LEMMA StatusInstalled ==
    ASSUME TypeOK, CopyInv, StatusInv, NEW r \in config.replicas, NEW broken \in SUBSET Names,
           SyncInstalls(r, broken)
    PROVE  StatusInv'
<1>0. r \in Replicas
      BY ConfigFacts
<1>1. UNCHANGED <<config, objects, files, creds, minted>>
      BY <1>0, InstallEffect
<1>2. PICK w \in Replica : InstallsAs(r, broken, w)
      BY <1>0, InstallEffect
<1>3. AllLater
      BY <1>1, SameIsLater
<1>4. PICK q : q = rep[r]
      OBVIOUS
<1>5. /\ rep' = [rep EXCEPT ![r] = w] /\ w.failing = broken /\ w.lister = q.lister
      /\ w.compiled = Compiles(q, broken) /\ w.due = Judges(q, broken)
      /\ w.last = [n \in Names |-> IF q.lister[n] = None THEN None ELSE q.last[n]]
      BY <1>2, <1>4 DEF InstallsAs, SameNews
<1>6. ASSUME NEW n \in Names
      PROVE  /\ q.lister[n] = None => w.due[n] = None /\ w.last[n] = None
             /\ q.lister[n] # None => /\ w.due[n] # None /\ w.due[n].was = q.lister[n]
                                      /\ w.last[n] = q.last[n]
             /\ Tells(w, n)
  <2> DEFINE surv == surviving(q, broken)
             won == winners(below(q), surv)
             v == verdict(n, broken, surv, won)
             cand == candidate(rep[r], n)
  <2>1. /\ q.lister[n] = None => w.due[n] = None /\ w.last[n] = None
        /\ q.lister[n] # None => w.due[n] = [was |-> q.lister[n], verdict |-> v] /\ w.last[n] = q.last[n]
        BY <1>5 DEF Judges
  <2>2. w.compiled[n] = IF n \in won THEN surv[n] ELSE None
        BY <1>5 DEF Compiles
  <2>3. v = IF files[n] # None \/ surv[n] = None THEN "failed"
            ELSE IF n \notin won THEN "lost"
            ELSE IF n \in broken THEN "previous" ELSE "serving"
        BY DEF verdict
  <2>4. surv[n] # None => cand # None /\ surv[n].file = cand.file
        BY <1>0, <1>4, SurvivingType
  <2>5. /\ files[n] # None => cand.file = TRUE
        /\ files[n] = None /\ cand # None => cand.file = FALSE
        BY <1>0, CandidateType
  <2>6. q.lister[n] # None => w.due[n] \in Judgement
    <3>1. v \in Verdicts
          BY <2>3 DEF Verdicts
    <3>2. q.lister[n] # None => q.lister[n] \in Object
          BY <1>0, <1>4, CopyFacts
    <3> HIDE DEF v
    <3> QED BY <2>1, <3>1, <3>2 DEF Judgement
  <2> HIDE DEF surv, won, v, cand
  <2>7. q.lister[n] # None => w.due[n].was = q.lister[n] /\ w.due[n].verdict = v
        BY <2>1
  <2>8. q.lister[n] # None => w.due[n] # None
        BY <2>6, NoneIsNothing
  <2>9. broken = {} => (v = "serving" <=> Serves(w, n))
        BY <2>2, <2>3, <2>4, <2>5 DEF Serves
  <2>10. Tells(w, n)
        BY <1>5, <2>1, <2>7, <2>9 DEF Tells
  <2> QED BY <2>1, <2>7, <2>8, <2>10
<1>7. \A n \in Names : Reported(w, n)'
  <2> SUFFICES ASSUME NEW n \in Names PROVE Reported(w, n)'
      OBVIOUS
  <2>1. /\ w.lister[n] # None => w.due[n] # None /\ w.due[n].was = w.lister[n]
        /\ Tells(w, n)
        BY <1>5, <1>6
  <2> QED BY <2>1 DEF Reported, Tells, Serves
<1>8. \A n \in Names : Vouches(q, n) => Vouches(w, n)'
      BY <1>1, <1>5, <1>6 DEF Vouches
<1> QED BY <1>1, <1>3, <1>4, <1>5, <1>7, <1>8, StatusReplica

LEMMA StatusReported ==
    ASSUME TypeOK, CopyInv, AllLater, StatusInv, NEW r \in config.replicas, NEW n \in Names,
           SyncReports(r, n) \/ SyncReportFails(r, n)
    PROVE  StatusInv'
<1>0. r \in Replicas
      BY ConfigFacts
<1>1. UNCHANGED config /\ rep[r].due[n] # None
      BY <1>0, ReportEffect
<1>2. PICK w \in Replica, o \in Object \cup {None} : ReportsAs(r, n, w, o)
      BY <1>0, ReportEffect
<1>3. PICK q : q = rep[r]
      OBVIOUS
<1>4. /\ q \in Replica /\ CopyOK(q) /\ q.due \in [Names -> Judgement \cup {None}]
      /\ q.last \in [Names -> Memory \cup {None}]
      BY <1>0, <1>3, ReplicaFacts DEF CopyInv
<1>5. /\ rep' = [rep EXCEPT ![r] = w] /\ objects' = [objects EXCEPT ![n] = o]
      /\ w.lister = q.lister /\ w.queued = q.queued /\ w.compiled = q.compiled
      /\ w.due = [q.due EXCEPT ![n] = None] /\ w.last = [q.last EXCEPT ![n] = w.last[n]]
      /\ \/ Told(q, n, w.last[n], o) /\ w.failing = q.failing
         \/ w.last[n] = q.last[n] /\ o = objects[n] /\ w.failing = q.failing \cup {n}
      BY <1>2, <1>3 DEF ReportsAs, SameNews
<1>6. w.due[n] = None /\ \A m \in Names : m # n => w.due[m] = q.due[m] /\ w.last[m] = q.last[m]
  <2>1. PICK l : l = w.last[n]
        OBVIOUS
  <2>2. w.due = [q.due EXCEPT ![n] = None] /\ w.last = [q.last EXCEPT ![n] = l]
        BY <1>5, <2>1
  <2> QED BY <1>4, <2>2
<1>7. objects'[n] = o /\ \A m \in Names : m # n => objects'[m] = objects[m]
      BY <1>5, ClusterFacts
<1>8. w.failing = {} => Told(q, n, w.last[n], o) /\ q.failing = {}
      BY <1>5
<1>9. /\ judged(q, n).gen = q.due[n].was.gen /\ judged(q, n).verdict = q.due[n].verdict
      /\ Remembered(q, n).status = judged(q, n) /\ Remembered(q, n) # None
  <2>1. Remembered(rep[r], n) \in Memory
        BY <1>0, <1>1, JudgedType
  <2> QED BY <1>0, <1>1, <1>3, <2>1, JudgedType, NoneIsNothing
<1>10. ASSUME NEW m \in Names PROVE Reported(w, m)'
  <2>1. Reported(q, m)
        BY <1>0, <1>3 DEF StatusInv
  <2>2. CASE m # n
    <3>1. SameReport(q, w, m)
      <4>1. w.queued \/ ~q.queued
            BY <1>5
      <4> QED BY <1>5, <1>6, <1>8, <2>2, <4>1 DEF SameReport
    <3> QED BY <1>4, <2>1, <3>1, ReportedSame
  <2>3. CASE m = n
    <3>1. Tells(w, n)
          BY <1>6 DEF Tells
    <3>2. SUFFICES ASSUME ~w.queued, w.failing = {}, w.lister[n] # None, objects'[n] # None,
                          objects'[n].uid = w.lister[n].uid
                   PROVE  /\ w.last[n] # None
                          /\ w.last[n].status.gen = w.lister[n].gen
                          /\ w.last[n].status.verdict = "serving" <=> Serves(w, n)
          BY <1>6, <2>3, <3>1 DEF Reported, Tells, Serves
    <3>3. objects[n] # None /\ objects[n].uid = q.lister[n].uid
          BY <1>4, <1>5, <3>2, StillThere
    <3>4. q.due[n].was.gen = q.lister[n].gen
          BY <1>1, <1>3, <1>5, <1>8, <2>1, <2>3, <3>2, <3>3 DEF Reported
    <3>5. q.due[n].verdict = "serving" <=> Serves(q, n)
          BY <1>1, <1>3, <1>8, <2>1, <2>3, <3>2 DEF Reported, Tells
    <3>6. w.last[n] # None /\ w.last[n].status = judged(q, n)
      <4>1. Told(q, n, w.last[n], o) /\ ~Gone(q, n, w.last[n], o)
            BY <1>8, <3>2, <3>3 DEF Gone
      <4>2. w.last[n] = Remembered(q, n) \/ (w.last[n] = q.last[n] /\ q.last[n] # None
                                             /\ q.last[n].status = judged(q, n))
            BY <4>1 DEF Told, Written, Late, SkippedListed, Skipped
      <4> QED BY <1>9, <4>2
    <3>7. Serves(w, n) <=> Serves(q, n)
          BY <1>5 DEF Serves
    <3> QED BY <1>5, <1>9, <3>4, <3>5, <3>6, <3>7
  <2> QED BY <2>2, <2>3
<1>11. ASSUME NEW m \in Names, objects'[m] # None, objects'[m].status.gen = objects'[m].gen
       PROVE  Vouches(w, m)' \/ (objects'[m] = objects[m] /\ (Vouches(q, m) => Vouches(w, m)'))
  <2>1. CASE m # n
    <3>1. /\ objects'[m] = objects[m] /\ w.due[m] = q.due[m] /\ w.last[m] = q.last[m]
          /\ w.lister[m] = q.lister[m]
          BY <1>5, <1>6, <1>7, <2>1
    <3> QED BY <3>1, VouchesSame
  <2>2. CASE m = n
    <3>1. CASE w.last[n] = q.last[n] /\ o = objects[n]
      <4>1. /\ objects'[n] = objects[n] /\ w.due[n] = None /\ w.last[n] = q.last[n]
            /\ w.lister[n] = q.lister[n]
            BY <1>5, <1>6, <1>7, <3>1
      <4> QED BY <2>2, <4>1, VouchesSame
    <3>2. CASE Written(q, n, w.last[n], o)
      <4>1. objects[n] # None /\ objects[n] \in Object /\ o = [objects[n] EXCEPT !.status = judged(q, n)]
            BY <3>2, ClusterFacts DEF Written
      <4>2. o.status = judged(q, n)
            BY <4>1 DEF Object
      <4>3. w.last[n] # None /\ w.last[n].status = judged(q, n)
            BY <1>9, <3>2 DEF Written
      <4> QED BY <1>7, <2>2, <4>2, <4>3 DEF Vouches
    <3>3. CASE Late(q, n, w.last[n], o)
      <4>1. w.last[n] # None /\ w.last[n].status.gen # objects[n].gen /\ objects'[n] = objects[n]
            BY <1>7, <1>9, <3>3 DEF Late
      <4> QED BY <2>2, <4>1 DEF Vouches
    <3>4. CASE SkippedListed(q, n, w.last[n], o)
      <4>1. /\ q.last[n] = None /\ q.due[n].was.status = judged(q, n) /\ objects'[n] = objects[n]
            /\ w.last[n] # None /\ w.last[n].status = judged(q, n)
            BY <1>7, <1>9, <3>4 DEF SkippedListed
      <4>2. Vouches(q, n) => objects[n].status = judged(q, n)
            BY <1>1, <1>3, <4>1 DEF Vouches
      <4> QED BY <2>2, <4>1, <4>2 DEF Vouches
    <3> QED BY <1>5, <3>1, <3>2, <3>3, <3>4 DEF Told, Gone, Skipped
  <2> QED BY <2>1, <2>2
<1> QED BY <1>1, <1>3, <1>5, <1>10, <1>11, StatusReplica

LEMMA StatusHeard ==
    ASSUME TypeOK, CopyInv, StatusInv, NEW r \in config.replicas, Heard(r)
    PROVE  StatusInv'
<1>0. r \in Replicas
      BY ConfigFacts
<1>1. rep[r].queued \in BOOLEAN
      BY <1>0, ReplicaFacts
<1>2. ASSUME NEW n \in Names, Deliver(r, n) PROVE StatusInv'
  <2>1. PICK w \in Replica :
           /\ rep' = [rep EXCEPT ![r] = w] /\ SameWork(w, rep[r])
           /\ w.lister = [rep[r].lister EXCEPT ![n] = objects[n]]
           /\ w.queued = (rep[r].queued \/ wakes(rep[r].lister[n], objects[n]))
        BY <1>0, <1>2, DeliverEffect
  <2>2. UNCHANGED <<config, objects, minted>>
        BY <1>0, <1>2, DeliverEffect
  <2>3. rep[r].lister \in [Names -> Object \cup {None}]
        BY <1>0, ReplicaFacts
  <2>4. w.lister[n] = objects[n] /\ \A m \in Names : m # n => w.lister[m] = rep[r].lister[m]
        BY <2>1, <2>3
  <2>5. w.queued \/ (~rep[r].queued /\ ~wakes(rep[r].lister[n], objects[n]))
        BY <2>1
  <2>6. ~wakes(rep[r].lister[n], objects[n]) =>
            /\ (objects[n] = None <=> rep[r].lister[n] = None)
            /\ objects[n].uid = rep[r].lister[n].uid /\ objects[n].gen = rep[r].lister[n].gen
        BY DEF wakes
  <2>7. ASSUME NEW m \in Names PROVE SameReport(rep[r], w, m)
    <3>1. CASE m # n
          BY <2>1, <2>4, <2>5, <3>1 DEF SameReport, SameWork
    <3>2. CASE m = n
          BY <2>1, <2>4, <2>5, <2>6, <3>2 DEF SameReport, SameWork
    <3> QED BY <3>1, <3>2
  <2>8. \A m \in Names : w.lister[m] = rep[r].lister[m] \/ w.lister[m] = objects[m]
        BY <2>4
  <2>9. AllLater
        BY <2>2, SameIsLater
  <2>10. rep' = [rep EXCEPT ![r] = w] /\ UNCHANGED <<config, objects>>
        BY <2>1, <2>2
  <2>11. \A m \in Names :
            /\ SameReport(rep[r], w, m)
            /\ w.lister[m] = rep[r].lister[m] \/ w.lister[m] = objects[m]
        BY <2>7, <2>8
  <2> QED BY <2>9, <2>10, <2>11, StatusQuiet
<1>3. ASSUME NEW g \in Groups, DeliverAPIService(r, g) PROVE StatusInv'
  <2>1. PICK w \in Replica :
           /\ rep' = [rep EXCEPT ![r] = w] /\ SameWork(w, rep[r]) /\ w.lister = rep[r].lister
           /\ w.queued = (rep[r].queued \/ ~sameRegistration(rep[r].regs[g], apis[g]))
        BY <1>0, <1>3, DeliverAPIServiceEffect
  <2>2. UNCHANGED <<config, objects, minted>>
        BY <1>0, <1>3, DeliverAPIServiceEffect
  <2>3. w.queued \/ ~rep[r].queued
        BY <2>1
  <2>4. \A m \in Names : SameReport(rep[r], w, m) /\ w.lister[m] = rep[r].lister[m]
        BY <2>1, <2>3 DEF SameReport, SameWork
  <2>5. AllLater
        BY <2>2, SameIsLater
  <2>6. rep' = [rep EXCEPT ![r] = w] /\ UNCHANGED <<config, objects>>
        BY <2>1, <2>2
  <2>7. \A m \in Names :
            /\ SameReport(rep[r], w, m)
            /\ w.lister[m] = rep[r].lister[m] \/ w.lister[m] = objects[m]
        BY <2>4
  <2> QED BY <2>5, <2>6, <2>7, StatusQuiet
<1>4. ASSUME DeliverSecret(r) \/ Recheck(r) PROVE StatusInv'
  <2>1. PICK w \in Replica :
           /\ rep' = [rep EXCEPT ![r] = w] /\ SameWork(w, rep[r]) /\ w.lister = rep[r].lister
           /\ w.queued = TRUE
        BY <1>0, <1>4, WakeEffect
  <2>2. UNCHANGED <<config, objects, minted>>
        BY <1>0, <1>4, WakeEffect
  <2>3. \A m \in Names : SameReport(rep[r], w, m) /\ w.lister[m] = rep[r].lister[m]
        BY <2>1 DEF SameReport, SameWork
  <2>4. AllLater
        BY <2>2, SameIsLater
  <2>5. rep' = [rep EXCEPT ![r] = w] /\ UNCHANGED <<config, objects>>
        BY <2>1, <2>2
  <2>6. \A m \in Names :
            /\ SameReport(rep[r], w, m)
            /\ w.lister[m] = rep[r].lister[m] \/ w.lister[m] = objects[m]
        BY <2>3
  <2> QED BY <2>4, <2>5, <2>6, StatusQuiet
<1> QED BY <1>2, <1>3, <1>4 DEF Heard

LEMMA StatusStep ==
    ASSUME TypeOK, CopyInv, StatusInv, [Next]_vars
    PROVE  StatusInv'
<1>0. config.replicas \subseteq Replicas
      BY ConfigFacts
<1>1. AllLater
      BY BaseStep DEF Kept
<1>2. ASSUME UNCHANGED <<config, rep, objects>> PROVE StatusInv'
      BY <1>1, <1>2, StatusStored
<1>3. CASE UNCHANGED vars
      BY <1>2, <1>3 DEF vars
<1>4. CASE Stored
  <2>1. UNCHANGED <<config, rep>> /\ objects \in [Names -> Object \cup {None}]
        BY <1>4, ClusterFacts DEF Stored, Create, Edit, Delete
  <2>2. ASSUME NEW n \in Names, NEW s \in Specs, Create(n, s) PROVE StatusInv'
    <3> DEFINE o == [uid |-> minted + 1, gen |-> 1, spec |-> s, status |-> NoStatus]
    <3>1. objects' = [objects EXCEPT ![n] = o]
          BY <2>2 DEF Create
    <3>2. o.status.gen # o.gen
          BY DEF NoStatus
    <3> HIDE DEF o
    <3>3. \A m \in Names : objects'[m] # None /\ objects'[m].status.gen = objects'[m].gen =>
              objects'[m] = objects[m]
          BY <2>1, <3>1, <3>2
    <3> QED BY <1>1, <2>1, <3>3, StatusStored
  <2>3. ASSUME NEW n \in Names, NEW s \in Specs, Edit(n, s) PROVE StatusInv'
    <3>1. objects[n] # None /\ objects[n] \in Object /\ objects[n].gen \in Nat
          /\ objects[n].status.gen \in Nat /\ objects[n].status.gen <= objects[n].gen
          BY <2>3, ClusterFacts DEF Edit
    <3>2. objects' = [objects EXCEPT ![n] = [[objects[n] EXCEPT !.spec = s] EXCEPT !.gen = objects[n].gen + 1]]
          BY <2>1, <2>3 DEF Edit
    <3>3. PICK x, k : x = objects[n] /\ k = objects[n].gen + 1
          OBVIOUS
    <3> DEFINE o == [[x EXCEPT !.spec = s] EXCEPT !.gen = k]
    <3>4. objects' = [objects EXCEPT ![n] = o]
          BY <3>2, <3>3
    <3>5. o.gen = k /\ o.status = x.status
          BY <3>1, <3>3 DEF Object
    <3>6. x.status.gen # k
          BY <3>1, <3>3
    <3> HIDE DEF o
    <3>7. \A m \in Names : objects'[m] # None /\ objects'[m].status.gen = objects'[m].gen =>
              objects'[m] = objects[m]
          BY <2>1, <3>4, <3>5, <3>6
    <3> QED BY <1>1, <2>1, <3>7, StatusStored
  <2>4. ASSUME NEW n \in Names, Delete(n) PROVE StatusInv'
    <3>1. \A m \in Names : objects'[m] # None /\ objects'[m].status.gen = objects'[m].gen =>
              objects'[m] = objects[m]
          BY <2>1, <2>4 DEF Delete
    <3> QED BY <1>1, <2>1, <3>1, StatusStored
  <2> QED BY <1>4, <2>2, <2>3, <2>4 DEF Stored
<1>5. CASE Elsewhere
      BY <1>2, <1>5 DEF Elsewhere, Rotate, Dial, Meddle, Collect
<1>6. ASSUME NEW n \in Names, NEW s \in config.specs \cup {None}, FileChanges(n, s) PROVE StatusInv'
  <2>1. /\ UNCHANGED <<config, objects>>
        /\ \A r \in Replicas : /\ SameNews(rep'[r], rep[r]) /\ SameWork(rep'[r], rep[r])
                               /\ rep'[r].queued = TRUE
        BY <1>6, FileEffect
  <2>2. ASSUME NEW r \in Replicas, NEW m \in Names
        PROVE  Reported(rep[r], m)' /\ (Vouches(rep[r], m) => Vouches(rep[r], m)')
    <3>1. PICK q, w : q = rep[r] /\ w = rep'[r]
          OBVIOUS
    <3>2. /\ CopyOK(q) /\ Reported(q, m) /\ SameReport(q, w, m) /\ w.due = q.due /\ w.last = q.last
          /\ w.lister = q.lister
          BY <2>1, <3>1 DEF CopyInv, StatusInv, SameReport, SameNews, SameWork
    <3>3. Reported(w, m)'
          BY <1>1, <3>2, ReportedSame
    <3>4. Vouches(q, m) => Vouches(w, m)'
          BY <2>1, <3>2, VouchesSame
    <3> QED BY <3>1, <3>3, <3>4
  <2>3. \A m \in Names : Vouched(m)'
    <3> SUFFICES ASSUME NEW m \in Names, objects[m] # None, objects[m].status.gen = objects[m].gen
                 PROVE  \E r \in config.replicas : Vouches(rep[r], m)'
        BY <2>1 DEF Vouched
    <3>1. PICK r \in config.replicas : Vouches(rep[r], m)
          BY DEF StatusInv, Vouched
    <3> QED BY <1>0, <2>2, <3>1
  <2> QED BY <2>2, <2>3 DEF StatusInv
<1>7. ASSUME NEW r \in config.replicas, Restart(r) PROVE StatusInv'
  <2>1. PICK w : w = Started
        OBVIOUS
  <2>2. /\ w \in Replica /\ w.queued = TRUE /\ w.lister = objects
        /\ \A n \in Names : w.last[n] = None /\ w.due[n] = None
        BY <2>1, StartedFacts, ClusterFacts
  <2>3. UNCHANGED <<config, objects>> /\ rep' = [rep EXCEPT ![r] = w]
        BY <1>7, <2>1 DEF Restart, cluster
  <2>4. \A n \in Names : Reported(w, n)'
        BY <2>2 DEF Reported, Tells
  <2>5. \A n \in Names : Vouches(w, n)'
        BY <2>2, <2>3 DEF Vouches
  <2> QED BY <1>1, <2>2, <2>3, <2>4, <2>5, StatusReplica
<1>8. ASSUME NEW r \in config.replicas, SyncRegisters(r) \/ SyncEnds(r) PROVE StatusInv'
  <2>1. PICK w \in Replica :
           /\ rep' = [rep EXCEPT ![r] = w] /\ SameNews(w, rep[r]) /\ w.queued = rep[r].queued
           /\ w.compiled = rep[r].compiled /\ w.failing = rep[r].failing
           /\ w.last = rep[r].last /\ w.due = rep[r].due
        BY <1>0, <1>8, RegisterEffect, EndEffect, ZenonT(40)
  <2>2. UNCHANGED <<config, objects>>
        BY <1>0, <1>8, RegisterEffect, EndEffect
  <2>3. w.queued \/ ~rep[r].queued
        BY <2>1
  <2>4. \A m \in Names : SameReport(rep[r], w, m) /\ w.lister[m] = rep[r].lister[m]
        BY <2>1, <2>3 DEF SameReport, SameNews
  <2>5. rep' = [rep EXCEPT ![r] = w] /\ UNCHANGED <<config, objects>>
        BY <2>1, <2>2
  <2>6. \A m \in Names :
            /\ SameReport(rep[r], w, m)
            /\ w.lister[m] = rep[r].lister[m] \/ w.lister[m] = objects[m]
        BY <2>4
  <2> QED BY <1>1, <2>5, <2>6, StatusQuiet
<1>9. CASE Next
      BY <1>1, <1>4, <1>5, <1>6, <1>7, <1>8, <1>9, NextCases, StatusInstalled, StatusReported, StatusHeard
<1> QED BY <1>3, <1>9

LEMMA StatusInit ==
    ASSUME Init
    PROVE  StatusInv
<1>1. ASSUME NEW r \in Replicas, NEW n \in Names PROVE Reported(rep[r], n)
  <2>1. rep[r].queued = TRUE /\ rep[r].due[n] = None
        BY DEF Init, Started
  <2> QED BY <2>1 DEF Reported, Tells
<1>2. ASSUME NEW n \in Names, objects[n] # None PROVE objects[n].status.gen # objects[n].gen
  <2>1. objects[n] = [uid |-> nameOrder[n], gen |-> 1, spec |-> config.start[n], status |-> NoStatus]
        BY <1>2 DEF Init
  <2> QED BY <2>1 DEF NoStatus
<1> QED BY <1>1, <1>2 DEF StatusInv, Vouched

LEMMA StatusHolds ==
    ASSUME TypeOK, CopyInv, SurfaceInv, StatusInv
    PROVE  StatusTells
<1> SUFFICES ASSUME Quiet, Faultless, NEW n \in Names, objects[n] # None,
                    \A r \in config.replicas :
                        rep[r].last[n] # None => rep[r].last[n].uid = objects[n].uid,
                    NEW r \in config.replicas
             PROVE  /\ objects[n].status.gen = objects[n].gen
                    /\ objects[n].status.verdict = "serving" <=>
                           rep[r].compiled[n] # None /\ ~rep[r].compiled[n].file
    BY DEF StatusTells
<1>1. config.replicas \subseteq Replicas
      BY ConfigFacts
<1>2. ASSUME NEW s \in config.replicas
      PROVE  /\ rep[s].last[n] # None /\ rep[s].last[n].status.gen = objects[n].gen
             /\ rep[s].last[n].status.verdict = "serving" <=> Serves(rep[s], n)
  <2>1. /\ ~rep[s].queued /\ rep[s].failing = {} /\ rep[s].lister = objects /\ rep[s].pc = "idle"
        BY DEF Quiet, Faultless
  <2>2. CopyOK(rep[s]) /\ Reported(rep[s], n)
        BY <1>1 DEF CopyInv, StatusInv
  <2>3. rep[s].due[n] = None
        BY <2>1, <2>2 DEF CopyOK
  <2> QED BY <2>1, <2>2, <2>3 DEF Reported
<1>3. objects[n].status.gen = objects[n].gen
  <2>1. Remembers(rep[r].last[n], n)
        BY <1>1, <1>2 DEF CopyInv, CopyOK
  <2>2. rep[r].last[n].uid = objects[n].uid /\ rep[r].last[n].status.gen = objects[n].gen
        BY <1>2
  <2> QED BY <2>1, <2>2 DEF Remembers
<1>4. PICK s \in config.replicas : Vouches(rep[s], n)
      BY <1>3 DEF StatusInv, Vouched
<1>5. rep[s].last[n].status = objects[n].status
      BY <1>2, <1>4 DEF Vouches
<1>6. rep[s].compiled = rep[r].compiled
  <2>1. SurfaceSettled
        BY SurfaceHolds
  <2> QED BY <2>1 DEF SurfaceSettled
<1>7. Serves(rep[s], n) <=> Serves(rep[r], n)
      BY <1>6 DEF Serves
<1>8. objects[n].status.verdict = "serving" <=> Serves(rep[r], n)
      BY <1>2, <1>5, <1>7
<1> QED BY <1>3, <1>8 DEF Serves

\* Once everything has been heard of and nothing failed, the status of a projection
\* speaks of the projection as it is and says serving exactly when the replicas
\* serve it, though each writes from a copy of the past and skips what it believes
\* written (controller.go, updateStatus and lastStatus).
THEOREM StatusesAgree == Spec => []StatusTells
<1> DEFINE Inv == TypeOK /\ CopyInv /\ SurfaceInv /\ StatusInv
<1>1. Init => Inv
      BY TypeInit, CopyInit, SurfaceInit, StatusInit
<1>2. Inv /\ [Next]_vars => Inv'
      BY BaseStep, SurfaceStep, StatusStep DEF Kept
<1>3. Inv => StatusTells
      BY StatusHolds
<1> QED BY <1>1, <1>2, <1>3, PTL DEF Spec
=============================================================================
