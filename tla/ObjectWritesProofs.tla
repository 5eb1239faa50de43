------------------------- MODULE ObjectWritesProofs -------------------------
(* Proofs about ObjectWrites for every set of names, requests, finalizers and *)
(* configurations of a projection.                                            *)
EXTENDS ObjectWrites, TLAPS

MaybeRow == Row \cup {NoRow}
Steps == {"idle", "insert", "read", "decide", "statement", "readback", "written",
          "list", "bulk", "each"}
Verbs == {"none", "create"} \cup Updating \cup Deleting

Request ==
    [pc : Steps, verb : Verbs, name : Names, asserted : Nat, may : BOOLEAN,
     read : MaybeRow, holders : SUBSET AllFinalizers, stmt : Statements \cup {"none"},
     then : {"end", "mark", "finish"}, attempts : Nat, released : Nat,
     todo : SUBSET Names, listed : [Names -> MaybeRow]]

\* A row that was stored at some time: its version, its uid and its edits have
\* been assigned, and without a column for them it has no finalizers.
Known(row) ==
    row # NoRow =>
        /\ row.version <= clock
        /\ row.uid <= minted
        /\ row.spec \subseteq 1..clock
        /\ row.status \subseteq 1..clock
        /\ config.finalizers \/ (row.finalizers = {} /\ ~row.deleting)

\* A copy of the row of n at the version that is stored is what is stored.
Copy(row, n) ==
    row # NoRow /\ rows[n] # NoRow /\ row.version = rows[n].version => row = rows[n]

Copies(q) ==
    /\ Known(q.read) /\ Copy(q.read, q.name)
    /\ \A n \in Names : Known(q.listed[n]) /\ Copy(q.listed[n], n)

\* What the step a request is at says about the rest of it.
Underway(q) ==
    /\ q.asserted <= clock
    /\ q.released <= minted
    /\ q.attempts < (IF q.verb = "create" THEN generateNameAttempts ELSE deleteAttempts)
    /\ q.pc = "insert" => q.verb = "create" /\ q.read = NoRow
    /\ q.pc \in {"read", "list", "each"} => q.verb \in Deleting
    /\ q.pc \in {"decide", "statement"} => q.verb \in Updating \cup Deleting /\ q.read # NoRow
    /\ q.pc \in {"readback", "written"} /\ q.then = "mark" =>
           q.verb \in Deleting /\ config.finalizers
    /\ q.pc = "written" /\ q.then = "mark" => q.read # NoRow
    /\ q.pc = "bulk" => ~config.finalizers
    /\ config.finalizers \/ q.pc = "bulk" \/ \A n \in q.todo : q.listed[n] # NoRow

\* What a statement was decided on.
Decided(q) ==
    q.pc = "statement" =>
        /\ q.verb = "status" => q.stmt = "updateStatus" /\ q.holders = q.read.finalizers
        /\ q.verb = "update" =>
               /\ q.stmt = "update"
               /\ q.read.deleting => q.holders \subseteq q.read.finalizers
        /\ q.verb \in Deleting =>
               /\ q.stmt \in {"update", "markDeleted", "delete"}
               /\ q.stmt = "update" => q.holders = q.read.finalizers \cup {Collector}
               /\ q.stmt = "update" => q.then = "mark"
               /\ q.stmt = "delete" => q.read.finalizers = {}
               /\ q.stmt # "delete" => config.finalizers
        /\ q.verb \in Updating => q.then # "mark"
        /\ q.stmt = "markDeleted" => q.then = "end"
        /\ config.finalizers \/ q.verb \in Deleting \/ q.holders = {}

Sound(q) == q \in Request /\ Copies(q) /\ Underway(q) /\ Decided(q)

TableTrue ==
    /\ config \in Configs
    /\ rows \in [Names -> MaybeRow]
    /\ clock \in 0..MaxClock
    /\ minted \in 0..MaxUid
    /\ forsaken \subseteq 1..minted
    /\ \A n \in Names : Known(rows[n])

\* The inductive invariant: the versions of the copies requests decide on tell
\* whether those are still what is stored.
ObjectInv ==
    /\ TableTrue
    /\ req \in [Requests -> Request]
    /\ \A r \in Requests : Sound(req[r])

-----------------------------------------------------------------------------
(* Single requests. *)

LEMMA Constants ==
    /\ MaxClock \in Nat /\ MaxUid \in Nat
    /\ deleteAttempts \in Nat /\ deleteAttempts > 0
    /\ generateNameAttempts \in Nat /\ generateNameAttempts > 0
    /\ NoRow \notin Row
    /\ \A c \in Configs : c.finalizers \in BOOLEAN /\ c.returnsRows \in BOOLEAN
<1>1. Row \subseteq [uid : Nat, version : Nat, spec : SUBSET Nat, status : SUBSET Nat,
                     finalizers : SUBSET (Finalizers \cup {Collector}), deleting : BOOLEAN]
    BY ObjectAssumption DEF Row, AllFinalizers
<1> QED BY <1>1, ObjectAssumption DEF Config

LEMMA IdleFields ==
    /\ Idle \in Request
    /\ Idle.pc = "idle" /\ Idle.verb = "none" /\ Idle.asserted = 0 /\ Idle.may = FALSE
    /\ Idle.read = NoRow /\ Idle.holders = {} /\ Idle.attempts = 0 /\ Idle.released = 0
    /\ Idle.todo = {} /\ Idle.then = "end" /\ Idle.stmt = "none"
    /\ \A n \in Names : Idle.listed[n] = NoRow
<1>1. (CHOOSE n \in Names : TRUE) \in Names
    BY ObjectAssumption
<1>2. [n \in Names |-> NoRow] \in [Names -> MaybeRow]
    BY DEF MaybeRow
<1> QED BY <1>1, <1>2 DEF Idle, Request, MaybeRow, Steps, Verbs

LEMMA IdleSound ==
    ASSUME TableTrue
    PROVE  Sound(Idle)
<1>1. clock >= 0 /\ minted >= 0
    BY Constants DEF TableTrue
<1>2. Copies(Idle)
    BY IdleFields DEF Copies, Known, Copy
<1>3. Underway(Idle)
    BY <1>1, IdleFields, Constants DEF Underway
<1> QED BY <1>2, <1>3, IdleFields DEF Sound, Decided

LEMMA EndedSound ==
    ASSUME TableTrue, NEW q, Sound(q), NEW ok, q.pc # "bulk"
    PROVE  Sound(ended(q, ok)) /\ ended(q, ok).pc \in {"idle", "each"}
<1>1. CASE q.verb = "collection" /\ ok
    <2> DEFINE e == [Idle EXCEPT !.pc = "each", !.verb = "collection",
                                 !.todo = q.todo, !.listed = q.listed]
    <2>1. ended(q, ok) = e
        BY <1>1 DEF ended
    <2>2. q.todo \in SUBSET Names /\ q.listed \in [Names -> MaybeRow]
        BY DEF Sound, Request
    <2>3. /\ e \in Request
          /\ e.pc = "each" /\ e.verb = "collection" /\ e.asserted = 0
          /\ e.read = NoRow /\ e.attempts = 0 /\ e.released = 0
          /\ e.todo = q.todo /\ e.listed = q.listed
        BY <2>2, IdleFields DEF Request, Steps, Verbs, Deleting
    <2>4. Copies(e)
        BY <2>3 DEF Sound, Copies, Known, Copy
    <2>5. Underway(e)
        BY <2>3, Constants DEF Sound, Underway, TableTrue, Deleting
    <2> HIDE DEF e
    <2> QED BY <2>1, <2>3, <2>4, <2>5 DEF Sound, Decided
<1>2. CASE ~(q.verb = "collection" /\ ok)
    BY <1>2, IdleSound, IdleFields DEF ended
<1> QED BY <1>1, <1>2

\* What is not found ends a request, or turns an update into a create.
LEMMA NotFoundSound ==
    ASSUME TableTrue, NEW q, Sound(q), q.pc # "bulk"
    PROVE  Sound(notFound(q))
<1>1. CASE q.verb = "update" /\ q.may
    <2> DEFINE e == [Idle EXCEPT !.pc = "insert", !.verb = "create", !.name = q.name]
    <2>1. /\ e \in Request
          /\ e.pc = "insert" /\ e.verb = "create" /\ e.asserted = 0
          /\ e.read = NoRow /\ e.attempts = 0 /\ e.released = 0 /\ e.todo = {}
          /\ \A n \in Names : e.listed[n] = NoRow
        BY IdleFields DEF Sound, Request, Steps, Verbs
    <2> HIDE DEF e
    <2>2. Copies(e)
        BY <2>1 DEF Copies, Known, Copy
    <2>3. Underway(e)
        BY <2>1, Constants DEF Underway, TableTrue
    <2>4. Sound(e)
        BY <2>1, <2>2, <2>3 DEF Sound, Decided
    <2> QED BY <1>1, <2>4 DEF notFound, e
<1>2. CASE ~(q.verb = "update" /\ q.may)
    BY <1>2, EndedSound DEF notFound
<1> QED BY <1>1, <1>2

\* A fresh read is followed by a decision on what was read.
LEMMA AfterReadSound ==
    ASSUME TableTrue, NEW q, Sound(q), q.verb \in Updating \cup Deleting, q.pc # "bulk"
    PROVE  Sound(afterRead(q))
<1>0. q \in Request
    BY DEF Sound
<1>1. CASE rows[q.name] # NoRow
    <2> DEFINE e == [q EXCEPT !.pc = "decide", !.read = rows[q.name]]
    <2>1. rows[q.name] \in MaybeRow /\ Known(rows[q.name])
        BY <1>0 DEF TableTrue, Request
    <2>2. /\ e \in Request
          /\ e.pc = "decide" /\ e.read = rows[q.name] /\ e.name = q.name /\ e.verb = q.verb
          /\ e.asserted = q.asserted /\ e.released = q.released /\ e.attempts = q.attempts
          /\ e.todo = q.todo /\ e.listed = q.listed
        BY <1>0, <2>1 DEF Request, Steps
    <2>3. Copies(e)
        <3>1. Copy(rows[q.name], q.name)
            BY DEF Copy
        <3> QED BY <2>1, <2>2, <3>1 DEF Sound, Copies
    <2>4. Underway(e)
        <3>1. e.attempts < (IF e.verb = "create" THEN generateNameAttempts ELSE deleteAttempts)
            BY <2>2 DEF Sound, Underway
        <3> HIDE DEF e
        <3> QED BY <1>1, <2>2, <3>1 DEF Sound, Underway
    <2> HIDE DEF e
    <2>5. Sound(e)
        BY <2>2, <2>3, <2>4 DEF Sound, Decided
    <2> QED BY <1>1, <2>5 DEF afterRead, e
<1>2. CASE rows[q.name] = NoRow
    BY <1>2, NotFoundSound DEF afterRead
<1> QED BY <1>1, <1>2

-----------------------------------------------------------------------------
(* Steps of one request. *)

\* A new version belongs to no copy, so whatever is written leaves every request
\* sound.
LEMMA SoundKept ==
    ASSUME TableTrue, UNCHANGED config, clock' \in Nat, minted' \in Nat,
           clock <= clock', minted <= minted',
           \A n \in Names : \/ rows'[n] \in {rows[n], NoRow}
                            \/ rows'[n].version > clock,
           NEW q, Sound(q)
    PROVE  Sound(q)'
<1>0. clock \in Nat /\ minted \in Nat
    BY Constants DEF TableTrue
<1>1. ASSUME NEW row \in MaybeRow, Known(row) PROVE Known(row)'
    <2>1. 1..clock \subseteq 1..clock'
        BY <1>0
    <2>2. row # NoRow => row.version \in Nat /\ row.uid \in Nat
        BY Constants DEF MaybeRow, Row
    <2> QED BY <1>0, <1>1, <2>1, <2>2 DEF Known
<1>2. ASSUME NEW row \in MaybeRow, Known(row), NEW n \in Names, Copy(row, n)
      PROVE  Copy(row, n)'
    <2>1. row # NoRow => row.version \in Nat /\ row.version <= clock
        BY <1>2, Constants DEF MaybeRow, Row, Known
    <2> QED BY <1>0, <1>2, <2>1 DEF Copy
<1>3. q \in Request /\ q.read \in MaybeRow /\ q.name \in Names
      /\ \A n \in Names : q.listed[n] \in MaybeRow
    BY DEF Sound, Request
<1>4. Copies(q)'
    BY <1>1, <1>2, <1>3 DEF Sound, Copies
<1>5. Underway(q)'
    <2>1. q.asserted \in Nat /\ q.released \in Nat
        BY <1>3 DEF Request
    <2>2. q.asserted <= clock' /\ q.released <= minted'
        BY <1>0, <2>1 DEF Sound, Underway
    <2> QED BY <2>2 DEF Sound, Underway
<1>6. Decided(q)'
    BY DEF Sound, Decided
<1> QED BY <1>3, <1>4, <1>5, <1>6 DEF Sound

LEMMA SoundAt ==
    ASSUME NEW s \in Requests, NEW q, req'[s] = q, Sound(q)'
    PROVE  Sound(req[s])'
BY DEF Sound, Copies, Underway, Decided, Known, Copy

\* One request moves to q, and everything it leaves behind is sound.
LEMMA RequestMoves ==
    ASSUME ObjectInv, NEW r \in Requests, NEW q, Sound(q)',
           req' = [req EXCEPT ![r] = q], TableTrue',
           UNCHANGED config, clock <= clock', minted <= minted',
           \A n \in Names : \/ rows'[n] \in {rows[n], NoRow}
                            \/ rows'[n].version > clock
    PROVE  ObjectInv'
<1>1. q \in Request
    BY DEF Sound
<1>2. req' \in [Requests -> Request]
    BY <1>1 DEF ObjectInv
<1>3. clock' \in Nat /\ minted' \in Nat
    BY Constants DEF TableTrue
<1>4. ASSUME NEW s \in Requests PROVE Sound(req[s])'
    <2>1. CASE s = r
        BY <2>1, SoundAt DEF ObjectInv
    <2>2. CASE s # r
        <3>1. PICK c : c = req[s]
            OBVIOUS
        <3>2. req'[s] = c
            BY <2>2, <3>1 DEF ObjectInv
        <3>3. Sound(c)
            BY <3>1 DEF ObjectInv
        <3>4. Sound(c)'
            BY <1>3, <3>3, SoundKept DEF ObjectInv
        <3> QED BY <3>2, <3>4, SoundAt
    <2> QED BY <2>1, <2>2
<1> QED BY <1>2, <1>4 DEF ObjectInv

LEMMA TableKept ==
    ASSUME TableTrue, UNCHANGED <<config, table>>, forsaken' \subseteq 1..minted
    PROVE  TableTrue'
BY DEF TableTrue, table, Known

\* A step that writes nothing.
LEMMA QuietMove ==
    ASSUME ObjectInv, NEW r \in Requests, UNCHANGED <<config, table>>,
           forsaken' \subseteq 1..minted,
           NEW q, Sound(q), req' = [req EXCEPT ![r] = q]
    PROVE  ObjectInv'
<1>1. TableTrue'
    BY TableKept DEF ObjectInv
<1>2. /\ clock <= clock' /\ minted <= minted' /\ clock' \in Nat /\ minted' \in Nat
      /\ \A n \in Names : rows'[n] \in {rows[n], NoRow}
    BY Constants DEF table, ObjectInv, TableTrue
<1>3. Sound(q)'
    BY <1>2, SoundKept DEF ObjectInv
<1> QED BY <1>1, <1>2, <1>3, RequestMoves

LEMMA EndsKeeps ==
    ASSUME ObjectInv, NEW r \in Requests, NEW ok, Ends(r, ok), req[r].pc # "bulk",
           UNCHANGED <<config, table>>, forsaken' \subseteq 1..minted
    PROVE  ObjectInv'
<1>1. PICK q : q = ended(req[r], ok)
    OBVIOUS
<1>2. Sound(q)
    BY <1>1, EndedSound DEF ObjectInv
<1> QED BY <1>1, <1>2, QuietMove DEF Ends

LEMMA BeginsKeeps ==
    ASSUME ObjectInv, NEW r \in Requests, Begins(r)
    PROVE  ObjectInv'
<1>0. TableTrue /\ forsaken \subseteq 1..minted /\ clock \in Nat
    BY Constants DEF ObjectInv, TableTrue
<1>1. ASSUME NEW fields, Sound(fields), Begin(r, fields) PROVE ObjectInv'
    <2>1. /\ UNCHANGED <<config, table>> /\ forsaken' \subseteq 1..minted
          /\ req' = [req EXCEPT ![r] = fields]
        BY <1>0, <1>1 DEF Begin
    <2> QED BY <1>1, <2>1, QuietMove
<1>2. ASSUME NEW n \in Names, NEW b \in BOOLEAN, BeginCreate(r, n, b) PROVE ObjectInv'
    <2> DEFINE e == [Idle EXCEPT !.pc = "insert", !.verb = "create", !.name = n, !.may = b]
    <2>1. /\ e \in Request
          /\ e.pc = "insert" /\ e.verb = "create" /\ e.asserted = 0
          /\ e.read = NoRow /\ e.attempts = 0 /\ e.released = 0 /\ e.todo = {}
          /\ \A m \in Names : e.listed[m] = NoRow
        BY IdleFields DEF Request, Steps, Verbs
    <2>2. Begin(r, e)
        BY <1>2 DEF BeginCreate
    <2> HIDE DEF e
    <2>3. Sound(e)
        BY <1>0, <2>1, Constants DEF Sound, Decided, Copies, Known, Copy, Underway, TableTrue
    <2> QED BY <1>1, <2>2, <2>3
<1>3. ASSUME NEW n \in Names, NEW verb \in {"update", "status", "delete"}, NEW b \in BOOLEAN,
             NEW v \in 0..clock,
             Begin(r, afterRead([Idle EXCEPT !.verb = verb, !.name = n, !.asserted = v,
                                             !.may = b]))
      PROVE  ObjectInv'
    <2> DEFINE e == [Idle EXCEPT !.verb = verb, !.name = n, !.asserted = v, !.may = b]
    <2>1. v \in Nat /\ v <= clock
        BY <1>0
    <2>2. /\ e \in Request
          /\ e.pc = "idle" /\ e.verb = verb /\ e.asserted = v
          /\ e.read = NoRow /\ e.attempts = 0 /\ e.released = 0 /\ e.todo = {}
          /\ \A m \in Names : e.listed[m] = NoRow
        BY <2>1, IdleFields DEF Request, Verbs, Updating, Deleting
    <2>3. PICK q : q = e
        OBVIOUS
    <2>4. Begin(r, afterRead(q))
        BY <1>3, <2>3
    <2> HIDE DEF e
    <2>5. Sound(q)
        BY <1>0, <2>1, <2>2, <2>3, Constants
           DEF Sound, Decided, Copies, Known, Copy, Underway, TableTrue
    <2>6. Sound(afterRead(q))
        BY <1>0, <2>2, <2>3, <2>5, AfterReadSound DEF Updating, Deleting
    <2>7. PICK c : c = afterRead(q)
        OBVIOUS
    <2> QED BY <1>1, <2>4, <2>6, <2>7
<1>4. ASSUME NEW n \in Names, NEW verb \in Updating, NEW b \in BOOLEAN,
             NEW v \in 0..clock,
             BeginUpdate(r, n, verb, v, b) \/ BeginDelete(r, n, v, b)
      PROVE  ObjectInv'
    <2>1. CASE BeginUpdate(r, n, verb, v, b)
        <3>1. PICK may \in BOOLEAN : may = (b /\ verb = "update")
            OBVIOUS
        <3> QED BY <1>3, <2>1, <3>1 DEF BeginUpdate, Updating
    <2>2. CASE BeginDelete(r, n, v, b)
        BY <1>3, <2>2 DEF BeginDelete
    <2> QED BY <1>4, <2>1, <2>2
<1>5. CASE BeginDeleteCollection(r)
    <2> DEFINE e == [Idle EXCEPT !.pc = "list", !.verb = "collection"]
    <2>1. /\ e \in Request
          /\ e.pc = "list" /\ e.verb = "collection" /\ e.asserted = 0
          /\ e.read = NoRow /\ e.attempts = 0 /\ e.released = 0 /\ e.todo = {}
          /\ \A m \in Names : e.listed[m] = NoRow
        BY IdleFields DEF Request, Steps, Verbs, Deleting
    <2>2. Begin(r, e)
        BY <1>5 DEF BeginDeleteCollection
    <2> HIDE DEF e
    <2>3. Sound(e)
        BY <1>0, <2>1, Constants DEF Sound, Decided, Copies, Known, Copy, Underway, TableTrue,
               Deleting
    <2> QED BY <1>1, <2>2, <2>3
<1> QED BY <1>2, <1>4, <1>5 DEF Begins

\* Only uids of rows are added to the forsaken ones.
LEMMA ForsakesKnown ==
    ASSUME TableTrue, NEW r, Forsakes(r)
    PROVE  forsaken' \subseteq 1..minted
<1>1. ASSUME NEW n \in Names, rows[n] # NoRow PROVE rows[n].uid \in 1..minted
    <2>1. rows[n] \in Row /\ Known(rows[n])
        BY <1>1 DEF TableTrue, MaybeRow
    <2> QED BY <1>1, <2>1, Constants DEF Row, Known, TableTrue
<1> QED BY <1>1 DEF Forsakes, TableTrue

LEMMA AbandonedKeeps ==
    ASSUME ObjectInv, NEW r \in Requests, Abandoned(r)
    PROVE  ObjectInv'
<1>1. forsaken' \subseteq 1..minted
    BY ForsakesKnown DEF Abandoned, ObjectInv
<1>2. UNCHANGED <<config, table>> /\ req' = [req EXCEPT ![r] = Idle]
    BY DEF Abandoned
<1>3. Sound(Idle)
    BY IdleSound DEF ObjectInv
<1>4. PICK q : q = Idle
    OBVIOUS
<1> QED BY <1>1, <1>2, <1>3, <1>4, QuietMove

LEMMA ReadsKeep ==
    ASSUME ObjectInv, NEW r \in Requests, ReadRow(r) \/ ReadBack(r)
    PROVE  ObjectInv'
<1>0. /\ TableTrue /\ forsaken \subseteq 1..minted
      /\ Sound(req[r]) /\ req[r] \in Request
    BY DEF ObjectInv, TableTrue, Sound
<1>1. CASE ReadRow(r)
    <2>1. /\ req[r].verb \in Deleting /\ req[r].pc # "bulk"
        BY <1>0, <1>1 DEF ReadRow, Sound, Underway
    <2>2. PICK q : q = afterRead(req[r])
        OBVIOUS
    <2>3. Sound(q)
        BY <1>0, <2>1, <2>2, AfterReadSound
    <2>4. req' = [req EXCEPT ![r] = q] /\ UNCHANGED <<config, table, forsaken>>
        BY <1>1, <2>2 DEF ReadRow
    <2> QED BY <1>0, <2>3, <2>4, QuietMove
<1>2. CASE ReadBack(r) /\ rows[req[r].name] = NoRow
    <2>1. PICK q : q = notFound(req[r])
        OBVIOUS
    <2>2. Sound(q)
        BY <1>0, <1>2, <2>1, NotFoundSound DEF ReadBack
    <2>3. req' = [req EXCEPT ![r] = q] /\ UNCHANGED <<config, table, forsaken>>
        BY <1>2, <2>1 DEF ReadBack
    <2> QED BY <1>0, <2>2, <2>3, QuietMove
<1>3. CASE ReadBack(r) /\ rows[req[r].name] # NoRow
    <2>1. PICK read : read = IF req[r].then = "mark" THEN rows[req[r].name] ELSE NoRow
        OBVIOUS
    <2>2. PICK q : q = [req[r] EXCEPT !.pc = "written", !.read = read]
        OBVIOUS
    <2>3. /\ read \in MaybeRow /\ Known(read) /\ Copy(read, req[r].name)
          /\ req[r].then = "mark" => read # NoRow
        BY <1>0, <1>3, <2>1 DEF TableTrue, Request, MaybeRow, Known, Copy
    <2>4. /\ q \in Request
          /\ q.pc = "written" /\ q.read = read /\ q.name = req[r].name /\ q.then = req[r].then
          /\ q.verb = req[r].verb /\ q.asserted = req[r].asserted
          /\ q.released = req[r].released /\ q.attempts = req[r].attempts
          /\ q.todo = req[r].todo /\ q.listed = req[r].listed
        BY <1>0, <2>2, <2>3 DEF Request, Steps
    <2>5. Copies(q)
        BY <1>0, <2>3, <2>4 DEF Sound, Copies
    <2>6. req[r].pc = "readback"
        BY <1>3 DEF ReadBack
    <2>7. Underway(q)
        BY <1>0, <2>3, <2>4, <2>6 DEF Sound, Underway
    <2>8. Sound(q)
        BY <2>4, <2>5, <2>7 DEF Sound, Decided
    <2>9. req' = [req EXCEPT ![r] = q] /\ UNCHANGED <<config, table, forsaken>>
        BY <1>3, <2>1, <2>2 DEF ReadBack
    <2> QED BY <1>0, <2>8, <2>9, QuietMove
<1> QED BY <1>1, <1>2, <1>3

LEMMA CollidesKeeps ==
    ASSUME ObjectInv, NEW r \in Requests, InsertCollides(r)
    PROVE  ObjectInv'
<1>0. /\ TableTrue /\ forsaken \subseteq 1..minted
      /\ Sound(req[r]) /\ req[r] \in Request
      /\ req[r].pc = "insert" /\ req[r].verb = "create" /\ req[r].read = NoRow
      /\ UNCHANGED <<config, table, forsaken>>
    BY DEF ObjectInv, TableTrue, Sound, Underway, InsertCollides
<1>1. CASE ~(req[r].may /\ req[r].attempts + 1 < generateNameAttempts)
    BY <1>0, <1>1, EndsKeeps DEF InsertCollides
<1>2. CASE req[r].may /\ req[r].attempts + 1 < generateNameAttempts
    <2>1. PICK n \in Names : req' = [req EXCEPT ![r].name = n, ![r].attempts = @ + 1]
        BY <1>2 DEF InsertCollides
    <2>2. PICK q : q = [req[r] EXCEPT !.name = n, !.attempts = @ + 1]
        OBVIOUS
    <2>3. req' = [req EXCEPT ![r] = q]
        BY <2>1, <2>2 DEF ObjectInv
    <2>4. /\ q \in Request
          /\ q.pc = "insert" /\ q.verb = "create" /\ q.read = NoRow
          /\ q.attempts = req[r].attempts + 1 /\ q.asserted = req[r].asserted
          /\ q.released = req[r].released
          /\ q.todo = req[r].todo /\ q.listed = req[r].listed
        <3>1. PICK a \in Nat : a = req[r].attempts + 1
            BY <1>0 DEF Request
        <3>2. q = [req[r] EXCEPT !.name = n, !.attempts = a]
            BY <2>2, <3>1
        <3> QED BY <1>0, <3>1, <3>2 DEF Request
    <2>5. Copies(q)
        BY <1>0, <2>4 DEF Sound, Copies, Known, Copy
    <2>6. Underway(q)
        BY <1>0, <1>2, <2>4 DEF Sound, Underway
    <2>7. Sound(q)
        BY <2>4, <2>5, <2>6 DEF Sound, Decided
    <2> QED BY <1>0, <2>3, <2>7, QuietMove
<1> QED BY <1>1, <1>2

LEMMA DecideUpdateKeeps ==
    ASSUME ObjectInv, NEW r \in Requests, DecideUpdate(r)
    PROVE  ObjectInv'
<1>0. /\ TableTrue /\ forsaken \subseteq 1..minted
      /\ Sound(req[r]) /\ req[r] \in Request
      /\ req[r].pc = "decide" /\ req[r].verb \in Updating
      /\ req[r].read # NoRow /\ req[r].read \in Row
      /\ UNCHANGED <<config, table, forsaken>>
    BY DEF ObjectInv, TableTrue, Sound, Underway, DecideUpdate, Request, MaybeRow
<1>1. CASE Ends(r, FALSE)
    BY <1>0, <1>1, EndsKeeps
<1>2. ASSUME ~Ends(r, FALSE) PROVE ObjectInv'
    <2> DEFINE fsets == IF req[r].verb # "update" THEN {req[r].read.finalizers}
                        ELSE IF config.finalizers THEN SUBSET AllFinalizers ELSE {{}}
    <2>1. PICK fs \in fsets :
              /\ ~addsFinalizer(req[r].read, fs)
              /\ req' = [req EXCEPT ![r] = [@ EXCEPT
                     !.pc = "statement", !.holders = fs, !.asserted = 0,
                     !.stmt = IF req[r].verb = "status" THEN "updateStatus" ELSE "update",
                     !.then = IF releasedByUpdate(req[r].read, fs) THEN "finish" ELSE "end"]]
        BY <1>2 DEF DecideUpdate
    <2>2. PICK then \in {"end", "finish"} :
              then = IF releasedByUpdate(req[r].read, fs) THEN "finish" ELSE "end"
        OBVIOUS
    <2>3. PICK stmt \in {"updateStatus", "update"} :
              stmt = IF req[r].verb = "status" THEN "updateStatus" ELSE "update"
        OBVIOUS
    <2>4. PICK q : q = [req[r] EXCEPT !.pc = "statement", !.holders = fs, !.asserted = 0,
                                      !.stmt = stmt, !.then = then]
        OBVIOUS
    <2>5. fs \subseteq AllFinalizers
        BY <1>0, <2>1 DEF Row
    <2>6. /\ q \in Request
          /\ q.pc = "statement" /\ q.holders = fs /\ q.stmt = stmt /\ q.then = then
          /\ q.verb = req[r].verb /\ q.name = req[r].name /\ q.read = req[r].read
          /\ q.attempts = req[r].attempts /\ q.asserted = 0
          /\ q.released = req[r].released
          /\ q.todo = req[r].todo /\ q.listed = req[r].listed
        BY <1>0, <2>4, <2>5 DEF Request, Steps, Statements
    <2>7. Copies(q)
        BY <1>0, <2>6 DEF Sound, Copies
    <2>8. Underway(q)
        BY <1>0, <2>6, Constants DEF Sound, Underway, TableTrue
    <2>9. Decided(q)
        <3>1. Known(req[r].read)
            BY <1>0 DEF Sound, Copies
        <3>2. config.finalizers \/ (fs = {} /\ ~req[r].read.deleting)
            BY <1>0, <2>1, <3>1 DEF Known
        <3>3. req[r].read.deleting => fs \subseteq req[r].read.finalizers
            BY <2>1, <3>2 DEF addsFinalizer
        <3>4. req[r].verb \in {"update", "status"} /\ req[r].verb \notin Deleting
            BY <1>0 DEF Updating, Deleting
        <3>5. req[r].verb = "status" => fs = req[r].read.finalizers
            BY <2>1
        <3> QED BY <2>2, <2>3, <2>6, <3>2, <3>3, <3>4, <3>5 DEF Decided
    <2>10. Sound(q)
        BY <2>6, <2>7, <2>8, <2>9 DEF Sound
    <2>11. req' = [req EXCEPT ![r] = q]
        BY <2>1, <2>2, <2>3, <2>4
    <2> QED BY <1>0, <2>10, <2>11, QuietMove
<1> QED BY <1>1, <1>2

LEMMA WrittenKeeps ==
    ASSUME ObjectInv, NEW r \in Requests, Written(r)
    PROVE  ObjectInv'
<1>0. /\ TableTrue /\ forsaken \subseteq 1..minted
      /\ Sound(req[r]) /\ req[r] \in Request
      /\ req[r].pc = "written"
      /\ UNCHANGED <<config, table, forsaken>>
    BY DEF ObjectInv, TableTrue, Sound, Written
<1>1. CASE req[r].then = "end"
    BY <1>0, <1>1, EndsKeeps DEF Written
<1>2. CASE req[r].then = "mark"
    <2>1. PICK q : q = markTerminating(req[r])
        OBVIOUS
    <2>2. req' = [req EXCEPT ![r] = q]
        BY <1>2, <2>1 DEF Written
    <2>3. /\ q \in Request
          /\ q.pc = "statement" /\ q.stmt = "markDeleted" /\ q.then = "end"
          /\ q.verb = req[r].verb /\ q.name = req[r].name /\ q.read = req[r].read
          /\ q.attempts = req[r].attempts /\ q.asserted = req[r].asserted
          /\ q.released = req[r].released
          /\ q.todo = req[r].todo /\ q.listed = req[r].listed
        BY <1>0, <2>1 DEF markTerminating, Request, Steps, Statements
    <2>4. q.verb \in Deleting /\ q.read # NoRow /\ config.finalizers
        BY <1>0, <1>2, <2>3 DEF Sound, Underway
    <2>5. Copies(q)
        BY <1>0, <2>3 DEF Sound, Copies
    <2>6. Underway(q)
        BY <1>0, <2>3, <2>4 DEF Sound, Underway
    <2>7. Decided(q)
        BY <2>3, <2>4 DEF Decided, Deleting, Updating
    <2>8. Sound(q)
        BY <2>3, <2>5, <2>6, <2>7 DEF Sound
    <2> QED BY <1>0, <2>2, <2>8, QuietMove
<1>3. CASE req[r].then = "finish"
    <2>1. PICK q : q = finishDeletion(req[r])
        OBVIOUS
    <2>2. req' = [req EXCEPT ![r] = q]
        BY <1>3, <2>1 DEF Written
    <2>3. /\ q \in Request
          /\ q.pc = "read" /\ q.verb = "finish" /\ q.asserted = 0
          /\ q.read = NoRow /\ q.attempts = 0 /\ q.released = req[r].released /\ q.todo = {}
          /\ \A m \in Names : q.listed[m] = NoRow
        BY <1>0, <2>1, IdleFields DEF finishDeletion, Request, Steps, Verbs, Deleting
    <2>4. Copies(q)
        BY <2>3 DEF Copies, Known, Copy
    <2>5. Underway(q)
        BY <1>0, <2>3, Constants DEF Sound, Underway, TableTrue, Deleting
    <2>6. Sound(q)
        BY <2>3, <2>4, <2>5 DEF Sound, Decided
    <2> QED BY <1>0, <2>2, <2>6, QuietMove
<1>4. req[r].then \in {"end", "mark", "finish"}
    BY <1>0 DEF Request
<1> QED BY <1>1, <1>2, <1>3, <1>4

LEMMA DecideDeleteKeeps ==
    ASSUME ObjectInv, NEW r \in Requests, DecideDelete(r)
    PROVE  ObjectInv'
<1>0. /\ TableTrue /\ forsaken \subseteq 1..minted
      /\ Sound(req[r]) /\ req[r] \in Request
      /\ req[r].pc = "decide" /\ req[r].verb \in Deleting
      /\ req[r].read # NoRow /\ req[r].read \in Row
      /\ UNCHANGED <<config, table, forsaken>>
    BY DEF ObjectInv, TableTrue, Sound, Underway, DecideDelete, Request, MaybeRow
<1>1. ASSUME NEW stmt \in {"update", "markDeleted", "delete"}, NEW then \in {"end", "mark"},
             req' = [req EXCEPT ![r] = [req[r] EXCEPT !.pc = "statement", !.stmt = stmt,
                         !.then = then, !.may = FALSE,
                         !.holders = req[r].read.finalizers \cup {Collector}]],
             stmt = "update" <=> then = "mark",
             stmt = "delete" => req[r].read.finalizers = {},
             stmt # "delete" => config.finalizers
      PROVE  ObjectInv'
    <2>1. PICK hs : hs = req[r].read.finalizers \cup {Collector}
        OBVIOUS
    <2>2. PICK q : q = [req[r] EXCEPT !.pc = "statement", !.stmt = stmt, !.then = then,
                                      !.may = FALSE, !.holders = hs]
        OBVIOUS
    <2>3. hs \in SUBSET AllFinalizers
        BY <1>0, <2>1 DEF Row, AllFinalizers
    <2>4. /\ q \in Request
          /\ q.pc = "statement" /\ q.stmt = stmt /\ q.then = then /\ q.holders = hs
          /\ q.verb = req[r].verb /\ q.name = req[r].name /\ q.read = req[r].read
          /\ q.attempts = req[r].attempts /\ q.asserted = req[r].asserted
          /\ q.released = req[r].released
          /\ q.todo = req[r].todo /\ q.listed = req[r].listed
        BY <1>0, <2>2, <2>3 DEF Request, Steps, Statements
    <2>5. Copies(q)
        BY <1>0, <2>4 DEF Sound, Copies
    <2>6. Underway(q)
        BY <1>0, <2>4 DEF Sound, Underway
    <2>7. Decided(q)
        BY <1>0, <1>1, <2>1, <2>4 DEF Decided, Deleting, Updating
    <2>8. Sound(q)
        BY <2>4, <2>5, <2>6, <2>7 DEF Sound
    <2>9. req' = [req EXCEPT ![r] = q]
        BY <1>1, <2>1, <2>2
    <2> QED BY <1>0, <2>8, <2>9, QuietMove
<1>2. CASE decision(req[r]) \in {"refuse", "done"}
    BY <1>0, <1>2, EndsKeeps DEF DecideDelete
<1>3. CASE decision(req[r]) = "hold"
    <2>1. config.finalizers
        BY <1>3 DEF decision
    <2> QED BY <1>1, <1>3, <2>1 DEF DecideDelete
<1>4. CASE decision(req[r]) = "mark"
    <2>1. config.finalizers
        BY <1>4 DEF decision
    <2> QED BY <1>1, <1>4, <2>1 DEF DecideDelete
<1>5. CASE decision(req[r]) = "delete"
    <2>1. config.finalizers => req[r].read.finalizers = {}
        BY <1>5 DEF decision
    <2>2. req[r].read.finalizers = {}
        BY <1>0, <2>1 DEF Sound, Copies, Known
    <2> QED BY <1>1, <1>5, <2>2 DEF DecideDelete
<1>6. decision(req[r]) \in {"refuse", "done", "hold", "mark", "delete"}
    BY DEF decision
<1> QED BY <1>2, <1>3, <1>4, <1>5, <1>6

LEMMA MissesKeep ==
    ASSUME ObjectInv, NEW r \in Requests, StatementMisses(r) \/ DeleteMisses(r)
    PROVE  ObjectInv'
<1>0. /\ TableTrue /\ forsaken \subseteq 1..minted
      /\ Sound(req[r]) /\ req[r] \in Request
      /\ req[r].pc = "statement"
      /\ UNCHANGED <<config, table>>
    BY DEF ObjectInv, TableTrue, Sound, StatementMisses, DeleteMisses
<1>1. CASE StatementMisses(r)
    <2>1. CASE Ends(r, FALSE)
        BY <1>0, <1>1, <2>1, EndsKeeps DEF StatementMisses
    <2>2. CASE req' = [req EXCEPT ![r] = notFound(req[r])]
        <3>1. PICK q : q = notFound(req[r])
            OBVIOUS
        <3>2. Sound(q)
            BY <1>0, <3>1, NotFoundSound
        <3> QED BY <1>0, <1>1, <2>2, <3>1, <3>2, QuietMove DEF StatementMisses
    <2> QED BY <1>1, <2>1, <2>2 DEF StatementMisses
<1>2. CASE DeleteMisses(r) /\ "delete" \notin config.guarded
    BY <1>0, <1>2, EndsKeeps DEF DeleteMisses
<1>3. CASE DeleteMisses(r) /\ "delete" \in config.guarded /\ req[r].attempts + 1 >= deleteAttempts
    <2>1. Ends(r, FALSE) /\ forsaken' \subseteq 1..minted
        <3>1. req[r].attempts \in Nat
            BY <1>0 DEF Request
        <3>2. ~(req[r].attempts + 1 < deleteAttempts)
            BY <1>3, <3>1, Constants
        <3>3. Ends(r, FALSE) /\ Forsakes(r)
            BY <1>3, <3>2 DEF DeleteMisses
        <3> QED BY <1>0, <3>3, ForsakesKnown
    <2> QED BY <1>0, <2>1, EndsKeeps
<1>4. CASE DeleteMisses(r) /\ "delete" \in config.guarded /\ req[r].attempts + 1 < deleteAttempts
    <2>1. PICK a \in Nat : a = req[r].attempts + 1
        BY <1>0 DEF Request
    <2>2. PICK q : q = [req[r] EXCEPT !.pc = "read", !.stmt = "none", !.attempts = a]
        OBVIOUS
    <2>3. req' = [req EXCEPT ![r] = q] /\ UNCHANGED forsaken
        <3>1. ~(req[r].attempts + 1 >= deleteAttempts)
            BY <1>4, <2>1, Constants
        <3>2. /\ req' = [req EXCEPT ![r] = [req[r] EXCEPT !.pc = "read", !.stmt = "none",
                                                     !.attempts = req[r].attempts + 1]]
              /\ UNCHANGED forsaken
            BY <1>4, <3>1 DEF DeleteMisses
        <3> QED BY <2>1, <2>2, <3>2
    <2>4. /\ q \in Request
          /\ q.pc = "read" /\ q.attempts = a
          /\ q.verb = req[r].verb /\ q.name = req[r].name /\ q.read = req[r].read
          /\ q.asserted = req[r].asserted /\ q.released = req[r].released
          /\ q.todo = req[r].todo /\ q.listed = req[r].listed
        BY <1>0, <2>1, <2>2 DEF Request, Steps
    <2>5. q.verb \in Deleting /\ q.verb # "create"
        BY <1>0, <1>4, <2>4 DEF DeleteMisses, Sound, Underway, Decided, Updating, Deleting
    <2>6. Copies(q)
        BY <1>0, <2>4 DEF Sound, Copies
    <2>7. Underway(q)
        BY <1>0, <1>4, <2>1, <2>4, <2>5 DEF Sound, Underway
    <2>8. Sound(q)
        BY <2>4, <2>6, <2>7 DEF Sound, Decided
    <2> QED BY <1>0, <2>3, <2>8, QuietMove
<1>5. CASE DeleteMisses(r)
    <2>1. req[r].attempts \in Nat
        BY <1>0 DEF Request
    <2> QED BY <1>2, <1>3, <1>4, <1>5, <2>1, Constants
<1> QED BY <1>1, <1>5

LEMMA CollectionKeeps ==
    ASSUME ObjectInv, NEW r \in Requests, ListRows(r) \/ DeleteEach(r)
    PROVE  ObjectInv'
<1>0. /\ TableTrue /\ forsaken \subseteq 1..minted
      /\ Sound(req[r]) /\ req[r] \in Request
      /\ req[r].pc \in {"list", "each"}
      /\ UNCHANGED <<config, table, forsaken>>
    BY DEF ObjectInv, TableTrue, Sound, ListRows, DeleteEach
<1>1. CASE ListRows(r)
    <2>1. PICK pc \in {"bulk", "each"} : pc = IF canDeleteInBulk THEN "bulk" ELSE "each"
        OBVIOUS
    <2>2. PICK listed : listed = IF config.finalizers \/ canDeleteInBulk
                                 THEN req[r].listed ELSE rows
        OBVIOUS
    <2>3. PICK todo : todo = {n \in Names : rows[n] # NoRow}
        OBVIOUS
    <2>4. PICK q : q = [req[r] EXCEPT !.pc = pc, !.listed = listed, !.todo = todo]
        OBVIOUS
    <2>5. req' = [req EXCEPT ![r] = q]
        <3>1. req' = [req EXCEPT ![r] = [req[r] EXCEPT
                  !.pc = IF canDeleteInBulk THEN "bulk" ELSE "each",
                  !.listed = IF config.finalizers \/ canDeleteInBulk THEN req[r].listed ELSE rows,
                  !.todo = {n \in Names : rows[n] # NoRow}]]
            BY <1>0, <1>1 DEF ListRows, Request
        <3> QED BY <2>1, <2>2, <2>3, <2>4, <3>1
    <2>6. listed \in [Names -> MaybeRow] /\ todo \in SUBSET Names
        BY <1>0, <2>2, <2>3 DEF TableTrue, Request
    <2>7. /\ q \in Request
          /\ q.pc = pc /\ q.listed = listed /\ q.todo = todo
          /\ q.verb = req[r].verb /\ q.name = req[r].name /\ q.read = req[r].read
          /\ q.attempts = req[r].attempts /\ q.asserted = req[r].asserted
          /\ q.released = req[r].released
        BY <1>0, <2>1, <2>4, <2>6 DEF Request, Steps
    <2>8. Copies(q)
        BY <1>0, <2>2, <2>7 DEF Sound, Copies, Copy, TableTrue
    <2>9. /\ pc = "bulk" => ~config.finalizers
          /\ config.finalizers \/ pc = "bulk" \/ \A n \in todo : listed[n] # NoRow
        BY <2>1, <2>2, <2>3 DEF canDeleteInBulk
    <2>10. Underway(q)
        BY <1>0, <2>7, <2>9 DEF Sound, Underway
    <2>11. Sound(q)
        BY <2>7, <2>8, <2>10 DEF Sound, Decided
    <2> QED BY <1>0, <2>5, <2>11, QuietMove
<1>2. CASE DeleteEach(r) /\ req[r].todo = {}
    BY <1>0, <1>2, EndsKeeps DEF DeleteEach
<1>3. CASE DeleteEach(r) /\ req[r].todo # {}
    <2>1. PICK n \in req[r].todo :
              req' = [req EXCEPT ![r] = [req[r] EXCEPT
                  !.name = n, !.todo = req[r].todo \ {n},
                  !.pc = IF config.finalizers THEN "read" ELSE "decide",
                  !.read = req[r].listed[n]]]
        BY <1>0, <1>3 DEF DeleteEach, Request
    <2>2. PICK pc \in {"read", "decide"} : pc = IF config.finalizers THEN "read" ELSE "decide"
        OBVIOUS
    <2>3. PICK q : q = [req[r] EXCEPT !.name = n, !.todo = req[r].todo \ {n}, !.pc = pc,
                                      !.read = req[r].listed[n]]
        OBVIOUS
    <2>4. req' = [req EXCEPT ![r] = q]
        BY <2>1, <2>2, <2>3
    <2>5. n \in Names /\ req[r].listed[n] \in MaybeRow
        BY <1>0, <2>1 DEF Request
    <2>6. /\ q \in Request
          /\ q.pc = pc /\ q.name = n /\ q.todo = req[r].todo \ {n}
          /\ q.read = req[r].listed[n] /\ q.listed = req[r].listed
          /\ q.verb = req[r].verb
          /\ q.attempts = req[r].attempts /\ q.asserted = req[r].asserted
          /\ q.released = req[r].released
        BY <1>0, <2>2, <2>3, <2>5 DEF Request, Steps
    <2>7. Copies(q)
        BY <1>0, <2>5, <2>6 DEF Sound, Copies
    <2>8. req[r].verb \in Deleting
        BY <1>0 DEF Sound, Underway
    <2>9. config.finalizers \/ req[r].listed[n] # NoRow
        BY <1>0, <2>1 DEF Sound, Underway
    <2>10. Underway(q)
        BY <1>0, <2>1, <2>2, <2>6, <2>8, <2>9 DEF Sound, Underway
    <2>11. Sound(q)
        BY <2>6, <2>7, <2>10, <2>2 DEF Sound, Decided
    <2> QED BY <1>0, <2>4, <2>11, QuietMove
<1> QED BY <1>0, <1>1, <1>2, <1>3

\* The row of one name is replaced by one at a new version.
LEMMA RowWritten ==
    ASSUME TableTrue, NEW n \in Names, NEW row \in Row, row.version = clock + 1,
           clock < MaxClock, clock' = clock + 1,
           minted' \in 0..MaxUid, minted <= minted', row.uid <= minted',
           row.spec \subseteq 1..(clock + 1), row.status \subseteq 1..(clock + 1),
           config.finalizers \/ (row.finalizers = {} /\ ~row.deleting),
           rows' = [rows EXCEPT ![n] = row],
           UNCHANGED <<config, forsaken>>
    PROVE  /\ TableTrue'
           /\ clock' \in Nat /\ minted' \in Nat /\ clock <= clock'
           /\ \A m \in Names : rows'[m] \in {rows[m], NoRow} \/ rows'[m].version > clock
<1>0. clock \in Nat /\ minted \in Nat /\ MaxClock \in Nat /\ MaxUid \in Nat
    BY Constants DEF TableTrue
<1>1. clock' \in 0..MaxClock /\ clock' \in Nat /\ minted' \in Nat /\ clock <= clock'
    BY <1>0
<1>2. rows' \in [Names -> MaybeRow]
    BY DEF TableTrue, MaybeRow
<1>3. forsaken' \subseteq 1..minted'
    BY <1>0, <1>1 DEF TableTrue
<1>4. ASSUME NEW m \in Names PROVE Known(rows[m])'
    <2>1. CASE m = n
        <3>1. rows'[m] = row
            BY <2>1 DEF TableTrue
        <3>2. row.version <= clock'
            BY <1>0
        <3> QED BY <3>1, <3>2 DEF Known
    <2>2. CASE m # n
        <3>1. rows'[m] = rows[m] /\ rows[m] \in MaybeRow
            BY <2>2 DEF TableTrue
        <3>2. rows[m] # NoRow => rows[m].version \in Nat /\ rows[m].uid \in Nat
            BY <3>1, Constants DEF MaybeRow, Row
        <3>3. 1..clock \subseteq 1..clock'
            BY <1>0
        <3>4. Known(rows[m])
            BY DEF TableTrue
        <3> QED BY <1>0, <1>1, <3>1, <3>2, <3>3, <3>4 DEF Known
    <2> QED BY <2>1, <2>2
<1>5. \A m \in Names : rows'[m] \in {rows[m], NoRow} \/ rows'[m].version > clock
    BY <1>0 DEF TableTrue
<1>6. config' \in Configs
    BY DEF TableTrue
<1> QED BY <1>1, <1>2, <1>3, <1>4, <1>5, <1>6 DEF TableTrue

LEMMA InsertKeeps ==
    ASSUME ObjectInv, NEW r \in Requests, InsertCommits(r)
    PROVE  ObjectInv'
<1>0. /\ TableTrue /\ Sound(req[r]) /\ req[r] \in Request /\ req[r].name \in Names
      /\ clock \in Nat /\ minted \in Nat /\ clock < MaxClock /\ minted < MaxUid
      /\ UNCHANGED <<config, forsaken>> /\ clock' = clock + 1 /\ minted' = minted + 1
      /\ config \in Configs
    BY Constants DEF ObjectInv, TableTrue, Sound, InsertCommits, Request
<1>1. PICK fs \in (IF config.finalizers THEN SUBSET Finalizers ELSE {{}}) :
          rows' = [rows EXCEPT ![req[r].name] =
              [uid |-> minted + 1, version |-> clock + 1, spec |-> {}, status |-> {},
               finalizers |-> fs, deleting |-> FALSE]]
    BY DEF InsertCommits
<1>2. PICK row : row = [uid |-> minted + 1, version |-> clock + 1, spec |-> {}, status |-> {},
                        finalizers |-> fs, deleting |-> FALSE]
    OBVIOUS
<1>3. fs \subseteq AllFinalizers /\ (config.finalizers \/ fs = {})
    BY <1>1 DEF AllFinalizers
<1>4. /\ row \in Row /\ row.version = clock + 1 /\ row.uid = minted + 1
      /\ row.spec = {} /\ row.status = {} /\ row.finalizers = fs /\ ~row.deleting
    <2>1. clock + 1 \in 1..MaxClock /\ minted + 1 \in 1..MaxUid
        BY <1>0, Constants
    <2> QED BY <1>2, <1>3, <2>1 DEF Row
<1>5. /\ minted' \in 0..MaxUid /\ minted <= minted' /\ row.uid <= minted'
    BY <1>0, <1>4, Constants
<1>6. /\ TableTrue' /\ clock' \in Nat /\ minted' \in Nat /\ clock <= clock'
      /\ \A m \in Names : rows'[m] \in {rows[m], NoRow} \/ rows'[m].version > clock
    BY <1>0, <1>1, <1>2, <1>3, <1>4, <1>5, RowWritten
<1>7. PICK q : q = IF config.returnsRows THEN Idle
                   ELSE [Idle EXCEPT !.pc = "readback", !.verb = "create",
                                     !.name = req[r].name]
    OBVIOUS
<1>8. /\ q \in Request
      /\ q.pc \in {"idle", "readback"} /\ q.asserted = 0
      /\ q.read = NoRow /\ q.attempts = 0 /\ q.released = 0 /\ q.todo = {} /\ q.then = "end"
      /\ \A m \in Names : q.listed[m] = NoRow
    BY <1>0, <1>7, IdleFields DEF Request, Steps, Verbs
<1>9. Sound(q)
    BY <1>0, <1>8, Constants DEF Sound, Decided, Copies, Known, Copy, Underway
<1>10. Sound(q)'
    BY <1>0, <1>5, <1>6, <1>9, SoundKept
<1>11. req' = [req EXCEPT ![r] = q]
    BY <1>7 DEF InsertCommits
<1> QED BY <1>0, <1>5, <1>6, <1>10, <1>11, RequestMoves

LEMMA StatementKeeps ==
    ASSUME ObjectInv, NEW r \in Requests, StatementCommits(r)
    PROVE  ObjectInv'
<1> DEFINE p == req[r]
<1>0. /\ TableTrue /\ Sound(p) /\ p \in Request /\ p.name \in Names
      /\ clock \in Nat /\ minted \in Nat /\ clock < MaxClock /\ minted \in 0..MaxUid
      /\ UNCHANGED <<config, minted, forsaken>> /\ clock' = clock + 1
      /\ config \in Configs /\ p.pc = "statement" /\ p.stmt # "delete"
      /\ rows[p.name] # NoRow
    BY Constants DEF ObjectInv, TableTrue, Sound, StatementCommits, Request, matches
<1>1. /\ rows[p.name] \in Row /\ Known(rows[p.name])
      /\ p.read \in Row /\ p.read # NoRow /\ Known(p.read)
      /\ p.verb \in Updating \cup Deleting
    BY <1>0 DEF TableTrue, MaybeRow, Sound, Underway, Copies, Request
<1>row. PICK row : row = IF p.stmt = "markDeleted"
                       THEN [rows[p.name] EXCEPT !.deleting = TRUE, !.version = clock + 1]
                       ELSE stored(p)
    OBVIOUS
<1>2. /\ rows' = [rows EXCEPT ![p.name] = row]
      /\ req' = [req EXCEPT ![r] = [p EXCEPT
             !.pc = IF config.returnsRows THEN "written" ELSE "readback",
             !.read = IF p.then = "mark" THEN row ELSE NoRow,
             !.holders = {}, !.asserted = 0,
             !.released = IF p.then = "finish" THEN row.uid ELSE p.released]]
    BY <1>row DEF StatementCommits
<1>3. 1..clock \subseteq 1..(clock + 1) /\ clock + 1 \in 1..MaxClock /\ clock + 1 \in 1..(clock + 1)
    BY <1>0, Constants
<1>4. /\ row \in Row /\ row.version = clock + 1 /\ row.uid <= minted /\ row.uid \in Nat
      /\ row.spec \subseteq 1..(clock + 1) /\ row.status \subseteq 1..(clock + 1)
      /\ config.finalizers \/ (row.finalizers = {} /\ ~row.deleting)
    <2>0. rows[p.name].uid \in Nat /\ rows[p.name].uid <= minted
        BY <1>0, <1>1, Constants DEF Known, Row
    <2>1. CASE p.stmt = "markDeleted"
        <3>1. row = [rows[p.name] EXCEPT !.deleting = TRUE, !.version = clock + 1]
            BY <1>row, <2>1
        <3>2. /\ row \in Row /\ row.version = clock + 1 /\ row.uid = rows[p.name].uid
              /\ row.spec = rows[p.name].spec /\ row.status = rows[p.name].status
            BY <1>1, <1>3, <3>1 DEF Row
        <3>3. config.finalizers
            BY <1>0, <1>1, <2>1 DEF Sound, Decided, Updating
        <3> QED BY <1>0, <1>1, <1>3, <2>0, <3>2, <3>3 DEF Known
    <2>2. CASE p.stmt # "markDeleted"
        <3>1. PICK spec : spec = p.read.spec \cup (IF p.verb = "update" THEN {clock + 1} ELSE {})
            OBVIOUS
        <3>2. PICK status :
                  status = p.read.status \cup (IF p.verb = "status" THEN {clock + 1} ELSE {})
            OBVIOUS
        <3>3. row = [rows[p.name] EXCEPT !.version = clock + 1, !.finalizers = p.holders,
                                         !.spec = spec, !.status = status]
            BY <1>row, <2>2, <3>1, <3>2 DEF stored
        <3>4. /\ spec \subseteq 1..MaxClock /\ status \subseteq 1..MaxClock
              /\ spec \subseteq 1..(clock + 1) /\ status \subseteq 1..(clock + 1)
            <4>1. /\ p.read.spec \subseteq 1..MaxClock /\ p.read.status \subseteq 1..MaxClock
                  /\ p.read.spec \subseteq 1..clock /\ p.read.status \subseteq 1..clock
                BY <1>1 DEF Row, Known
            <4> QED BY <1>3, <3>1, <3>2, <4>1
        <3>5. p.holders \in SUBSET AllFinalizers
            BY <1>0 DEF Request
        <3>6. /\ row \in Row /\ row.version = clock + 1 /\ row.uid = rows[p.name].uid
              /\ row.spec = spec /\ row.status = status /\ row.finalizers = p.holders
              /\ row.deleting = rows[p.name].deleting
            BY <1>1, <1>3, <3>3, <3>4, <3>5 DEF Row
        <3>7. config.finalizers \/ p.holders = {}
            BY <1>0, <1>1 DEF Sound, Decided
        <3>8. config.finalizers \/ ~rows[p.name].deleting
            BY <1>0, <1>1 DEF Known
        <3> QED BY <2>0, <3>4, <3>6, <3>7, <3>8
    <2> QED BY <2>1, <2>2
<1>5. /\ TableTrue' /\ clock' \in Nat /\ minted' \in Nat /\ clock <= clock' /\ minted <= minted'
      /\ \A m \in Names : rows'[m] \in {rows[m], NoRow} \/ rows'[m].version > clock
    <2>1. minted' \in 0..MaxUid /\ minted <= minted' /\ row.uid <= minted'
        BY <1>0, <1>4
    <2> QED BY <1>0, <1>2, <1>4, <2>1, RowWritten
<1>6. PICK pc \in {"written", "readback"} :
          pc = IF config.returnsRows THEN "written" ELSE "readback"
    OBVIOUS
<1>7. PICK read : read = IF p.then = "mark" THEN row ELSE NoRow
    OBVIOUS
<1>8. PICK released : released = IF p.then = "finish" THEN row.uid ELSE p.released
    OBVIOUS
<1>9. PICK q : q = [p EXCEPT !.pc = pc, !.read = read, !.holders = {}, !.asserted = 0,
                             !.released = released]
    OBVIOUS
<1>10. released \in Nat /\ released <= minted /\ read \in MaybeRow
    BY <1>0, <1>4, <1>7, <1>8 DEF Sound, Underway, Request, MaybeRow
<1>11. /\ q \in Request
       /\ q.pc = pc /\ q.read = read /\ q.released = released /\ q.asserted = 0
       /\ q.verb = p.verb /\ q.name = p.name /\ q.then = p.then /\ q.attempts = p.attempts
       /\ q.todo = p.todo /\ q.listed = p.listed
    BY <1>0, <1>6, <1>9, <1>10 DEF Request, Steps
<1>12. req' = [req EXCEPT ![r] = q]
    BY <1>2, <1>6, <1>7, <1>8, <1>9
<1>13. PICK c : c = p
    OBVIOUS
<1>14. Sound(c)'
    BY <1>0, <1>5, <1>13, SoundKept
<1>15. Copies(q)'
    <2>1. \A n \in Names : Known(q.listed[n])' /\ Copy(q.listed[n], n)'
        BY <1>11, <1>13, <1>14 DEF Sound, Copies
    <2>2. CASE p.then = "mark"
        <3>1. read = rows'[p.name] /\ row = read
            BY <1>0, <1>2, <1>7, <2>2 DEF TableTrue
        <3>2. Known(read)'
            BY <1>0, <1>5, <3>1 DEF TableTrue
        <3>3. Copy(read, q.name)'
            BY <1>11, <3>1 DEF Copy
        <3> QED BY <1>11, <2>1, <3>2, <3>3 DEF Copies
    <2>3. CASE p.then # "mark"
        <3>1. read = NoRow
            BY <1>7, <2>3
        <3>2. Known(read)' /\ Copy(read, q.name)'
            BY <3>1 DEF Known, Copy
        <3> QED BY <1>11, <2>1, <3>2 DEF Copies
    <2> QED BY <2>2, <2>3
<1>16. Underway(q)'
    <2>1. /\ q.attempts < (IF q.verb = "create" THEN generateNameAttempts ELSE deleteAttempts)
          /\ config.finalizers \/ \A n \in q.todo : q.listed[n] # NoRow
        BY <1>0, <1>11 DEF Sound, Underway
    <2>2. q.then = "mark" => q.verb \in Deleting /\ config.finalizers /\ q.read # NoRow
        BY <1>0, <1>1, <1>4, <1>7, <1>11, Constants DEF Sound, Decided
    <2>3. q.asserted <= clock' /\ q.released <= minted'
        BY <1>0, <1>5, <1>10, <1>11
    <2> QED BY <1>0, <1>6, <1>11, <2>1, <2>2, <2>3 DEF Underway
<1>17. Sound(q)'
    BY <1>6, <1>11, <1>15, <1>16 DEF Sound, Decided
<1> QED BY <1>0, <1>5, <1>12, <1>17, RequestMoves

LEMMA DeleteKeeps ==
    ASSUME ObjectInv, NEW r \in Requests, DeleteCommits(r) \/ DeleteInBulk(r)
    PROVE  ObjectInv'
<1>0. /\ TableTrue /\ Sound(req[r]) /\ req[r] \in Request /\ req[r].name \in Names
      /\ clock \in Nat /\ minted \in Nat /\ config \in Configs
      /\ UNCHANGED <<config, clock, minted>> /\ forsaken' \subseteq forsaken
    <2>1. /\ UNCHANGED <<config, clock, minted>> /\ forsaken' \subseteq forsaken
        BY DEF DeleteCommits, DeleteInBulk
    <2> QED BY <2>1, Constants DEF ObjectInv, TableTrue, Sound, Request
<1>1. /\ rows' \in [Names -> MaybeRow]
      /\ \A n \in Names : rows'[n] \in {rows[n], NoRow}
    <2>1. CASE DeleteCommits(r)
        BY <1>0, <2>1 DEF DeleteCommits, TableTrue, MaybeRow
    <2>2. CASE DeleteInBulk(r)
        BY <2>2 DEF DeleteInBulk, MaybeRow
    <2> QED BY <2>1, <2>2
<1>2. TableTrue'
    <2>1. \A n \in Names : Known(rows[n])'
        BY <1>0, <1>1 DEF TableTrue, Known
    <2> QED BY <1>0, <1>1, <2>1 DEF TableTrue
<1>3. PICK q : req' = [req EXCEPT ![r] = q] /\ Sound(q)
    <2>1. CASE DeleteCommits(r)
        <3>1. Sound(ended(req[r], TRUE))
            BY <1>0, <2>1, EndedSound DEF DeleteCommits
        <3> QED BY <2>1, <3>1 DEF DeleteCommits, Ends
    <2>2. CASE DeleteInBulk(r)
        <3>1. ended(req[r], FALSE) = Idle
            BY DEF ended
        <3>2. Sound(Idle)
            BY <1>0, IdleSound
        <3> QED BY <2>2, <3>1, <3>2 DEF DeleteInBulk, Ends
    <2> QED BY <2>1, <2>2
<1>4. clock <= clock' /\ minted <= minted' /\ clock' \in Nat /\ minted' \in Nat
    BY <1>0
<1>5. Sound(q)'
    BY <1>0, <1>1, <1>3, <1>4, SoundKept
<1> QED BY <1>0, <1>1, <1>2, <1>3, <1>4, <1>5, RequestMoves

LEMMA ObjectStep == ObjectInv /\ [Next]_vars => ObjectInv'
<1> SUFFICES ASSUME ObjectInv, [Next]_vars PROVE ObjectInv'
    OBVIOUS
<1>1. CASE UNCHANGED vars
    <2>1. UNCHANGED <<config, rows, clock, minted, req, forsaken>>
        BY <1>1 DEF vars
    <2> QED BY <2>1 DEF ObjectInv, TableTrue, Sound, Copies, Underway, Decided, Known, Copy
<1>2. ASSUME NEW r \in Requests, Begins(r) \/ Step(r) \/ Abandoned(r) PROVE ObjectInv'
    BY <1>2, BeginsKeeps, AbandonedKeeps, ReadsKeep, CollidesKeeps, DecideUpdateKeeps,
       WrittenKeeps, DecideDeleteKeeps, MissesKeep, CollectionKeeps, InsertKeeps,
       StatementKeeps, DeleteKeeps DEF Step
<1> QED BY <1>1, <1>2 DEF Next

LEMMA ObjectInit == Init => ObjectInv
<1> SUFFICES ASSUME Init PROVE ObjectInv
    OBVIOUS
<1>1. TableTrue
    BY Constants DEF Init, TableTrue, MaybeRow, Known
<1>2. req \in [Requests -> Request] /\ \A r \in Requests : req[r] = Idle
    BY IdleFields DEF Init
<1> QED BY <1>1, <1>2, IdleSound DEF ObjectInv

\* A copy a request decides on is what is stored as long as its version is, and
\* what is bound to a statement is what was decided, for every order of reads,
\* decisions, statements and interruptions of any number of requests.
THEOREM ObjectCorrect == Spec => []ObjectInv
<1> QED BY ObjectInit, ObjectStep, PTL DEF Spec

\* The table, the clock and every request keep their types: no request retries
\* more often than it may, and none asserts a version that was never assigned.
THEOREM TypeCorrect == Spec => []TypeOK
<1>1. ObjectInv => TypeOK
    <2> SUFFICES ASSUME ObjectInv PROVE TypeOK
        OBVIOUS
    <2>1. clock \in Nat /\ minted \in Nat
        BY Constants DEF ObjectInv, TableTrue
    <2>2. ASSUME NEW r \in Requests
          PROVE  /\ req[r].name \in Names
                 /\ req[r].asserted \in 0..clock
                 /\ req[r].read \in Row \cup {NoRow}
                 /\ req[r].holders \subseteq AllFinalizers
                 /\ req[r].attempts < (IF req[r].verb = "create" THEN generateNameAttempts
                                       ELSE deleteAttempts)
                 /\ req[r].released \in 0..minted
                 /\ req[r].todo \subseteq Names
        <3>1. req[r] \in Request /\ Underway(req[r])
            BY DEF ObjectInv, Sound
        <3> QED BY <2>1, <3>1 DEF Request, Underway, MaybeRow
    <2> QED BY <2>2 DEF ObjectInv, TableTrue, TypeOK, MaybeRow
<1> QED BY <1>1, ObjectCorrect, PTL

-----------------------------------------------------------------------------
(* ObjectWrites implements Objects. *)

objectsOf == [n \in Names |-> asObject(rows[n])]

LEMMA ObjectFields ==
    ASSUME NEW row \in Row
    PROVE  /\ asObject(row) # NoRow
           /\ asObject(row) = [uid |-> row.uid, spec |-> row.spec, status |-> row.status,
                               finalizers |-> row.finalizers, deleting |-> row.deleting]
<1>1. row # NoRow
    BY Constants
<1>2. asObject(row) = [uid |-> row.uid, spec |-> row.spec, status |-> row.status,
                       finalizers |-> row.finalizers, deleting |-> row.deleting]
    BY <1>1 DEF asObject
<1>3. /\ row.uid \in Nat /\ row.spec \in SUBSET Nat /\ row.status \in SUBSET Nat
      /\ row.finalizers \in SUBSET (Finalizers \cup {Collector}) /\ row.deleting \in BOOLEAN
    BY Constants DEF Row, AllFinalizers
<1>4. asObject(row) \in [uid : Nat, spec : SUBSET Nat, status : SUBSET Nat,
                         finalizers : SUBSET (Finalizers \cup {Collector}), deleting : BOOLEAN]
    BY <1>2, <1>3
<1> QED BY <1>2, <1>4, ObjectAssumption

\* What is written to a row is written to its object.
LEMMA ObjectWritten ==
    ASSUME TableTrue, NEW n \in Names, NEW row, rows' = [rows EXCEPT ![n] = row]
    PROVE  objectsOf' = [objectsOf EXCEPT ![n] = asObject(row)]
<1>1. \A m \in Names : rows'[m] = IF m = n THEN row ELSE rows[m]
    BY DEF TableTrue
<1>2. \A m \in Names : asObject(rows[m])' = IF m = n THEN asObject(row) ELSE asObject(rows[m])
    BY <1>1 DEF asObject
<1> QED BY <1>2 DEF objectsOf

\* A statement reaches the row it was decided on.
LEMMA ReachesWhatWasRead ==
    ASSUME ObjectInv, NEW r \in Requests, req[r].pc = "statement", matches(r, req[r].stmt),
           req[r].stmt \in config.guarded
    PROVE  rows[req[r].name] = req[r].read
BY DEF ObjectInv, Sound, Underway, Copies, Copy, matches

Guarded == {"update", "updateStatus", "delete"} \subseteq config.guarded

LEMMA InsertAppears ==
    ASSUME ObjectInv, NEW r \in Requests, InsertCommits(r)
    PROVE  Stored!Next
<1> DEFINE n == req[r].name
<1>0. n \in Names /\ TableTrue /\ clock \in Nat /\ clock < MaxClock
    BY Constants DEF ObjectInv, Request, TableTrue, InsertCommits
<1>1. PICK fs \in (IF config.finalizers THEN SUBSET Finalizers ELSE {{}}) :
          rows' = [rows EXCEPT ![n] =
              [uid |-> minted + 1, version |-> clock + 1, spec |-> {}, status |-> {},
               finalizers |-> fs, deleting |-> FALSE]]
    BY DEF InsertCommits
<1>2. PICK row : row = [uid |-> minted + 1, version |-> clock + 1, spec |-> {}, status |-> {},
                        finalizers |-> fs, deleting |-> FALSE]
    OBVIOUS
<1>3. fs \in SUBSET Finalizers
    BY <1>1
<1>4. row \in Row
    <2>1. clock + 1 \in 1..MaxClock /\ minted + 1 \in 1..MaxUid
        BY Constants DEF ObjectInv, TableTrue, InsertCommits
    <2> QED BY <1>2, <1>3, <2>1 DEF Row, AllFinalizers
<1>5. asObject(row) = [uid |-> minted + 1, spec |-> {}, status |-> {},
                       finalizers |-> fs, deleting |-> FALSE]
    BY <1>2, <1>4, ObjectFields
<1>6. objectsOf' = [objectsOf EXCEPT ![n] = asObject(row)]
    BY <1>0, <1>1, <1>2, ObjectWritten
<1>7. objectsOf[n] = NoRow /\ minted' = minted + 1
    BY <1>0 DEF objectsOf, asObject, InsertCommits
<1>8. Stored!Appear(n)
    BY <1>3, <1>5, <1>6, <1>7 DEF Stored!Appear, objectsOf
<1> QED BY <1>0, <1>8 DEF Stored!Next

LEMMA SpecEdited ==
    ASSUME NEW n \in Names, objectsOf[n] # NoRow, UNCHANGED minted,
           NEW edit \in (1..MaxClock) \ objectsOf[n].spec,
           NEW fs \in SUBSET (Finalizers \cup {Collector}),
           objectsOf[n].deleting => fs \subseteq objectsOf[n].finalizers,
           objectsOf' = [objectsOf EXCEPT ![n].spec = @ \cup {edit}, ![n].finalizers = fs]
    PROVE  Stored!EditSpec(n)
BY Zenon DEF Stored!EditSpec, objectsOf

LEMMA StatementEdits ==
    ASSUME ObjectInv, Guarded, NEW r \in Requests, StatementCommits(r)
    PROVE  Stored!Next
<1> DEFINE q == req[r]
           n == q.name
           o == asObject(rows[n])
<1>0. /\ TableTrue /\ n \in Names /\ rows[n] \in Row /\ q \in Request /\ q.read # NoRow
      /\ clock \in Nat /\ clock + 1 \in 1..MaxClock /\ clock + 1 \notin 1..clock
      /\ q.pc = "statement" /\ matches(r, q.stmt) /\ q.stmt # "delete"
      /\ q.verb \in Updating \cup Deleting /\ Decided(q) /\ Known(rows[n]) /\ UNCHANGED minted
    BY Constants DEF ObjectInv, TableTrue, Request, MaybeRow, Sound, Underway,
                     StatementCommits, matches
<1>1. PICK row : row = IF q.stmt = "markDeleted"
                       THEN [rows[n] EXCEPT !.deleting = TRUE, !.version = clock + 1]
                       ELSE stored(q)
    OBVIOUS
<1>2. rows' = [rows EXCEPT ![n] = row]
    BY <1>1 DEF StatementCommits
<1>3. objectsOf' = [objectsOf EXCEPT ![n] = asObject(row)]
    BY <1>0, <1>2, ObjectWritten
<1>4. /\ o # NoRow /\ objectsOf[n] = o
      /\ o = [uid |-> rows[n].uid, spec |-> rows[n].spec, status |-> rows[n].status,
              finalizers |-> rows[n].finalizers, deleting |-> rows[n].deleting]
    BY <1>0, ObjectFields DEF objectsOf
<1>5. CASE q.stmt = "markDeleted"
    <2>1. /\ row \in Row /\ row.uid = rows[n].uid /\ row.spec = rows[n].spec
          /\ row.status = rows[n].status /\ row.finalizers = rows[n].finalizers
          /\ row.deleting = TRUE
        BY <1>0, <1>1, <1>5 DEF Row
    <2>2. asObject(row) = [o EXCEPT !.deleting = TRUE]
        BY <1>4, <2>1, ObjectFields
    <2>3. ~o.deleting
        BY <1>0, <1>4, <1>5 DEF matches
    <2>4. objectsOf' = [objectsOf EXCEPT ![n].deleting = TRUE]
        BY <1>3, <1>4, <2>2 DEF objectsOf
    <2>5. Stored!Terminate(n)
        BY <1>0, <1>4, <2>3, <2>4 DEF Stored!Terminate, objectsOf
    <2> QED BY <1>0, <2>5 DEF Stored!Next
<1>6. CASE q.stmt # "markDeleted"
    <2>1. q.stmt \in {"update", "updateStatus"} /\ q.stmt \in config.guarded
        BY <1>0, <1>6 DEF Guarded, Decided, Updating, Deleting
    <2>2. q.read = rows[n]
        BY <1>0, <2>1, ReachesWhatWasRead
    <2>3. PICK spec : spec = q.read.spec \cup (IF q.verb = "update" THEN {clock + 1} ELSE {})
        OBVIOUS
    <2>4. PICK status :
              status = q.read.status \cup (IF q.verb = "status" THEN {clock + 1} ELSE {})
        OBVIOUS
    <2>5. row = [rows[n] EXCEPT !.version = clock + 1, !.finalizers = q.holders,
                                !.spec = spec, !.status = status]
        BY <1>1, <1>6, <2>3, <2>4 DEF stored
    <2>6. /\ spec \subseteq 1..MaxClock /\ status \subseteq 1..MaxClock
          /\ q.holders \subseteq AllFinalizers
        BY <1>0, <2>2, <2>3, <2>4 DEF Row, Request
    <2>7. /\ row \in Row /\ row.uid = rows[n].uid /\ row.spec = spec /\ row.status = status
          /\ row.finalizers = q.holders /\ row.deleting = rows[n].deleting
        BY <1>0, <2>5, <2>6 DEF Row
    <2>8. asObject(row) = [uid |-> rows[n].uid, spec |-> spec, status |-> status,
                           finalizers |-> q.holders, deleting |-> rows[n].deleting]
        BY <2>7, ObjectFields
    <2>9. CASE q.verb = "update"
        <3>1. /\ clock + 1 \in (1..MaxClock) \ o.spec
              /\ q.holders \in SUBSET (Finalizers \cup {Collector})
              /\ o.deleting => q.holders \subseteq o.finalizers
            BY <1>0, <1>4, <2>2, <2>6, <2>9 DEF Known, AllFinalizers, Decided
        <3>2. asObject(row) = [o EXCEPT !.spec = o.spec \cup {clock + 1},
                                        !.finalizers = q.holders]
            <4>1. spec = o.spec \cup {clock + 1} /\ status = o.status
                BY <1>4, <2>2, <2>3, <2>4, <2>9
            <4>2. o.status = rows[n].status
                BY <1>4
            <4>3. PICK es : es = o.spec \cup {clock + 1}
                OBVIOUS
            <4>4. [o EXCEPT !.spec = es, !.finalizers = q.holders] =
                      [uid |-> rows[n].uid, spec |-> es, status |-> rows[n].status,
                       finalizers |-> q.holders, deleting |-> rows[n].deleting]
                <5>1. PICK v : v = o
                    OBVIOUS
                <5>2. PICK w : w = [uid |-> rows[n].uid, spec |-> es, status |-> rows[n].status,
                                    finalizers |-> rows[n].finalizers,
                                    deleting |-> rows[n].deleting]
                    OBVIOUS
                <5>3. [v EXCEPT !.spec = es] = w
                    BY <1>4, <5>1, <5>2
                <5>4. [w EXCEPT !.finalizers = q.holders] =
                          [uid |-> rows[n].uid, spec |-> es, status |-> rows[n].status,
                           finalizers |-> q.holders, deleting |-> rows[n].deleting]
                    BY <5>2
                <5>5. [v EXCEPT !.spec = es, !.finalizers = q.holders] =
                          [uid |-> rows[n].uid, spec |-> es, status |-> rows[n].status,
                           finalizers |-> q.holders, deleting |-> rows[n].deleting]
                    BY <5>3, <5>4, Zenon
                <5> QED BY <5>1, <5>5
            <4>5. asObject(row) = [o EXCEPT !.spec = es, !.finalizers = q.holders]
                BY <2>8, <4>1, <4>2, <4>3, <4>4
            <4> QED BY <4>3, <4>5
        <3>3. objectsOf' = [objectsOf EXCEPT ![n].spec = @ \cup {clock + 1},
                                             ![n].finalizers = q.holders]
            BY <1>0, <1>3, <1>4, <3>2 DEF objectsOf
        <3>4. Stored!EditSpec(n)
            BY <1>0, <1>4, <3>1, <3>3, SpecEdited
        <3> QED BY <1>0, <3>4 DEF Stored!Next
    <2>10. CASE q.verb = "status"
        <3>1. clock + 1 \in (1..MaxClock) \ o.status
            BY <1>0, <1>4, Constants DEF Known
        <3>2. asObject(row) = [o EXCEPT !.status = o.status \cup {clock + 1}]
            <4>1. spec = o.spec /\ status = o.status \cup {clock + 1}
                BY <1>4, <2>2, <2>3, <2>4, <2>10
            <4>2. q.holders = o.finalizers
                BY <1>0, <1>4, <2>2, <2>10 DEF Decided
            <4> QED BY <1>4, <2>8, <4>1, <4>2
        <3>3. objectsOf' = [objectsOf EXCEPT ![n].status = @ \cup {clock + 1}]
            BY <1>0, <1>3, <1>4, <3>2 DEF objectsOf
        <3>4. Stored!EditStatus(n)
            BY <1>0, <1>4, <3>1, <3>3 DEF Stored!EditStatus, objectsOf
        <3> QED BY <1>0, <3>4 DEF Stored!Next
    <2>11. CASE q.verb \in Deleting
        <3>1. asObject(row) = [o EXCEPT !.finalizers = o.finalizers \cup {Collector}]
            <4>1. spec = o.spec /\ status = o.status
                BY <1>4, <2>2, <2>3, <2>4, <2>11 DEF Deleting
            <4>2. q.holders = o.finalizers \cup {Collector}
                BY <1>0, <1>4, <1>6, <2>2, <2>11 DEF Decided
            <4> QED BY <1>4, <2>8, <4>1, <4>2
        <3>2. objectsOf' = [objectsOf EXCEPT ![n].finalizers = @ \cup {Collector}]
            BY <1>0, <1>3, <1>4, <3>1 DEF objectsOf
        <3>3. Stored!Hold(n)
            BY <1>0, <1>4, <3>2 DEF Stored!Hold, objectsOf
        <3> QED BY <1>0, <3>3 DEF Stored!Next
    <2> QED BY <1>0, <2>9, <2>10, <2>11 DEF Updating
<1> QED BY <1>5, <1>6

LEMMA DeleteVanishes ==
    ASSUME ObjectInv, Guarded, NEW r \in Requests, DeleteCommits(r)
    PROVE  Stored!Next
<1> DEFINE n == req[r].name
<1>0. /\ TableTrue /\ n \in Names /\ rows[n] \in Row /\ UNCHANGED minted
      /\ req[r].pc = "statement" /\ req[r].stmt = "delete" /\ matches(r, req[r].stmt)
      /\ Decided(req[r]) /\ req[r].verb \in Updating \cup Deleting
      /\ rows' = [rows EXCEPT ![n] = NoRow]
    BY DEF ObjectInv, TableTrue, Request, MaybeRow, Sound, Underway, DeleteCommits, matches
<1>1. rows[n] = req[r].read
    BY <1>0, ReachesWhatWasRead DEF Guarded
<1>2. rows[n].finalizers = {}
    BY <1>0, <1>1 DEF Decided, Updating
<1>3. objectsOf[n] # NoRow /\ objectsOf[n].finalizers = {}
    BY <1>0, <1>2, ObjectFields DEF objectsOf
<1>4. asObject(NoRow) = NoRow
    BY DEF asObject
<1>5. objectsOf' = [objectsOf EXCEPT ![n] = NoRow]
    BY <1>0, <1>4, ObjectWritten, ZenonT(40)
<1>6. Stored!Vanish(n)
    BY <1>0, <1>3, <1>5 DEF Stored!Vanish, objectsOf
<1> QED BY <1>0, <1>6 DEF Stored!Next

LEMMA BulkVanishes ==
    ASSUME ObjectInv, NEW r \in Requests, DeleteInBulk(r)
    PROVE  Stored!Next
<1>0. /\ rows' = [n \in Names |-> NoRow] /\ UNCHANGED minted /\ ~config.finalizers
      /\ TableTrue
    BY DEF DeleteInBulk, ObjectInv, Sound, Underway
<1>1. ASSUME NEW n \in Names, objectsOf[n] # NoRow PROVE objectsOf[n].finalizers = {}
    <2>1. rows[n] \in Row /\ Known(rows[n]) /\ rows[n] # NoRow
        BY <1>0, <1>1 DEF objectsOf, asObject, TableTrue, MaybeRow
    <2> QED BY <1>0, <2>1, ObjectFields DEF objectsOf, Known
<1>2. objectsOf' = [n \in Names |-> NoRow]
    BY <1>0 DEF objectsOf, asObject
<1>3. Stored!VanishAll
    BY <1>0, <1>1, <1>2 DEF Stored!VanishAll, objectsOf
<1> QED BY <1>3 DEF Stored!Next

\* Every other step leaves the objects alone.
LEMMA OtherSteps ==
    ASSUME NEW r \in Requests, Begins(r) \/ Step(r) \/ Abandoned(r),
           ~InsertCommits(r), ~StatementCommits(r), ~DeleteCommits(r), ~DeleteInBulk(r)
    PROVE  UNCHANGED <<rows, minted>>
<1>1. CASE Begins(r)
    BY <1>1 DEF Begins, BeginCreate, BeginUpdate, BeginDelete, BeginDeleteCollection, Begin, table
<1>2. CASE Abandoned(r)
    BY <1>2 DEF Abandoned, table
<1>3. CASE Step(r)
    BY <1>3 DEF Step, ReadRow, ReadBack, InsertCollides, DecideUpdate, StatementMisses, Written,
                DecideDelete, DeleteMisses, ListRows, DeleteEach, table
<1> QED BY <1>1, <1>2, <1>3

\* Where every configuration's update, updateStatus and delete statements bind
\* the version they read, any number of requests, each of which reads, decides
\* and writes in steps of its own and may be cut off between them, change objects
\* in whole operations: no edit is lost to one decided on an older copy, a
\* terminating object gains no finalizer of a client's, and an object somebody
\* holds is not removed.
THEOREM ObjectsImplemented ==
    ASSUME \A c \in Configs : {"update", "updateStatus", "delete"} \subseteq c.guarded
    PROVE  Spec => ImplementsObjects
<1>1. Init => Stored!Init
    BY DEF Init, Stored!Init, asObject
<1>2. ObjectInv /\ [Next]_vars => [Stored!Next]_(Stored!vars)
    <2> SUFFICES ASSUME ObjectInv, [Next]_vars PROVE [Stored!Next]_(Stored!vars)
        OBVIOUS
    <2>1. Guarded
        BY DEF ObjectInv, TableTrue, Guarded
    <2>2. ASSUME UNCHANGED <<rows, minted>> PROVE UNCHANGED Stored!vars
        BY <2>2 DEF Stored!vars, asObject
    <2>3. CASE UNCHANGED vars
        BY <2>2, <2>3 DEF vars
    <2>4. ASSUME NEW r \in Requests, Begins(r) \/ Step(r) \/ Abandoned(r)
          PROVE  [Stored!Next]_(Stored!vars)
        BY <2>1, <2>2, <2>4, InsertAppears, StatementEdits, DeleteVanishes, BulkVanishes, OtherSteps
    <2> QED BY <2>3, <2>4 DEF Next
<1> QED BY <1>1, <1>2, ObjectCorrect, PTL DEF Spec, ImplementsObjects, Stored!Spec

-----------------------------------------------------------------------------
(* What is terminating and held by nobody is seen to. *)

UidsDiffer ==
    \A m, n \in Names : rows[m] # NoRow /\ rows[n] # NoRow /\ m # n => rows[m].uid # rows[n].uid

\* What LeftoverPursued asks of the projection's statements.
Binding == Statements \ {"delete"} \subseteq config.guarded /\ config.returnsRows

\* A request that writes away the last finalizer of a terminating object knows
\* it, only an object that is held is marked, and what finishes a deletion
\* neither asserts a version nor adds a finalizer.
Release(q) ==
    /\ q.pc # "readback"
    /\ q.pc = "statement" /\ q.verb \in Updating /\ releasedByUpdate(q.read, q.holders) =>
           q.then = "finish"
    /\ q.pc = "statement" /\ q.stmt = "markDeleted" => q.read.finalizers # {}
    /\ q.pc = "written" /\ q.then = "mark" => q.read.finalizers # {}
    /\ q.verb = "finish" => ~q.may /\ q.asserted = 0

\* Request q will get to the delete of the row of n.
Pursues(q, n) ==
    /\ q.released = rows[n].uid
    /\ q.name = n
    /\ \/ q.pc = "written" /\ q.then = "finish"
       \/ q.verb = "finish" /\ q.pc = "read"
       \/ q.verb = "finish" /\ q.pc = "decide" /\ q.read.deleting /\ q.read.finalizers = {}
       \/ q.verb = "finish" /\ q.pc = "statement" /\ q.stmt = "delete"

Leftover(n) ==
    /\ rows[n] # NoRow
    /\ rows[n].deleting
    /\ rows[n].finalizers = {}
    /\ rows[n].uid \notin forsaken

Pursued ==
    Binding =>
        /\ \A r \in Requests : Release(req[r])
        /\ \A n \in Names : Leftover(n) => \E r \in Requests : Pursues(req[r], n)

LEMMA IdleReleases == Release(Idle)
BY IdleFields DEF Release

LEMMA EndedReleases ==
    ASSUME NEW q, NEW ok
    PROVE  Release(ended(q, ok))
<1>1. PICK td, ls : td = q.todo /\ ls = q.listed
    OBVIOUS
<1>2. PICK e : e = [Idle EXCEPT !.pc = "each", !.verb = "collection",
                                !.todo = td, !.listed = ls]
    OBVIOUS
<1>3. e.pc = "each" /\ e.verb = "collection"
    BY <1>2 DEF Idle
<1>4. ended(q, ok) \in {e, Idle}
    BY <1>1, <1>2 DEF ended
<1> QED BY <1>3, <1>4, IdleReleases DEF Release

LEMMA NotFoundReleases ==
    ASSUME NEW q
    PROVE  Release(notFound(q))
<1>1. PICK n : n = q.name
    OBVIOUS
<1>2. PICK c : c = [Idle EXCEPT !.pc = "insert", !.verb = "create", !.name = n]
    OBVIOUS
<1>3. c.pc = "insert" /\ c.verb = "create"
    BY <1>2 DEF Idle
<1>4. notFound(q) \in {c, ended(q, TRUE)}
    BY <1>1, <1>2 DEF notFound
<1> QED BY <1>3, <1>4, EndedReleases DEF Release

LEMMA AfterReadReleases ==
    ASSUME NEW q \in Request, q.verb = "finish" => ~q.may /\ q.asserted = 0
    PROVE  Release(afterRead(q))
<1>1. PICK row : row = rows[q.name]
    OBVIOUS
<1>2. PICK e : e = [q EXCEPT !.pc = "decide", !.read = row]
    OBVIOUS
<1>3. e.pc = "decide" /\ e.verb = q.verb /\ e.may = q.may /\ e.asserted = q.asserted
    BY <1>2 DEF Request
<1>4. afterRead(q) \in {e, notFound(q)}
    BY <1>1, <1>2 DEF afterRead
<1> QED BY <1>3, <1>4, NotFoundReleases DEF Release

LEMMA ReleaseAt ==
    ASSUME NEW s \in Requests, NEW q, req'[s] = q, Release(q), UNCHANGED config
    PROVE  Release(req[s])'
BY DEF Release, releasedByUpdate

\* One request moves to q.  A row that is left over afterwards is the one q is
\* after, or it was left over before and whoever was after it still is.
LEMMA PursuitMoves ==
    ASSUME ObjectInv, Pursued, NEW r \in Requests, UNCHANGED config,
           NEW q, req' = [req EXCEPT ![r] = q], Binding => Release(q),
           ASSUME NEW n \in Names, Binding, Leftover(n)'
           PROVE  \/ Pursues(q, n)'
                  \/ /\ Leftover(n)
                     /\ rows'[n].uid = rows[n].uid
                     /\ Pursues(req[r], n) => Pursues(q, n)'
    PROVE  Pursued'
<1> SUFFICES ASSUME Binding PROVE Pursued'
    BY DEF Pursued, Binding
<1>0. /\ req \in [Requests -> Request] /\ \A s \in Requests : Release(req[s])
      /\ \A n \in Names : Leftover(n) => \E s \in Requests : Pursues(req[s], n)
    BY DEF ObjectInv, Pursued
<1>1. ASSUME NEW s \in Requests PROVE Release(req[s])'
    <2>1. PICK c : c = req'[s]
        OBVIOUS
    <2>2. Release(c)
        BY <1>0, <2>1
    <2> QED BY <2>1, <2>2, ReleaseAt
<1>2. ASSUME NEW n \in Names, Leftover(n)' PROVE \E s \in Requests : Pursues(req[s], n)'
    <2>1. CASE Pursues(q, n)'
        <3>1. req'[r] = q
            BY <1>0
        <3>2. Pursues(req[r], n)'
            BY <2>1, <3>1 DEF Pursues
        <3> QED BY <3>2
    <2>2. CASE /\ Leftover(n) /\ rows'[n].uid = rows[n].uid
               /\ Pursues(req[r], n) => Pursues(q, n)'
        <3>1. PICK s \in Requests : Pursues(req[s], n)
            BY <1>0, <2>2
        <3>2. CASE s = r
            BY <2>1, <2>2, <3>1, <3>2
        <3>3. CASE s # r
            <4>1. req'[s] = req[s]
                BY <1>0, <3>3
            <4>2. Pursues(req[s], n)'
                BY <2>2, <3>1, <4>1 DEF Pursues
            <4> QED BY <4>2
        <3> QED BY <3>2, <3>3
    <2> QED BY <1>2, <2>1, <2>2
<1> QED BY <1>1, <1>2 DEF Pursued

\* A step that writes nothing.
LEMMA QuietPursuit ==
    ASSUME ObjectInv, Pursued, NEW r \in Requests, UNCHANGED <<config, table>>,
           forsaken \subseteq forsaken',
           NEW q, req' = [req EXCEPT ![r] = q], Binding => Release(q),
           ASSUME NEW n \in Names, Binding, Leftover(n), Pursues(req[r], n)
           PROVE  Pursues(q, n) \/ rows[n].uid \in forsaken'
    PROVE  Pursued'
<1>1. rows' = rows
    BY DEF table
<1>2. ASSUME NEW n \in Names, Binding, Leftover(n)'
      PROVE  Leftover(n) /\ (Pursues(req[r], n) => Pursues(q, n)')
    <2>1. Leftover(n) /\ rows[n].uid \notin forsaken'
        BY <1>1, <1>2 DEF Leftover
    <2>2. Pursues(q, n) => Pursues(q, n)'
        BY <1>1 DEF Pursues
    <2> QED BY <1>2, <2>1, <2>2
<1> QED BY <1>1, <1>2, PursuitMoves

LEMMA PursuitEnds ==
    ASSUME ObjectInv, Pursued, NEW r \in Requests, NEW ok, Ends(r, ok),
           UNCHANGED <<config, table>>, forsaken \subseteq forsaken',
           ASSUME NEW n \in Names, Binding, Leftover(n), Pursues(req[r], n)
           PROVE  rows[n].uid \in forsaken'
    PROVE  Pursued'
<1>1. PICK q : q = ended(req[r], ok)
    OBVIOUS
<1>2. Release(q)
    BY <1>1, EndedReleases
<1> QED BY <1>1, <1>2, QuietPursuit DEF Ends

LEMMA PursuitBegins ==
    ASSUME ObjectInv, Pursued, NEW r \in Requests, Begins(r)
    PROVE  Pursued'
<1>1. ASSUME NEW fields, Release(fields), Begin(r, fields) PROVE Pursued'
    <2>1. /\ UNCHANGED <<config, table>> /\ forsaken \subseteq forsaken'
          /\ req' = [req EXCEPT ![r] = fields] /\ req[r].pc = "idle"
        BY <1>1 DEF Begin
    <2>2. \A n \in Names : ~Pursues(req[r], n)
        BY <2>1 DEF Pursues
    <2> QED BY <1>1, <2>1, <2>2, QuietPursuit
<1>2. ASSUME NEW n \in Names, NEW b \in BOOLEAN, BeginCreate(r, n, b) PROVE Pursued'
    <2>1. PICK e : e = [Idle EXCEPT !.pc = "insert", !.verb = "create", !.name = n, !.may = b]
        OBVIOUS
    <2>2. e.pc = "insert" /\ e.verb = "create"
        BY <2>1 DEF Idle
    <2>3. Release(e) /\ Begin(r, e)
        BY <1>2, <2>1, <2>2 DEF Release, BeginCreate
    <2> QED BY <1>1, <2>3
<1>3. ASSUME NEW n \in Names, NEW verb \in {"update", "status", "delete"}, NEW b \in BOOLEAN,
             NEW v \in 0..clock,
             Begin(r, afterRead([Idle EXCEPT !.verb = verb, !.name = n, !.asserted = v,
                                             !.may = b]))
      PROVE  Pursued'
    <2>1. v \in Nat
        BY Constants DEF ObjectInv, TableTrue
    <2>2. PICK e : e = [Idle EXCEPT !.verb = verb, !.name = n, !.asserted = v, !.may = b]
        OBVIOUS
    <2>3. e \in Request /\ e.verb # "finish"
        BY <2>1, <2>2, IdleFields DEF Request, Verbs, Updating, Deleting
    <2>4. PICK q : q = afterRead(e)
        OBVIOUS
    <2>5. Release(q) /\ Begin(r, q)
        BY <1>3, <2>2, <2>3, <2>4, AfterReadReleases
    <2> QED BY <1>1, <2>5
<1>4. CASE BeginDeleteCollection(r)
    <2>1. PICK e : e = [Idle EXCEPT !.pc = "list", !.verb = "collection"]
        OBVIOUS
    <2>2. e.pc = "list" /\ e.verb = "collection"
        BY <2>1 DEF Idle
    <2>3. Release(e) /\ Begin(r, e)
        BY <1>4, <2>1, <2>2 DEF Release, BeginDeleteCollection
    <2> QED BY <1>1, <2>3
<1>5. ASSUME NEW n \in Names, NEW verb \in Updating, NEW b \in BOOLEAN,
             NEW v \in 0..clock,
             BeginUpdate(r, n, verb, v, b) \/ BeginDelete(r, n, v, b)
      PROVE  Pursued'
    <2>1. CASE BeginUpdate(r, n, verb, v, b)
        <3>1. PICK m \in BOOLEAN : m = (b /\ verb = "update")
            OBVIOUS
        <3>2. Begin(r, afterRead([Idle EXCEPT !.verb = verb, !.name = n, !.asserted = v,
                                              !.may = m]))
            BY <2>1, <3>1 DEF BeginUpdate
        <3> QED BY <1>3, <3>2 DEF Updating
    <2>2. CASE BeginDelete(r, n, v, b)
        BY <1>3, <2>2 DEF BeginDelete
    <2> QED BY <1>5, <2>1, <2>2
<1> QED BY <1>2, <1>4, <1>5 DEF Begins

LEMMA PursuitAbandoned ==
    ASSUME ObjectInv, Pursued, NEW r \in Requests, Abandoned(r)
    PROVE  Pursued'
<1>1. ASSUME NEW n \in Names, Leftover(n), Pursues(req[r], n) PROVE rows[n].uid \in forsaken'
    BY <1>1 DEF Abandoned, Forsakes, Leftover, Pursues
<1>2. forsaken \subseteq forsaken'
    BY DEF Abandoned, Forsakes
<1> QED BY <1>1, <1>2, IdleReleases, QuietPursuit DEF Abandoned

LEMMA PursuitReads ==
    ASSUME ObjectInv, Pursued, NEW r \in Requests, ReadRow(r) \/ ReadBack(r)
    PROVE  Pursued'
<1>0. /\ req[r] \in Request /\ UNCHANGED <<config, table, forsaken>>
      /\ Binding => Release(req[r])
    BY DEF ObjectInv, Pursued, ReadRow, ReadBack
<1>1. CASE ReadRow(r)
    <2>1. PICK c : c = req[r]
        OBVIOUS
    <2>2. PICK q : q = afterRead(c)
        OBVIOUS
    <2>3. req' = [req EXCEPT ![r] = q] /\ c.pc = "read" /\ c \in Request
        BY <1>0, <1>1, <2>1, <2>2 DEF ReadRow
    <2>4. Binding => Release(q)
        BY <1>0, <2>1, <2>2, <2>3, AfterReadReleases DEF Release
    <2>5. ASSUME NEW n \in Names, Binding, Leftover(n), Pursues(c, n) PROVE Pursues(q, n)
        <3>1. PICK row : row = rows[n]
            OBVIOUS
        <3>2. row # NoRow /\ c.name = n /\ c.verb = "finish" /\ row.deleting /\ row.finalizers = {}
              /\ c.released = row.uid
            BY <2>3, <2>5, <3>1 DEF Leftover, Pursues
        <3>3. q = [c EXCEPT !.pc = "decide", !.read = row]
            BY <2>2, <3>1, <3>2 DEF afterRead
        <3>4. q.pc = "decide" /\ q.read = row /\ q.name = c.name /\ q.verb = c.verb
              /\ q.released = c.released
            BY <2>3, <3>3 DEF Request
        <3> QED BY <3>1, <3>2, <3>4 DEF Pursues
    <2> QED BY <1>0, <2>1, <2>3, <2>4, <2>5, QuietPursuit
<1>2. CASE ReadBack(r)
    <2>1. ~Binding
        BY <1>0, <1>2 DEF ReadBack, Release
    <2> QED BY <1>0, <2>1 DEF Pursued, Binding
<1> QED BY <1>1, <1>2

LEMMA PursuitCollides ==
    ASSUME ObjectInv, Pursued, NEW r \in Requests, InsertCollides(r)
    PROVE  Pursued'
<1>0. /\ req[r] \in Request /\ UNCHANGED <<config, table, forsaken>>
      /\ req[r].pc = "insert" /\ req[r].verb = "create"
      /\ \A n \in Names : ~Pursues(req[r], n)
    BY DEF ObjectInv, Sound, Underway, InsertCollides, Pursues
<1>1. CASE Ends(r, FALSE)
    BY <1>0, <1>1, PursuitEnds
<1>2. CASE \E n \in Names : req' = [req EXCEPT ![r].name = n, ![r].attempts = @ + 1]
    <2>1. PICK n \in Names : req' = [req EXCEPT ![r].name = n, ![r].attempts = @ + 1]
        BY <1>2
    <2>2. PICK c : c = req[r]
        OBVIOUS
    <2>3. PICK q : q = [c EXCEPT !.name = n, !.attempts = c.attempts + 1]
        OBVIOUS
    <2>4. req' = [req EXCEPT ![r] = q]
        BY <2>1, <2>2, <2>3 DEF ObjectInv
    <2>5. q.pc = "insert" /\ q.verb = "create"
        BY <1>0, <2>2, <2>3 DEF Request
    <2>6. Release(q)
        BY <2>5 DEF Release
    <2> QED BY <1>0, <2>4, <2>6, QuietPursuit
<1> QED BY <1>1, <1>2 DEF InsertCollides

LEMMA PursuitDecideUpdate ==
    ASSUME ObjectInv, Pursued, NEW r \in Requests, DecideUpdate(r)
    PROVE  Pursued'
<1>0. /\ req[r] \in Request /\ UNCHANGED <<config, table, forsaken>>
      /\ req[r].pc = "decide" /\ req[r].verb \in Updating
      /\ \A n \in Names : ~Pursues(req[r], n)
    BY DEF ObjectInv, DecideUpdate, Pursues, Updating
<1>1. CASE Ends(r, FALSE)
    BY <1>0, <1>1, PursuitEnds
<1>2. ASSUME NEW fs,
             req' = [req EXCEPT ![r] = [@ EXCEPT
                       !.pc = "statement", !.holders = fs, !.asserted = 0,
                       !.stmt = IF req[r].verb = "status" THEN "updateStatus" ELSE "update",
                       !.then = IF releasedByUpdate(req[r].read, fs) THEN "finish" ELSE "end"]]
      PROVE  Pursued'
    <2>1. PICK c : c = req[r]
        OBVIOUS
    <2>2. PICK st : st = IF c.verb = "status" THEN "updateStatus" ELSE "update"
        OBVIOUS
    <2>3. PICK th : th = IF releasedByUpdate(c.read, fs) THEN "finish" ELSE "end"
        OBVIOUS
    <2>4. PICK q : q = [c EXCEPT !.pc = "statement", !.holders = fs, !.asserted = 0,
                                 !.stmt = st, !.then = th]
        OBVIOUS
    <2>5. req' = [req EXCEPT ![r] = q]
        BY <1>2, <2>1, <2>2, <2>3, <2>4
    <2>6. q.pc = "statement" /\ q.holders = fs /\ q.stmt = st /\ q.then = th
          /\ q.verb = c.verb /\ q.read = c.read
        BY <1>0, <2>1, <2>4 DEF Request
    <2>7. st # "markDeleted" /\ (releasedByUpdate(c.read, fs) => th = "finish")
        BY <2>2, <2>3
    <2>8. Release(q)
        BY <1>0, <2>1, <2>6, <2>7 DEF Release, Updating
    <2> QED BY <1>0, <2>5, <2>8, QuietPursuit
<1> QED BY <1>1, <1>2 DEF DecideUpdate

LEMMA PursuitWritten ==
    ASSUME ObjectInv, Pursued, NEW r \in Requests, Written(r)
    PROVE  Pursued'
<1>0. /\ req[r] \in Request /\ UNCHANGED <<config, table, forsaken>>
      /\ req[r].pc = "written" /\ req[r].then \in {"end", "mark", "finish"}
      /\ Binding => Release(req[r])
      /\ req[r].then = "mark" => req[r].verb \in Deleting
    BY DEF ObjectInv, Request, Pursued, Written, Sound, Underway
<1>1. PICK c : c = req[r]
    OBVIOUS
<1>2. CASE c.then = "end"
    <2>1. \A n \in Names : ~(Pursues(req[r], n))
        BY <1>0, <1>1, <1>2 DEF Pursues
    <2>2. Ends(r, TRUE)
        BY <1>1, <1>2 DEF Written
    <2> QED BY <1>0, <2>1, <2>2, PursuitEnds
<1>3. CASE c.then = "mark"
    <2>1. PICK q : q = markTerminating(c)
        OBVIOUS
    <2>2. req' = [req EXCEPT ![r] = q]
        BY <1>1, <1>3, <2>1 DEF Written
    <2>3. q = [c EXCEPT !.pc = "statement", !.stmt = "markDeleted", !.then = "end"]
        BY <2>1 DEF markTerminating
    <2>4. q.pc = "statement" /\ q.verb = c.verb /\ q.read = c.read /\ q.may = c.may
          /\ q.asserted = c.asserted
        BY <1>0, <1>1, <2>3 DEF Request
    <2>5. Binding => Release(q)
        BY <1>0, <1>1, <1>3, <2>4 DEF Release, Updating, Deleting
    <2>6. \A n \in Names : ~Pursues(req[r], n)
        BY <1>0, <1>1, <1>3 DEF Pursues
    <2> QED BY <1>0, <2>2, <2>5, <2>6, QuietPursuit
<1>4. CASE c.then = "finish"
    <2>1. PICK q : q = finishDeletion(c)
        OBVIOUS
    <2>2. req' = [req EXCEPT ![r] = q]
        BY <1>1, <1>4, <2>1 DEF Written
    <2>3. PICK m, u : m = c.name /\ u = c.released
        OBVIOUS
    <2>4. q = [Idle EXCEPT !.pc = "read", !.verb = "finish", !.name = m, !.released = u]
        BY <2>1, <2>3 DEF finishDeletion
    <2>5. q.pc = "read" /\ q.verb = "finish" /\ q.name = m /\ q.released = u /\ ~q.may
          /\ q.asserted = 0
        BY <2>4 DEF Idle
    <2>6. Release(q)
        BY <2>5 DEF Release
    <2>7. \A n \in Names : Pursues(req[r], n) => Pursues(q, n)
        BY <1>1, <2>3, <2>5 DEF Pursues
    <2> QED BY <1>0, <2>2, <2>6, <2>7, QuietPursuit
<1> QED BY <1>0, <1>1, <1>2, <1>3, <1>4

\* finishDeletion's delete of a row nobody holds is not refused, put off or
\* taken for done.
LEMMA PursuitDecideDelete ==
    ASSUME ObjectInv, Pursued, NEW r \in Requests, DecideDelete(r)
    PROVE  Pursued'
<1>0. /\ req[r] \in Request /\ UNCHANGED <<config, table, forsaken>>
      /\ req[r].pc = "decide" /\ req[r].verb \in Deleting /\ req[r].read # NoRow
      /\ Known(req[r].read)
      /\ Binding => Release(req[r])
    BY DEF ObjectInv, Request, Pursued, DecideDelete, Sound, Underway, Copies
<1>1. PICK c : c = req[r]
    OBVIOUS
<1>2. ASSUME NEW n \in Names, Binding, Leftover(n), Pursues(c, n)
      PROVE  decision(c) = "delete" /\ c.verb = "finish"
    <2>1. c.read.deleting /\ c.read.finalizers = {} /\ c.verb = "finish"
        BY <1>0, <1>1, <1>2 DEF Pursues
    <2>2. ~c.may /\ c.asserted = 0 /\ config.finalizers
        BY <1>0, <1>1, <1>2, <2>1 DEF Release, Known
    <2> QED BY <2>1, <2>2 DEF decision
<1>3. ASSUME NEW stmt \in {"update", "markDeleted", "delete"}, NEW then \in {"end", "mark"},
             req' = [req EXCEPT ![r] = [c EXCEPT !.pc = "statement", !.stmt = stmt,
                         !.then = then, !.may = FALSE,
                         !.holders = c.read.finalizers \cup {Collector}]],
             stmt = "markDeleted" => c.read.finalizers # {},
             decision(c) = "delete" => stmt = "delete"
      PROVE  Pursued'
    <2>1. PICK hs : hs = c.read.finalizers \cup {Collector}
        OBVIOUS
    <2>2. PICK q : q = [c EXCEPT !.pc = "statement", !.stmt = stmt, !.then = then,
                                 !.may = FALSE, !.holders = hs]
        OBVIOUS
    <2>3. q.pc = "statement" /\ q.stmt = stmt /\ q.verb = c.verb /\ q.read = c.read
          /\ q.may = FALSE /\ q.asserted = c.asserted /\ q.name = c.name
          /\ q.released = c.released
        BY <1>0, <1>1, <2>2 DEF Request
    <2>4. Binding => Release(q)
        BY <1>0, <1>1, <1>3, <2>3 DEF Release, Updating, Deleting
    <2>5. ASSUME NEW n \in Names, Binding, Leftover(n), Pursues(c, n) PROVE Pursues(q, n)
        BY <1>2, <1>3, <2>3, <2>5 DEF Pursues
    <2>6. req' = [req EXCEPT ![r] = q]
        BY <1>3, <2>1, <2>2
    <2> QED BY <1>0, <1>1, <2>4, <2>5, <2>6, QuietPursuit
<1>4. CASE decision(c) \in {"refuse", "done"}
    <2>1. Ends(r, FALSE) \/ Ends(r, TRUE)
        BY <1>1, <1>4 DEF DecideDelete
    <2> QED BY <1>0, <1>1, <1>2, <1>4, <2>1, PursuitEnds
<1>5. CASE decision(c) = "hold"
    BY <1>1, <1>3, <1>5 DEF DecideDelete
<1>6. CASE decision(c) = "mark"
    <2>1. c.read.finalizers # {}
        BY <1>6 DEF decision
    <2> QED BY <1>1, <1>3, <1>6, <2>1 DEF DecideDelete
<1>7. CASE decision(c) = "delete"
    BY <1>1, <1>3, <1>7 DEF DecideDelete
<1>8. decision(c) \in {"refuse", "done", "hold", "mark", "delete"}
    BY DEF decision
<1> QED BY <1>4, <1>5, <1>6, <1>7, <1>8

LEMMA PursuitMisses ==
    ASSUME ObjectInv, Pursued, NEW r \in Requests, StatementMisses(r) \/ DeleteMisses(r)
    PROVE  Pursued'
<1>0. /\ req[r] \in Request /\ UNCHANGED <<config, table>>
      /\ req[r].pc = "statement" /\ req[r].read # NoRow
      /\ forsaken \subseteq forsaken'
      /\ Binding => Release(req[r])
    BY DEF ObjectInv, Pursued, StatementMisses, DeleteMisses, Sound, Underway, Forsakes
<1>1. CASE StatementMisses(r)
    <2>1. \A n \in Names : ~Pursues(req[r], n)
        BY <1>0, <1>1 DEF Pursues, StatementMisses
    <2>2. CASE Ends(r, FALSE)
        BY <1>0, <2>1, <2>2, PursuitEnds
    <2>3. CASE req' = [req EXCEPT ![r] = notFound(req[r])]
        <3>1. PICK q : q = notFound(req[r])
            OBVIOUS
        <3>2. Release(q)
            BY <3>1, NotFoundReleases
        <3>3. forsaken' = forsaken
            BY <1>1 DEF StatementMisses
        <3> QED BY <1>0, <2>1, <2>3, <3>1, <3>2, <3>3, QuietPursuit
    <2> QED BY <1>1, <2>2, <2>3 DEF StatementMisses
<1>2. CASE DeleteMisses(r) /\ "delete" \notin config.guarded
    <2>1. rows[req[r].name] = NoRow
        BY <1>2 DEF DeleteMisses, matches
    <2>2. \A n \in Names : ~(Leftover(n) /\ Pursues(req[r], n))
        BY <2>1 DEF Leftover, Pursues
    <2> QED BY <1>0, <1>2, <2>2, PursuitEnds DEF DeleteMisses
<1>3. CASE DeleteMisses(r) /\ "delete" \in config.guarded /\ Ends(r, FALSE) /\ Forsakes(r)
    <2>1. ASSUME NEW n \in Names, Leftover(n), Pursues(req[r], n) PROVE rows[n].uid \in forsaken'
        BY <1>3, <2>1 DEF Forsakes, Leftover, Pursues
    <2> QED BY <1>0, <1>3, <2>1, PursuitEnds
<1>4. CASE /\ DeleteMisses(r)
           /\ req' = [req EXCEPT ![r] = [req[r] EXCEPT !.pc = "read", !.stmt = "none",
                                                       !.attempts = req[r].attempts + 1]]
    <2>1. PICK c : c = req[r]
        OBVIOUS
    <2>2. PICK k : k = c.attempts + 1
        OBVIOUS
    <2>3. PICK q : q = [c EXCEPT !.pc = "read", !.stmt = "none", !.attempts = k]
        OBVIOUS
    <2>4. req' = [req EXCEPT ![r] = q]
        BY <1>4, <2>1, <2>2, <2>3
    <2>5. q.pc = "read" /\ q.verb = c.verb /\ q.name = c.name /\ q.released = c.released
          /\ q.may = c.may /\ q.asserted = c.asserted
        BY <1>0, <2>1, <2>3 DEF Request
    <2>6. Binding => Release(q)
        BY <1>0, <2>1, <2>5 DEF Release
    <2>7. \A n \in Names : Pursues(c, n) => Pursues(q, n)
        BY <1>0, <2>1, <2>5 DEF Pursues
    <2> QED BY <1>0, <2>1, <2>4, <2>6, <2>7, QuietPursuit
<1>5. ASSUME DeleteMisses(r), "delete" \in config.guarded
      PROVE  \/ Ends(r, FALSE) /\ Forsakes(r)
             \/ req' = [req EXCEPT ![r] = [req[r] EXCEPT !.pc = "read", !.stmt = "none",
                                                         !.attempts = req[r].attempts + 1]]
    BY <1>5 DEF DeleteMisses
<1> QED BY <1>1, <1>2, <1>3, <1>4, <1>5

LEMMA PursuitCollection ==
    ASSUME ObjectInv, Pursued, NEW r \in Requests, ListRows(r) \/ DeleteEach(r)
    PROVE  Pursued'
<1>0. /\ req[r] \in Request /\ UNCHANGED <<config, table, forsaken>>
      /\ req[r].pc \in {"list", "each"}
      /\ Binding => Release(req[r])
      /\ \A n \in Names : ~Pursues(req[r], n)
    BY DEF ObjectInv, Pursued, ListRows, DeleteEach, Pursues
<1>1. CASE ListRows(r)
    <2>1. PICK c : c = req[r]
        OBVIOUS
    <2>2. PICK pc : pc = IF canDeleteInBulk THEN "bulk" ELSE "each"
        OBVIOUS
    <2>3. PICK ls : ls = IF config.finalizers \/ canDeleteInBulk THEN c.listed ELSE rows
        OBVIOUS
    <2>4. PICK td : td = {n \in Names : rows[n] # NoRow}
        OBVIOUS
    <2>5. PICK q : q = [c EXCEPT !.pc = pc, !.listed = ls, !.todo = td]
        OBVIOUS
    <2>6. req' = [req EXCEPT ![r] = q]
        BY <1>1, <2>1, <2>2, <2>3, <2>4, <2>5 DEF ListRows
    <2>7. q.pc = pc /\ q.verb = c.verb /\ q.may = c.may /\ q.asserted = c.asserted
        BY <1>0, <2>1, <2>5 DEF Request
    <2>8. Binding => Release(q)
        BY <1>0, <2>1, <2>2, <2>7 DEF Release
    <2> QED BY <1>0, <2>6, <2>8, QuietPursuit
<1>2. CASE DeleteEach(r) /\ req[r].todo = {}
    BY <1>0, <1>2, PursuitEnds DEF DeleteEach
<1>3. CASE DeleteEach(r) /\ req[r].todo # {}
    <2>1. PICK c : c = req[r]
        OBVIOUS
    <2>2. PICK pc : pc = IF config.finalizers THEN "read" ELSE "decide"
        OBVIOUS
    <2>3. PICK n : req' = [req EXCEPT ![r] = [c EXCEPT !.name = n, !.todo = c.todo \ {n},
                                                       !.pc = pc, !.read = c.listed[n]]]
        BY <1>3, <2>1, <2>2 DEF DeleteEach
    <2>4. PICK td, rd : td = c.todo \ {n} /\ rd = c.listed[n]
        OBVIOUS
    <2>5. PICK q : q = [c EXCEPT !.name = n, !.todo = td, !.pc = pc, !.read = rd]
        OBVIOUS
    <2>6. req' = [req EXCEPT ![r] = q]
        BY <2>3, <2>4, <2>5
    <2>7. q.pc = pc /\ q.verb = c.verb /\ q.may = c.may /\ q.asserted = c.asserted
        BY <1>0, <2>1, <2>5 DEF Request
    <2>8. Binding => Release(q)
        BY <1>0, <2>1, <2>2, <2>7 DEF Release
    <2> QED BY <1>0, <2>6, <2>8, QuietPursuit
<1> QED BY <1>1, <1>2, <1>3

LEMMA PursuitInserts ==
    ASSUME ObjectInv, Pursued, NEW r \in Requests, InsertCommits(r)
    PROVE  Pursued'
<1>0. /\ req[r] \in Request /\ UNCHANGED <<config, forsaken>>
      /\ req[r].pc = "insert" /\ req[r].name \in Names /\ rows \in [Names -> MaybeRow]
    BY DEF ObjectInv, TableTrue, InsertCommits, Request
<1>1. PICK m : m = req[r].name
    OBVIOUS
<1>2. PICK e : e = [Idle EXCEPT !.pc = "readback", !.verb = "create", !.name = m]
    OBVIOUS
<1>3. PICK q : q = IF config.returnsRows THEN Idle ELSE e
    OBVIOUS
<1>4. req' = [req EXCEPT ![r] = q]
    BY <1>1, <1>2, <1>3 DEF InsertCommits
<1>5. Binding => Release(q)
    BY <1>3, IdleReleases DEF Binding
<1>6. \A n \in Names : ~Pursues(req[r], n)
    BY <1>0 DEF Pursues
<1>7. ~rows'[m].deleting /\ \A n \in Names \ {m} : rows'[n] = rows[n]
    BY <1>0, <1>1 DEF InsertCommits
<1>8. ASSUME NEW n \in Names, Leftover(n)' PROVE Leftover(n) /\ rows'[n].uid = rows[n].uid
    BY <1>0, <1>7, <1>8 DEF Leftover
<1> QED BY <1>0, <1>4, <1>5, <1>6, <1>8, PursuitMoves

\* An update of a terminating object that leaves nothing holding it takes up its
\* removal; no other statement leaves a row in that state that was not in it.
LEMMA PursuitWrites ==
    ASSUME ObjectInv, Pursued, NEW r \in Requests, StatementCommits(r)
    PROVE  Pursued'
<1>1. PICK c : c = req[r]
    OBVIOUS
<1>2. PICK n : n = c.name
    OBVIOUS
<1>0. /\ c \in Request /\ UNCHANGED <<config, forsaken>> /\ c.read # NoRow
      /\ c.pc = "statement" /\ c.stmt \in Statements \ {"delete"}
      /\ n \in Names /\ rows[n] \in Row /\ Known(rows[n])
      /\ rows \in [Names -> MaybeRow] /\ matches(r, c.stmt)
      /\ c.verb \in Updating \cup Deleting /\ Decided(c) /\ c.read \in Row
      /\ clock \in Nat /\ clock + 1 \in 1..MaxClock
      /\ Binding => Release(c)
    <2>1. /\ c \in Request /\ UNCHANGED <<config, forsaken>> /\ c.read # NoRow
          /\ c.pc = "statement" /\ c.stmt # "delete" /\ Sound(c) /\ n \in Names
          /\ rows \in [Names -> MaybeRow] /\ matches(r, c.stmt)
          /\ c.verb \in Updating \cup Deleting /\ Decided(c)
          /\ Known(rows[n]) /\ rows[n] # NoRow
          /\ clock \in Nat /\ clock + 1 \in 1..MaxClock
          /\ Binding => Release(c)
        BY <1>1, <1>2, Constants DEF ObjectInv, TableTrue, StatementCommits, Request, Sound,
                                     Underway, Pursued, matches
    <2>2. c.stmt \in Statements
        BY <2>1 DEF Decided, Statements, Updating, Deleting
    <2> QED BY <2>1, <2>2 DEF Request, MaybeRow
<1>3. PICK row : row = IF c.stmt = "markDeleted"
                       THEN [rows[n] EXCEPT !.deleting = TRUE, !.version = clock + 1]
                       ELSE stored(c)
    OBVIOUS
<1>4. rows' = [rows EXCEPT ![n] = row]
    BY <1>1, <1>2, <1>3 DEF StatementCommits
<1>5. PICK pc, rd, rel :
          /\ pc = IF config.returnsRows THEN "written" ELSE "readback"
          /\ rd = IF c.then = "mark" THEN row ELSE NoRow
          /\ rel = IF c.then = "finish" THEN row.uid ELSE c.released
    OBVIOUS
<1>6. PICK q : q = [c EXCEPT !.pc = pc, !.read = rd, !.holders = {}, !.asserted = 0,
                             !.released = rel]
    OBVIOUS
<1>7. req' = [req EXCEPT ![r] = q]
    BY <1>1, <1>2, <1>3, <1>5, <1>6 DEF StatementCommits
<1>8. /\ q.pc = pc /\ q.read = rd /\ q.released = rel /\ q.name = n /\ q.verb = c.verb
      /\ q.then = c.then /\ q.may = c.may /\ q.asserted = 0
    BY <1>0, <1>2, <1>6 DEF Request
<1>9. /\ row.uid = rows[n].uid
      /\ c.stmt = "markDeleted" => row.finalizers = rows[n].finalizers
      /\ c.stmt # "markDeleted" =>
             row.finalizers = c.holders /\ row.deleting = rows[n].deleting
    <2>1. CASE c.stmt = "markDeleted"
        BY <1>0, <1>3, <2>1 DEF Row
    <2>2. CASE c.stmt # "markDeleted"
        <3>1. PICK spec, status :
                  /\ spec = c.read.spec \cup (IF c.verb = "update" THEN {clock + 1} ELSE {})
                  /\ status = c.read.status \cup (IF c.verb = "status" THEN {clock + 1} ELSE {})
            OBVIOUS
        <3>2. row = [rows[n] EXCEPT !.version = clock + 1, !.finalizers = c.holders,
                                    !.spec = spec, !.status = status]
            BY <1>2, <1>3, <2>2, <3>1 DEF stored
        <3> QED BY <1>0, <2>2, <3>2 DEF Row
    <2> QED BY <2>1, <2>2
<1>10. Binding => Release(q)
    <2> SUFFICES ASSUME Binding PROVE Release(q)
        OBVIOUS
    <2>1. pc = "written"
        BY <1>5 DEF Binding
    <2>2. ASSUME c.then = "mark" PROVE rd.finalizers # {}
        <3>1. c.stmt = "update" /\ c.verb \in Deleting
            BY <1>0, <2>2 DEF Decided, Updating, Deleting
        <3>2. c.holders = c.read.finalizers \cup {Collector}
            BY <1>0, <3>1 DEF Decided
        <3> QED BY <1>5, <1>9, <2>2, <3>1, <3>2
    <2> QED BY <1>0, <1>8, <2>1, <2>2 DEF Release
<1>11. \A m \in Names : ~Pursues(req[r], m)
    BY <1>0, <1>1 DEF Pursues
<1>12. ASSUME NEW m \in Names, Binding, Leftover(m)'
       PROVE  Pursues(q, m)' \/ (Leftover(m) /\ rows'[m].uid = rows[m].uid)
    <2>1. CASE m # n
        BY <1>0, <1>4, <1>12, <2>1 DEF Leftover
    <2>2. CASE m = n
        <3>1. rows'[n] = row /\ row.deleting /\ row.finalizers = {} /\ row.uid \notin forsaken
            BY <1>0, <1>4, <1>12, <2>2 DEF Leftover
        <3>2. c.read = rows[n]
            BY <1>0, <1>1, <1>2, <1>12, ReachesWhatWasRead DEF Binding
        <3>3. c.stmt # "markDeleted"
            BY <1>0, <1>9, <1>12, <3>1, <3>2 DEF Release
        <3>4. c.holders = {} /\ rows[n].deleting /\ config.finalizers
            BY <1>0, <1>9, <3>1, <3>3, Constants DEF Known
        <3>5. CASE rows[n].finalizers = {}
            BY <1>0, <1>9, <2>2, <3>1, <3>4, <3>5, Constants DEF Leftover
        <3>6. CASE rows[n].finalizers # {}
            <4>1. c.verb \in Updating
                BY <1>0, <3>3, <3>4 DEF Decided, Statements
            <4>2. c.then = "finish"
                BY <1>0, <1>12, <3>2, <3>4, <3>6, <4>1 DEF Release, releasedByUpdate
            <4>3. q.released = row.uid /\ q.pc = "written"
                BY <1>5, <1>8, <1>12, <4>2 DEF Binding
            <4> QED BY <1>8, <2>2, <3>1, <4>2, <4>3 DEF Pursues
        <3> QED BY <3>5, <3>6
    <2> QED BY <2>1, <2>2
<1> QED BY <1>0, <1>7, <1>10, <1>11, <1>12, PursuitMoves

LEMMA PursuitDeletes ==
    ASSUME ObjectInv, UidsDiffer, Pursued, NEW r \in Requests, DeleteCommits(r) \/ DeleteInBulk(r)
    PROVE  Pursued'
<1>1. PICK q, ok : q = ended(req[r], ok) /\ Ends(r, ok)
    BY DEF DeleteCommits, DeleteInBulk
<1>2. req' = [req EXCEPT ![r] = q] /\ Release(q) /\ UNCHANGED config
    BY <1>1, EndedReleases DEF Ends, DeleteCommits, DeleteInBulk
<1>3. ASSUME NEW n \in Names, Leftover(n)'
      PROVE  Leftover(n) /\ rows'[n].uid = rows[n].uid /\ ~Pursues(req[r], n)
    <2>1. ~DeleteInBulk(r)
        BY <1>3 DEF DeleteInBulk, Leftover
    <2>2. DeleteCommits(r)
        BY <2>1
    <2>3. PICK m : m = req[r].name
        OBVIOUS
    <2>4. /\ m \in Names /\ rows \in [Names -> MaybeRow] /\ rows[m] # NoRow
          /\ rows' = [rows EXCEPT ![m] = NoRow] /\ forsaken' = forsaken \ {rows[m].uid}
        BY <2>2, <2>3 DEF ObjectInv, TableTrue, Request, DeleteCommits, matches
    <2>5. n # m /\ rows'[n] = rows[n] /\ rows[n] # NoRow
        BY <1>3, <2>4 DEF Leftover
    <2>6. rows[n].uid # rows[m].uid
        BY <2>4, <2>5 DEF UidsDiffer
    <2> QED BY <1>3, <2>3, <2>4, <2>5, <2>6 DEF Leftover, Pursues
<1> QED BY <1>2, <1>3, PursuitMoves

LEMMA UidsStep ==
    ASSUME ObjectInv, UidsDiffer, [Next]_vars
    PROVE  UidsDiffer'
<1>0. rows \in [Names -> MaybeRow] /\ minted \in Nat
    BY Constants DEF ObjectInv, TableTrue
<1>1. ASSUME UNCHANGED rows PROVE UidsDiffer'
    BY <1>1 DEF UidsDiffer
<1>2. ASSUME NEW r \in Requests, InsertCommits(r) PROVE UidsDiffer'
    <2>1. PICK n : n = req[r].name
        OBVIOUS
    <2>2. PICK row : rows' = [rows EXCEPT ![n] = row] /\ row.uid = minted + 1
        <3>1. PICK fs : rows' = [rows EXCEPT ![n] =
                  [uid |-> minted + 1, version |-> clock + 1, spec |-> {}, status |-> {},
                   finalizers |-> fs, deleting |-> FALSE]]
            BY <1>2, <2>1 DEF InsertCommits
        <3>2. PICK row : row =
                  [uid |-> minted + 1, version |-> clock + 1, spec |-> {}, status |-> {},
                   finalizers |-> fs, deleting |-> FALSE]
            OBVIOUS
        <3>3. rows' = [rows EXCEPT ![n] = row] /\ row.uid = minted + 1
            BY <3>1, <3>2
        <3> QED BY <3>3
    <2>3. ASSUME NEW m \in Names, rows[m] # NoRow PROVE rows[m].uid \in Nat /\ rows[m].uid <= minted
        BY <1>0, <2>3, Constants DEF ObjectInv, TableTrue, Known, MaybeRow, Row
    <2>4. \A m \in Names : rows'[m] = IF m = n THEN row ELSE rows[m]
        BY <1>0, <2>2
    <2> QED BY <1>0, <2>2, <2>3, <2>4 DEF UidsDiffer
<1>3. ASSUME NEW r \in Requests, StatementCommits(r) PROVE UidsDiffer'
    <2>1. PICK n : n = req[r].name
        OBVIOUS
    <2>2. PICK row : row = IF req[r].stmt = "markDeleted"
                           THEN [rows[n] EXCEPT !.deleting = TRUE, !.version = clock + 1]
                           ELSE stored(req[r])
        OBVIOUS
    <2>3. /\ rows' = [rows EXCEPT ![n] = row] /\ n \in Names /\ rows[n] # NoRow
          /\ rows[n] \in Row
        BY <1>0, <1>3, <2>1, <2>2 DEF StatementCommits, ObjectInv, Request, matches, MaybeRow
    <2>4. row.uid = rows[n].uid
        BY <2>1, <2>2, <2>3 DEF stored, Row
    <2>5. \A m \in Names : rows'[m] = IF m = n THEN row ELSE rows[m]
        BY <1>0, <2>3
    <2> QED BY <2>3, <2>4, <2>5 DEF UidsDiffer
<1>4. ASSUME NEW r \in Requests, DeleteCommits(r) PROVE UidsDiffer'
    <2>1. \A m \in Names : rows'[m] \in {rows[m], NoRow}
        BY <1>0, <1>4 DEF DeleteCommits
    <2> QED BY <2>1 DEF UidsDiffer
<1>5. ASSUME NEW r \in Requests, DeleteInBulk(r) PROVE UidsDiffer'
    BY <1>5 DEF DeleteInBulk, UidsDiffer
<1> QED BY <1>1, <1>2, <1>3, <1>4, <1>5, OtherSteps DEF Next, vars

LEMMA PursuedStep ==
    ASSUME ObjectInv, UidsDiffer, Pursued, [Next]_vars
    PROVE  Pursued'
<1>1. CASE UNCHANGED vars
    BY <1>1 DEF vars, Pursued, Binding, Release, releasedByUpdate, Leftover, Pursues
<1>2. ASSUME NEW r \in Requests, Begins(r) \/ Step(r) \/ Abandoned(r) PROVE Pursued'
    BY <1>2, PursuitBegins, PursuitAbandoned, PursuitReads, PursuitCollides, PursuitDecideUpdate,
       PursuitWritten, PursuitDecideDelete, PursuitMisses, PursuitCollection, PursuitInserts,
       PursuitWrites, PursuitDeletes DEF Step
<1> QED BY <1>1, <1>2 DEF Next

\* Where the statements bind the version they read and answer with the row they
\* wrote, a terminating object that nothing holds is always on its way out: the
\* request that cleared its last finalizer is still to delete it, or its removal
\* was cut off or lost every one of its races.
THEOREM LeftoversPursued == Spec => []LeftoverPursued
<1>1. Init => UidsDiffer /\ Pursued
    <2> SUFFICES ASSUME Init PROVE UidsDiffer /\ Pursued
        OBVIOUS
    <2>1. \A n \in Names : rows[n] = NoRow
        BY DEF Init
    <2>2. \A r \in Requests : req[r] = Idle
        BY DEF Init
    <2> QED BY <2>1, <2>2, IdleReleases DEF UidsDiffer, Pursued, Leftover
<1>2. ObjectInv /\ UidsDiffer /\ Pursued /\ [Next]_vars => (UidsDiffer /\ Pursued)'
    BY UidsStep, PursuedStep
<1>3. Pursued => LeftoverPursued
    BY DEF Pursued, LeftoverPursued, Binding, Leftover, Pursues
<1> QED BY <1>1, <1>2, <1>3, ObjectCorrect, PTL DEF Spec
=============================================================================
