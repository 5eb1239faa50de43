---------------------------- MODULE ObjectWrites ----------------------------
(***************************************************************************)
(* The writing verbs of a projection (registry/projection/rest.go): create,*)
(* update, status and scale updates, delete and delete collection.  Each   *)
(* is a read, a decision and one or more statements, with nothing locked   *)
(* in between; what keeps them apart is the version a statement binds.     *)
(*                                                                         *)
(* A row's parts are the sets of edits they reflect.  The cache and the    *)
(* flights a write also touches are the subject of ReadPath; every read    *)
(* here is a fresh one.                                                    *)
(***************************************************************************)
EXTENDS Integers, FiniteSets

CONSTANTS
    Names,                \* the names rows can have
    Requests,             \* requests in progress, on any replica of the server
    Finalizers,           \* finalizers of clients
    Collector,            \* the finalizer of a foreground or orphaning delete
    NoRow,
    Configs,              \* the configurations of a projection to consider
    deleteAttempts,       \* how often a delete that lost a race is decided again
    generateNameAttempts, \* how often a generated name is tried
    MaxClock,             \* bound: versions assigned
    MaxUid                \* bound: rows created

Statements == {"update", "updateStatus", "markDeleted", "delete"}

\* What a projection's specification decides.
Config ==
    [finalizers : BOOLEAN,          \* mapping.finalizers is set
     guarded : SUBSET Statements,   \* the statements that bind :resourceVersion
     returnsRows : BOOLEAN,         \* statements answer with the row they wrote
     bulk : BOOLEAN]                \* queries.deleteCollection is set

ASSUME ObjectAssumption ==
    /\ Configs \subseteq Config
    /\ {deleteAttempts, generateNameAttempts} \subseteq Nat \ {0}
    /\ {MaxClock, MaxUid} \subseteq Nat
    /\ Names # {}
    /\ Collector \notin Finalizers
    /\ NoRow \notin [uid : Nat, version : Nat, spec : SUBSET Nat, status : SUBSET Nat,
                     finalizers : SUBSET (Finalizers \cup {Collector}), deleting : BOOLEAN]
    /\ NoRow \notin [uid : Nat, spec : SUBSET Nat, status : SUBSET Nat,
                     finalizers : SUBSET (Finalizers \cup {Collector}), deleting : BOOLEAN]

VARIABLES
    config,
    rows,     \* the table
    clock,    \* the last version assigned
    minted,   \* uids handed out
    req,      \* the requests
    forsaken  \* history: rows whose last finalizer went and whose removal was cut off

vars == <<config, rows, clock, minted, req, forsaken>>
table == <<rows, clock, minted>>

AllFinalizers == Finalizers \cup {Collector}
Row == [uid : 1..MaxUid, version : 1..MaxClock, spec : SUBSET (1..MaxClock),
        status : SUBSET (1..MaxClock), finalizers : SUBSET AllFinalizers,
        deleting : BOOLEAN]

Updating == {"update", "status"}
Deleting == {"delete", "finish", "collection"}

\* holders: the finalizers to write.  then: what follows a statement.  released:
\* the uid whose last finalizer the request has cleared.
Idle == [pc |-> "idle", verb |-> "none", name |-> CHOOSE n \in Names : TRUE,
         asserted |-> 0, may |-> FALSE, read |-> NoRow, holders |-> {}, stmt |-> "none",
         then |-> "end", attempts |-> 0, released |-> 0,
         todo |-> {}, listed |-> [n \in Names |-> NoRow]]

Init ==
    /\ config \in Configs
    /\ rows = [n \in Names |-> NoRow]
    /\ clock = 0
    /\ minted = 0
    /\ req = [r \in Requests |-> Idle]
    /\ forsaken = {}

-----------------------------------------------------------------------------
(* Beginning and ending. *)

\* A request ends with an answer; an object of a collection that is gone, or
\* found gone, makes way for the next.
ended(q, ok) ==
    IF q.verb = "collection" /\ ok
    THEN [Idle EXCEPT !.pc = "each", !.verb = "collection",
                      !.todo = q.todo, !.listed = q.listed]
    ELSE Idle

Ends(r, ok) == req' = [req EXCEPT ![r] = ended(req[r], ok)]

\* The object is not found, by whichever step of a request: an update that may
\* create it goes on as a create (createOnUpdate).
notFound(q) ==
    IF q.verb = "update" /\ q.may
    THEN [Idle EXCEPT !.pc = "insert", !.verb = "create", !.name = q.name]
    ELSE ended(q, TRUE)

\* The fresh read at the head of applyUpdate and of deleteOnce, for request q.
afterRead(q) ==
    IF rows[q.name] # NoRow THEN [q EXCEPT !.pc = "decide", !.read = rows[q.name]]
    ELSE notFound(q)

Begin(r, fields) ==
    /\ req[r].pc = "idle"
    /\ req' = [req EXCEPT ![r] = fields]
    /\ UNCHANGED <<config, table, forsaken>>

\* A create; `may` says that its name is generated.
BeginCreate(r, n, generated) ==
    Begin(r, [Idle EXCEPT !.pc = "insert", !.verb = "create", !.name = n, !.may = generated])

\* An update asserts the version of a copy, however old, or nothing; `may` says
\* that a missing object is to be created, as server-side apply asks.  Nothing
\* happens between the arrival of an update or a delete and its first read.
BeginUpdate(r, n, verb, asserted, may) ==
    Begin(r, afterRead([Idle EXCEPT !.verb = verb, !.name = n, !.asserted = asserted,
                                    !.may = may /\ verb = "update"]))

\* A delete; `may` asks for the collector to see to the dependents first.
BeginDelete(r, n, asserted, held) ==
    Begin(r, afterRead([Idle EXCEPT !.verb = "delete", !.name = n,
                                    !.asserted = asserted, !.may = held]))

BeginDeleteCollection(r) ==
    Begin(r, [Idle EXCEPT !.pc = "list", !.verb = "collection"])

\* The removal a request still owed an object it released is left undone.
Forsakes(r) ==
    forsaken' = forsaken \cup {rows[n].uid : n \in {m \in Names :
                                  rows[m] # NoRow /\ rows[m].uid = req[r].released}}

\* The server stops, the client goes away, a deadline passes, the limiter sheds
\* or a statement fails and is rolled back: nothing that follows happens.
Abandoned(r) ==
    /\ req[r].pc # "idle"
    /\ req' = [req EXCEPT ![r] = Idle]
    /\ Forsakes(r)
    /\ UNCHANGED <<config, table>>

-----------------------------------------------------------------------------
(* Reads. *)

\* The read of a delete that is decided again, and of finishDeletion.
ReadRow(r) ==
    /\ req[r].pc = "read"
    /\ req' = [req EXCEPT ![r] = afterRead(@)]
    /\ UNCHANGED <<config, table, forsaken>>

\* The read that answers a write whose statement returns no row.  A row that is
\* gone by now is not found.
ReadBack(r) ==
    LET q == req[r] IN
    /\ q.pc = "readback"
    /\ req' = [req EXCEPT ![r] =
           IF rows[q.name] = NoRow THEN notFound(q)
           ELSE [q EXCEPT !.pc = "written",
                          !.read = IF q.then = "mark" THEN rows[q.name] ELSE NoRow]]
    /\ UNCHANGED <<config, table, forsaken>>

-----------------------------------------------------------------------------
(* Create. *)

\* insert: the statement adds the row, with a uid of the server's choice.
InsertCommits(r) ==
    LET q == req[r] IN
    /\ q.pc = "insert"
    /\ rows[q.name] = NoRow
    /\ clock < MaxClock /\ minted < MaxUid
    /\ clock' = clock + 1
    /\ minted' = minted + 1
    /\ \E fs \in IF config.finalizers THEN SUBSET Finalizers ELSE {{}} :
           rows' = [rows EXCEPT ![q.name] =
               [uid |-> minted + 1, version |-> clock + 1, spec |-> {}, status |-> {},
                finalizers |-> fs, deleting |-> FALSE]]
    /\ req' = [req EXCEPT ![r] = IF config.returnsRows THEN Idle
                                 ELSE [Idle EXCEPT !.pc = "readback", !.verb = "create",
                                                   !.name = q.name]]
    /\ UNCHANGED <<config, forsaken>>

\* A unique violation: a generated name is tried again as another one.
InsertCollides(r) ==
    LET q == req[r] IN
    /\ q.pc = "insert"
    /\ rows[q.name] # NoRow
    /\ IF q.may /\ q.attempts + 1 < generateNameAttempts
       THEN \E n \in Names :
                req' = [req EXCEPT ![r].name = n, ![r].attempts = @ + 1]
       ELSE Ends(r, FALSE)
    /\ UNCHANGED <<config, table, forsaken>>

-----------------------------------------------------------------------------
(* Update, status and scale. *)

\* Mutant: what the client sent for its status is stored with the rest.
storedAsSent(q) ==
    LET row == rows[q.name]
        spec == IF q.verb = "update" THEN {clock + 1} ELSE {}
        status == IF q.verb = "status" THEN {clock + 1} ELSE {} IN
    [row EXCEPT !.version = clock + 1, !.finalizers = q.holders,
                !.spec = q.read.spec \cup spec, !.status = status]

\* What an update writes into every mapped column: a status update takes all but
\* the status from what was read, and an update of the resource takes the status
\* from it (statusOnly, specOnly); an update through scale is one that changes a
\* single field.  A delete that adds a finalizer edits neither.
stored(q) ==
    LET row == rows[q.name]
        spec == IF q.verb = "update" THEN {clock + 1} ELSE {}
        status == IF q.verb = "status" THEN {clock + 1} ELSE {} IN
    [row EXCEPT !.version = clock + 1, !.finalizers = q.holders,
                !.spec = q.read.spec \cup spec, !.status = q.read.status \cup status]

\* checkFinalizers: no finalizer is added to what is being deleted.
addsFinalizer(read, fs) == config.finalizers /\ read.deleting /\ ~(fs \subseteq read.finalizers)

\* releasedByUpdate: the last finalizer of a terminating object has gone.
releasedByUpdate(read, fs) ==
    config.finalizers /\ read.deleting /\ read.finalizers # {} /\ fs = {}

\* applyUpdate up to its statement: the version asserted has to be the one read,
\* and from here on the one read is what the statement binds.  Only an update of
\* the resource brings finalizers of its own.
DecideUpdate(r) ==
    LET q == req[r]
        fsets == IF q.verb # "update" THEN {q.read.finalizers}
                 ELSE IF config.finalizers THEN SUBSET AllFinalizers ELSE {{}} IN
    /\ q.pc = "decide"
    /\ q.verb \in Updating
    /\ IF q.asserted \notin {0, q.read.version} THEN Ends(r, FALSE)
       ELSE \E fs \in fsets :
              IF addsFinalizer(q.read, fs) THEN Ends(r, FALSE)
              ELSE req' = [req EXCEPT ![r] = [@ EXCEPT
                       !.pc = "statement", !.holders = fs, !.asserted = 0,
                       !.stmt = IF q.verb = "status" THEN "updateStatus" ELSE "update",
                       !.then = IF releasedByUpdate(q.read, fs) THEN "finish" ELSE "end"]]
    /\ UNCHANGED <<config, table, forsaken>>

-----------------------------------------------------------------------------
(* Statements. *)

\* Mutant: the version bound is the one the client asserted, and most assert none.
matchesUnbound(r, stmt) ==
    LET q == req[r] IN
    /\ rows[q.name] # NoRow
    /\ stmt = "markDeleted" => ~rows[q.name].deleting

\* The row a statement reaches: the one named, at the version read when the
\* statement binds it; markDeleted marks a row once.
matches(r, stmt) ==
    LET q == req[r] IN
    /\ rows[q.name] # NoRow
    /\ stmt \in config.guarded => rows[q.name].version = q.read.version
    /\ stmt = "markDeleted" => ~rows[q.name].deleting

\* write: the statement commits; a statement that returns no row is followed by
\* a read.
StatementCommits(r) ==
    LET q == req[r] IN
    /\ q.pc = "statement"
    /\ q.stmt # "delete"
    /\ matches(r, q.stmt)
    /\ clock < MaxClock
    /\ clock' = clock + 1
    /\ LET row == IF q.stmt = "markDeleted"
                  THEN [rows[q.name] EXCEPT !.deleting = TRUE, !.version = clock + 1]
                  ELSE stored(q) IN
       /\ rows' = [rows EXCEPT ![q.name] = row]
       /\ req' = [req EXCEPT ![r] = [@ EXCEPT
              !.pc = IF config.returnsRows THEN "written" ELSE "readback",
              !.read = IF q.then = "mark" THEN row ELSE NoRow,
              !.holders = {}, !.asserted = 0,
              !.released = IF q.then = "finish" THEN row.uid ELSE q.released]]
    /\ UNCHANGED <<config, minted, forsaken>>

\* missedRows: a conflict for a guarded update, not found otherwise.
StatementMisses(r) ==
    LET q == req[r] IN
    /\ q.pc = "statement"
    /\ q.stmt # "delete"
    /\ ~matches(r, q.stmt)
    /\ IF q.stmt \in config.guarded /\ q.stmt # "markDeleted" THEN Ends(r, FALSE)
       ELSE req' = [req EXCEPT ![r] = notFound(q)]
    /\ UNCHANGED <<config, table, forsaken>>

\* markTerminating, of an object that is held now.
markTerminating(q) == [q EXCEPT !.pc = "statement", !.stmt = "markDeleted", !.then = "end"]

\* finishDeletion: a plain Delete of the object nobody holds any more.
finishDeletion(q) ==
    [Idle EXCEPT !.pc = "read", !.verb = "finish", !.name = q.name, !.released = q.released]

\* What comes after a write.
Written(r) ==
    LET q == req[r] IN
    /\ q.pc = "written"
    /\ CASE q.then = "end" -> Ends(r, TRUE)
         [] q.then = "mark" -> req' = [req EXCEPT ![r] = markTerminating(q)]
         [] q.then = "finish" -> req' = [req EXCEPT ![r] = finishDeletion(q)]
    /\ UNCHANGED <<config, table, forsaken>>

-----------------------------------------------------------------------------
(* Delete. *)

\* deleteOnce up to its statement, on the copy it decides on.
decision(q) ==
    LET obj == q.read IN
    IF q.asserted \notin {0, obj.version} \/ (q.may /\ ~config.finalizers) THEN "refuse"
    ELSE IF obj.deleting /\ (~config.finalizers \/ obj.finalizers # {}) THEN "done"
    ELSE IF q.may /\ Collector \notin obj.finalizers THEN "hold"
    ELSE IF config.finalizers /\ obj.finalizers # {} THEN "mark"
    ELSE "delete"

DecideDelete(r) ==
    LET q == req[r]
        next(stmt, then) == [q EXCEPT !.pc = "statement", !.stmt = stmt, !.then = then,
            !.may = FALSE, !.holders = q.read.finalizers \cup {Collector}] IN
    /\ q.pc = "decide"
    /\ q.verb \in Deleting
    /\ CASE decision(q) = "refuse" -> Ends(r, FALSE)
         [] decision(q) = "done" -> Ends(r, TRUE)
         [] decision(q) = "hold" -> req' = [req EXCEPT ![r] = next("update", "mark")]
         [] decision(q) = "mark" -> req' = [req EXCEPT ![r] = next("markDeleted", "end")]
         [] decision(q) = "delete" -> req' = [req EXCEPT ![r] = next("delete", "end")]
    /\ UNCHANGED <<config, table, forsaken>>

DeleteCommits(r) ==
    LET q == req[r] IN
    /\ q.pc = "statement"
    /\ q.stmt = "delete"
    /\ matches(r, "delete")
    /\ rows' = [rows EXCEPT ![q.name] = NoRow]
    /\ forsaken' = forsaken \ {rows[q.name].uid}
    /\ Ends(r, TRUE)
    /\ UNCHANGED <<config, clock, minted>>

\* Mutant: a delete that lost a race is decided again for as long as it loses.
DeleteMissesForever(r) ==
    /\ req[r].pc = "statement"
    /\ req[r].stmt = "delete"
    /\ ~matches(r, "delete")
    /\ req' = [req EXCEPT ![r] = [@ EXCEPT !.pc = "read", !.stmt = "none", !.attempts = @ + 1]]
    /\ UNCHANGED <<config, table, forsaken>>

\* A guarded delete that reached nothing is decided again on a fresh read, up to
\* deleteAttempts times; an unguarded one found no row.
DeleteMisses(r) ==
    LET q == req[r] IN
    /\ q.pc = "statement"
    /\ q.stmt = "delete"
    /\ ~matches(r, "delete")
    /\ \/ /\ "delete" \notin config.guarded
          /\ Ends(r, TRUE)
          /\ UNCHANGED forsaken
       \/ /\ "delete" \in config.guarded
          /\ q.attempts + 1 < deleteAttempts
          /\ req' = [req EXCEPT ![r] = [q EXCEPT !.pc = "read", !.stmt = "none",
                                                 !.attempts = q.attempts + 1]]
          /\ UNCHANGED forsaken
       \/ /\ "delete" \in config.guarded
          /\ q.attempts + 1 >= deleteAttempts
          /\ Ends(r, FALSE)
          /\ Forsakes(r)
    /\ UNCHANGED <<config, table>>

-----------------------------------------------------------------------------
(* Delete collection. *)

\* canDeleteInBulk: one statement, unless it would remove what is held.
canDeleteInBulk == config.bulk /\ ~config.finalizers

ListRows(r) ==
    LET q == req[r] IN
    /\ q.pc = "list"
    /\ req' = [req EXCEPT ![r] = [q EXCEPT
           !.pc = IF canDeleteInBulk THEN "bulk" ELSE "each",
           !.listed = IF config.finalizers \/ canDeleteInBulk THEN q.listed ELSE rows,
           !.todo = {n \in Names : rows[n] # NoRow}]]
    /\ UNCHANGED <<config, table, forsaken>>

\* deleteInBulk: whatever is there when the statement runs.
DeleteInBulk(r) ==
    /\ req[r].pc = "bulk"
    /\ rows' = [n \in Names |-> NoRow]
    /\ Ends(r, FALSE)
    /\ UNCHANGED <<config, clock, minted, forsaken>>

\* deleteEach: the copy listed is decided on, unless a finalizer may have
\* appeared since.  The deletes of one collection reach different rows, so
\* taking them one by one loses no order.
DeleteEach(r) ==
    LET q == req[r] IN
    /\ q.pc = "each"
    /\ IF q.todo = {} THEN Ends(r, FALSE)
       ELSE \E n \in q.todo :
              req' = [req EXCEPT ![r] = [q EXCEPT
                  !.name = n, !.todo = q.todo \ {n},
                  !.pc = IF config.finalizers THEN "read" ELSE "decide",
                  !.read = q.listed[n]]]
    /\ UNCHANGED <<config, table, forsaken>>

-----------------------------------------------------------------------------
Begins(r) ==
    \/ \E n \in Names, b \in BOOLEAN : BeginCreate(r, n, b)
    \/ \E n \in Names, verb \in Updating, b \in BOOLEAN :
           \E v \in 0..clock :
               BeginUpdate(r, n, verb, v, b) \/ BeginDelete(r, n, v, b)
    \/ BeginDeleteCollection(r)

Step(r) ==
    \/ ReadRow(r)
    \/ ReadBack(r)
    \/ InsertCommits(r)
    \/ InsertCollides(r)
    \/ DecideUpdate(r)
    \/ StatementCommits(r)
    \/ StatementMisses(r)
    \/ Written(r)
    \/ DecideDelete(r)
    \/ DeleteCommits(r)
    \/ DeleteMisses(r)
    \/ ListRows(r)
    \/ DeleteInBulk(r)
    \/ DeleteEach(r)

Next == \E r \in Requests : Begins(r) \/ Step(r) \/ Abandoned(r)

Spec == Init /\ [][Next]_vars

-----------------------------------------------------------------------------
(* Properties. *)

TypeOK ==
    /\ config \in Configs
    /\ rows \in [Names -> Row \cup {NoRow}]
    /\ clock \in 0..MaxClock
    /\ minted \in 0..MaxUid
    /\ \A r \in Requests :
           /\ req[r].name \in Names
           /\ req[r].asserted \in 0..clock
           /\ req[r].read \in Row \cup {NoRow}
           /\ req[r].holders \subseteq AllFinalizers
           /\ req[r].attempts < (IF req[r].verb = "create" THEN generateNameAttempts
                                 ELSE deleteAttempts)
           /\ req[r].released \in 0..minted
           /\ req[r].todo \subseteq Names
    /\ forsaken \subseteq 1..minted

\* The abstract object of a row: everything but its version.
asObject(row) ==
    IF row = NoRow THEN NoRow
    ELSE [uid |-> row.uid, spec |-> row.spec, status |-> row.status,
          finalizers |-> row.finalizers, deleting |-> row.deleting]

Stored == INSTANCE Objects WITH
    Edits <- 1..MaxClock, NoObject <- NoRow,
    objects <- [n \in Names |-> asObject(rows[n])]

\* With statements that bind the version, the verbs are operations on single
\* objects: no edit is lost to a write decided on an older copy, through
\* whichever subresource either came, and no row that somebody holds is removed
\* (rest.go, applyUpdate and deleteOnce; docs/reference.md, "Concurrency").
ImplementsObjects == Stored!Spec

\* An object stops existing when nothing is left holding it: one that is
\* terminating without finalizers has a request seeing to its removal, unless
\* that request was cut off or lost deleteAttempts races (rest.go, applyUpdate,
\* releasedByUpdate and finishDeletion).  Nothing takes such a removal up again.
\* It takes statements that bind the version, and an update that answers with
\* the row it wrote: the row a foreground delete reads back instead may have
\* lost its finalizer already, and is marked all the same.
LeftoverPursued ==
    Statements \ {"delete"} \subseteq config.guarded /\ config.returnsRows =>
        \A n \in {m \in Names : rows[m] # NoRow} :
            /\ rows[n].deleting
            /\ rows[n].finalizers = {}
            /\ rows[n].uid \notin forsaken
            => \E r \in Requests : req[r].released = rows[n].uid
=============================================================================
