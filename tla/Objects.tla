------------------------------ MODULE Objects ------------------------------
(***************************************************************************)
(* What a client of Kubernetes may rely on about stored objects: every     *)
(* object is one value that changes in single steps, an edit is made to    *)
(* what is stored and to nothing older, a terminating object gains no      *)
(* finalizer of a client's, and an object somebody holds does not go away. *)
(* ObjectWrites is shown to implement this above SQL statements.           *)
(*                                                                         *)
(* The parts of an object are the sets of edits they reflect.              *)
(***************************************************************************)
EXTENDS Integers

CONSTANTS
    Names,      \* the names objects can have
    Edits,      \* the edits clients can make
    Finalizers, \* the finalizers clients put on objects
    Collector,  \* the garbage collector's finalizer
    NoObject

VARIABLES
    objects, \* the object of each name, or NoObject
    minted   \* uids handed out so far

vars == <<objects, minted>>

Init ==
    /\ objects = [n \in Names |-> NoObject]
    /\ minted = 0

Appear(n) ==
    /\ objects[n] = NoObject
    /\ minted' = minted + 1
    /\ \E fs \in SUBSET Finalizers :
           objects' = [objects EXCEPT ![n] =
               [uid |-> minted + 1, spec |-> {}, status |-> {},
                finalizers |-> fs, deleting |-> FALSE]]

\* An edit of the specification, which may change who holds the object.
EditSpec(n) ==
    /\ objects[n] # NoObject
    /\ \E edit \in Edits \ objects[n].spec, fs \in SUBSET (Finalizers \cup {Collector}) :
           /\ objects[n].deleting => fs \subseteq objects[n].finalizers
           /\ objects' = [objects EXCEPT ![n].spec = @ \cup {edit},
                                         ![n].finalizers = fs]
    /\ UNCHANGED minted

EditStatus(n) ==
    /\ objects[n] # NoObject
    /\ \E edit \in Edits \ objects[n].status :
           objects' = [objects EXCEPT ![n].status = @ \cup {edit}]
    /\ UNCHANGED minted

\* The garbage collector is to see to the dependents first.
Hold(n) ==
    /\ objects[n] # NoObject
    /\ objects' = [objects EXCEPT ![n].finalizers = @ \cup {Collector}]
    /\ UNCHANGED minted

Terminate(n) ==
    /\ objects[n] # NoObject
    /\ ~objects[n].deleting
    /\ objects' = [objects EXCEPT ![n].deleting = TRUE]
    /\ UNCHANGED minted

Vanish(n) ==
    /\ objects[n] # NoObject
    /\ objects[n].finalizers = {}
    /\ objects' = [objects EXCEPT ![n] = NoObject]
    /\ UNCHANGED minted

\* A collection goes at once.
VanishAll ==
    /\ \A n \in Names : objects[n] # NoObject => objects[n].finalizers = {}
    /\ objects' = [n \in Names |-> NoObject]
    /\ UNCHANGED minted

Next ==
    \/ \E n \in Names : \/ Appear(n) \/ EditSpec(n) \/ EditStatus(n)
                        \/ Hold(n) \/ Terminate(n) \/ Vanish(n)
    \/ VanishAll

Spec == Init /\ [][Next]_vars
=============================================================================
