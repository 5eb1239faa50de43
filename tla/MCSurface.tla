----------------------------- MODULE MCSurface -----------------------------
(* Surface for two projections that claim one resource. *)
EXTENDS Surface, TLC

CONSTANTS n1, n2, k1, k2

\* Projections of one resource on two databases, and one that reads from the
\* first what it writes to the second.
First == [key |-> k1, replica |-> None, resource |-> "a"]
Moved == [key |-> k2, replica |-> None, resource |-> "a"]
Replicated == [key |-> k2, replica |-> k1, resource |-> "b"]
AllSpecs == {First, Moved, Replicated}
WithoutReplica == {First, Moved}

Beginning == (n1 :> First @@ n2 :> None)

Interchangeable == Permutations(Requests) \cup Permutations(Checks)
=============================================================================
