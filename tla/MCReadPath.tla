----------------------------- MODULE MCReadPath -----------------------------
(* ReadPath on small instances: kAll spans every namespace, kOne and kTwo    *)
(* read one each.                                                            *)
EXTENDS ReadPath, TLC

CONSTANTS n1, n2, kOne, kTwo, kAll

MCScopeOf == [k \in Keys |-> CASE k = kAll -> ClusterWide
                               [] k = kOne -> n1
                               [] k = kTwo -> n2]

Interchangeable == Permutations(Readers) \cup Permutations(Flights)
=============================================================================
