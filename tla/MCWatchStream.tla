---------------------------- MODULE MCWatchStream ----------------------------
(* WatchStream with few watchers and small limits. *)
EXTENDS WatchStream, TLC

Interchangeable == Permutations(Watchers)
=============================================================================
