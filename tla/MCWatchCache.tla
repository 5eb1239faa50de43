---------------------------- MODULE MCWatchCache ----------------------------
(* WatchCache on small tables, in the configurations a projection can have.  *)
EXTENDS WatchCache

\* A version column, full polls, and streams cut twice.
FullPolls ==
    [versioned |-> TRUE, incremental |-> FALSE, tombstones |-> "none",
     resyncs |-> FALSE, historySize |-> 2, byListing |-> FALSE, selector |-> "none",
     firstStamp |-> 1, maxClock |-> 5, maxCuts |-> 2, maxRestarts |-> 0]

\* No version column, across a restart.
Counted == [FullPolls EXCEPT !.versioned = FALSE, !.firstStamp = 0,
                             !.maxClock = 3, !.maxCuts = 1, !.maxRestarts = 1]

\* Incremental polls: with resyncs, or with tombstones of each kind.
Resynced == [FullPolls EXCEPT !.incremental = TRUE, !.resyncs = TRUE,
                              !.maxClock = 4]
Named == [FullPolls EXCEPT !.incremental = TRUE, !.tombstones = "identity",
                           !.maxCuts = 0]
Dated == [FullPolls EXCEPT !.incremental = TRUE, !.tombstones = "last",
                           !.maxClock = 4, !.maxCuts = 1]
Stamped == [Named EXCEPT !.tombstones = "own"]

\* Clients that list, and watch from the list's version.
Listing == [FullPolls EXCEPT !.byListing = TRUE, !.maxCuts = 1]

\* Clients with a selector: on the rows the cache holds, on tombstones that only
\* name their row, and on fields that a lightweight cache does not keep.
Labelled == [FullPolls EXCEPT !.selector = "labels", !.maxCuts = 1]
LabelledNamed == [Named EXCEPT !.selector = "labels", !.maxClock = 4]
FieldedDated == [Dated EXCEPT !.selector = "fields"]
LabelledDated == [FieldedDated EXCEPT !.selector = "labels"]

AllConfigs == {FullPolls, Counted, Resynced, Named, Dated, Stamped,
               Listing, Labelled, LabelledNamed, FieldedDated}
Departures == {LabelledDated}
=============================================================================
