--------------------------- MODULE MCObjectWrites ---------------------------
(* ObjectWrites on one row, for the ways a projection can be written. *)
EXTENDS ObjectWrites, TLC

\* Finalizers in a column; the marking statement guarded, or written as in the
\* documentation's example.
Held == [finalizers |-> TRUE, guarded |-> Statements, returnsRows |-> TRUE, bulk |-> FALSE]
HeldAsDocumented == [Held EXCEPT !.guarded = @ \ {"markDeleted"}, !.returnsRows = FALSE]

\* No finalizers, with and without a statement for collections.
Plain == [Held EXCEPT !.finalizers = FALSE]
Bulk == [Plain EXCEPT !.bulk = TRUE, !.returnsRows = FALSE]

AllConfigs == {Held, HeldAsDocumented, Plain, Bulk}

Interchangeable == Permutations(Requests)
=============================================================================
