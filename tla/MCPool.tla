------------------------------- MODULE MCPool -------------------------------
(* Pool for two or three jobs on each of five pools. *)
EXTENDS Pool, TLC

CONSTANTS j1, j2, j3, c1, c2, v1, v2, p1, p2

Write == [projection |-> p1, statements |-> 1, prepared |-> FALSE, session |-> {},
          verified |-> FALSE]
Prepared == [Write EXCEPT !.prepared = TRUE]
Scoped == [Write EXCEPT !.session = {v1, v2}, !.statements = 2]
ScopedOne == [Write EXCEPT !.session = {v1}, !.verified = TRUE, !.projection = p2]
Several == [Write EXCEPT !.statements = 2, !.verified = TRUE]
Checked == [Write EXCEPT !.verified = TRUE]
Probe == [Write EXCEPT !.projection = None]

Base == [dialect |-> "setConfig", conns |-> {c1}, kinds |-> <<>>, minted |-> FALSE,
         listens |-> FALSE, closes |-> FALSE, limit |-> 1, faults |-> 1, migrations |-> 0,
         cancels |-> 1]
Kinded(a, b, c) == (j1 :> a @@ j2 :> b @@ j3 :> c)

\* MySQL, two tenants and a projection that sets nothing.
Tenants == [Base EXCEPT !.dialect = "userVariable", !.kinds = Kinded(Scoped, Write, ScopedOne),
                        !.limit = 0]
\* PostgreSQL: the same settings, local to the transaction; the pool is closed.
Local == [Base EXCEPT !.kinds = Kinded(Scoped, Prepared, None), !.closes = TRUE,
                      !.migrations = 1]
\* One prepared text, migrations, and more requests than slots.
Cached == [Base EXCEPT !.kinds = Kinded(Prepared, Prepared, None), !.conns = {c1, c2},
                       !.limit = 2, !.migrations = 2, !.cancels = 0]
\* Passwords from a command, a listener, a probe of the controller.
Minted == [Base EXCEPT !.kinds = Kinded(Several, None, Probe), !.conns = {c1, c2},
                       !.minted = TRUE, !.listens = TRUE]
\* A pool of one with a listener on it.
Single == [Base EXCEPT !.kinds = Kinded(Several, Write, None), !.listens = TRUE]

Pools == {Tenants, Local, Cached, Minted, Single}
=============================================================================
