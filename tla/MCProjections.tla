--------------------------- MODULE MCProjections ---------------------------
(* Projections for two projections that claim one resource. *)
EXTENDS Projections, TLC

CONSTANTS p1, p2, r1, r2, g1, g2

\* One resource claimed by both specifications, in two group versions; the
\* second claims another one besides.
Narrow == [claims |-> {"c"}, group |-> g1]
Wide == [claims |-> {"c", "d"}, group |-> g2]
BothSpecs == {Narrow, Wide}

NoneRegistered == [g \in Groups |-> "absent"]

\* Two replicas settle a claim.
Contended == [names |-> {p1, p2}, replicas |-> {r1, r2}, specs |-> BothSpecs,
              allowed |-> Groups,
              apiServices |-> FALSE, files |-> FALSE, secrets |-> TRUE, rotates |-> FALSE,
              meddled |-> FALSE, fails |-> TRUE, start |-> (p1 :> Narrow @@ p2 :> Wide),
              registered |-> NoneRegistered, turns |-> 1]

\* Two replicas register the group of one projection that comes or goes.
Registered == [Contended EXCEPT !.names = {p1}, !.specs = {Narrow}, !.apiServices = TRUE,
                                !.fails = FALSE, !.start = [@ EXCEPT ![p2] = None]]

\* A file and an object of one name, registered by one replica that is not to
\* take one of the groups; a registration of that group is left from before.
Filed == [Registered EXCEPT !.replicas = {r1}, !.specs = BothSpecs, !.files = TRUE,
                            !.allowed = {g1}, !.fails = TRUE,
                            !.rotates = TRUE, !.meddled = TRUE, !.turns = 3,
                            !.registered = (g1 :> "byHand" @@ g2 :> "ours")]

AllConfigs == {Contended, Registered, Filed}
Interchangeable == Permutations({r1, r2})
=============================================================================
