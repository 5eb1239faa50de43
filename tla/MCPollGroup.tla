----------------------------- MODULE MCPollGroup -----------------------------
(* PollGroup with two versions, one wanting polls twice as often. *)
EXTENDS PollGroup, TLC

CONSTANTS v1, v2

MCInterval == v1 :> 1 @@ v2 :> 2
MCFollowerInterval == v1 :> 2 @@ v2 :> 2
=============================================================================
