----------------------------- MODULE MCCampaign -----------------------------
(* Two sessions on two branches with two hit-count buckets. *)
EXTENDS Campaign, TLC

CONSTANTS b1, b2

MCBranches == {b1, b2}
MCBits == {1, 2}
Reach(x, y) == (b1 :> x) @@ (b2 :> y)
MCFeasible == {Reach(1, NotHit), Reach(NotHit, 2), Reach(2, 1)}
=============================================================================
