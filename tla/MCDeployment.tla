---------------------------- MODULE MCDeployment ----------------------------
(* Both plans; one agent whose facts move, tiers and scores on both sides of *)
(* every threshold; room for the same call of two scripts to be pending.     *)
EXTENDS Deployment
=============================================================================
