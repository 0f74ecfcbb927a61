------------------------- MODULE MCVanityDeployment -------------------------
(* The three registries; others may be first with one of the proxies.         *)
EXTENDS VanityDeployment

MCOrder == <<"identity", "reputation", "validation">>
MCRaced == {[kind |-> "proxy", name |-> "identity"]}
=============================================================================
