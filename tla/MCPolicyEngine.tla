--------------------------- MODULE MCPolicyEngine ---------------------------
(* One agent and every combination of facts about it, claims of every tier,  *)
(* a forwarder and an account that is none.                                  *)
EXTENDS PolicyEngine
=============================================================================
