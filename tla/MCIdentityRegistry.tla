------------------------- MODULE MCIdentityRegistry -------------------------
(* Two agents, an EOA, a contract that can re-enter, one approvable service. *)
EXTENDS IdentityRegistry

\* bob signs for alice's agent 0: once until now, once for later than is accepted
\* at first. alice signs nothing, so she is the wallet only of what she owns.
MCConsents ==
  {[agent |-> 0, wallet |-> "bob", owner |-> "alice", deadline |-> 0],
   [agent |-> 0, wallet |-> "bob", owner |-> "alice", deadline |-> 2]}
=============================================================================
