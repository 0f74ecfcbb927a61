------------------------ MODULE MCPlaidCreditValidator ------------------------
(* Two agents that change hands, two requests, scores on both sides of the     *)
(* maximum, an old and a new enclave that attested different scores.           *)
EXTENDS PlaidCreditValidator

MCAttested ==
  {[mrEnclave |-> "old", agentId |-> 0, requestHash |-> "h1", score |-> 81],
   [mrEnclave |-> "new", agentId |-> 1, requestHash |-> "h2", score |-> 40]}

\* And a forged one.
MCQuotes ==
  MCAttested
    \cup {[mrEnclave |-> "new", agentId |-> 0, requestHash |-> "h1", score |-> 81]}
=============================================================================
