------------------------ MODULE MCReputationRegistry ------------------------
(* An agent that two clients own in turn; mixed precisions, negative values, *)
(* tags in either place, and opinions beyond both limits.                    *)
EXTENDS ReputationRegistry

MCOpinions ==
  {[value |-> 15, valueDecimals |-> 1, tag1 |-> "q", tag2 |-> ""],
   [value |-> -7, valueDecimals |-> 0, tag1 |-> "", tag2 |-> "q"],
   [value |-> 4, valueDecimals |-> 2, tag1 |-> "q", tag2 |-> "r"],
   [value |-> 8, valueDecimals |-> 0, tag1 |-> "r", tag2 |-> "q"],
   [value |-> 5, valueDecimals |-> 3, tag1 |-> "", tag2 |-> ""],
   [value |-> 31, valueDecimals |-> 0, tag1 |-> "", tag2 |-> ""]}
=============================================================================
