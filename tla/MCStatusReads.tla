--------------------------- MODULE MCStatusReads ---------------------------
(* One agent in every combination of facts, scores around the minimum.       *)
EXTENDS StatusReads
=============================================================================
