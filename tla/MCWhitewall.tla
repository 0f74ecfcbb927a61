----------------------------- MODULE MCWhitewall -----------------------------
(* One agent that two owners pass between them, one human who proves for      *)
(* alice, one KYC and one credit request, claims of every tier.               *)
EXTENDS Whitewall

HashSymmetry == Permutations(Hashes)

MCProofs == [human : {"h"}, scope : {AppWide}, signal : {"alice"}]
=============================================================================
