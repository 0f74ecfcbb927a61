--------------------------- MODULE MCProofWizard ---------------------------
(* Two agents, since the page takes agent 0 for none; two accounts; one      *)
(* human who proves application-wide for either account, one who proves to   *)
(* bob in the scope of agent 1.                                              *)
EXTENDS ProofWizard

MCProofs ==
  [human : {"h1"}, scope : {AppWide}, signal : Users]
    \cup [human : {"h2"}, scope : {1}, signal : {"bob"}]
=============================================================================
