--------------------------- MODULE MCDeliberation ---------------------------
(* Instances of Deliberation for TLC.                                      *)
EXTENDS Deliberation, TLC

WorkerAndClientSymmetry == Permutations(Clients) \cup Permutations(Workers)
=============================================================================
