----------------------------- MODULE MCTaxonomy -----------------------------
(* Instances of Taxonomy for TLC.                                          *)
EXTENDS Taxonomy, TLC

NameActorWorkerSymmetry ==
  Permutations(Names) \cup Permutations(Actors) \cup Permutations(Workers)
=============================================================================
