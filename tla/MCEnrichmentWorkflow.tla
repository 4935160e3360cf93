------------------------ MODULE MCEnrichmentWorkflow ------------------------
(* Instances of EnrichmentWorkflow for TLC.                                *)
EXTENDS EnrichmentWorkflow, TLC

Pair == {<<"cafe", "place">>}

ClientSymmetry == Permutations(Clients)
=============================================================================
