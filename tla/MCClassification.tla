-------------------------- MODULE MCClassification --------------------------
(* Instances of Classification for TLC.                                    *)
EXTENDS Classification, TLC

(* One kind of place; two kinds; a kind of place and a kind of that.       *)
Pair  == {<<"cafe", "place">>}
Fork  == {<<"cafe", "place">>, <<"pub", "place">>}
Chain == {<<"cafe", "place">>, <<"roastery", "cafe">>}

ClientSymmetry == Permutations(Clients)
=============================================================================
