------------------------------- MODULE Pages -------------------------------
(***************************************************************************)
(* Rows in an order, of which clients are given some at a time: what the   *)
(* lists of vocabulary_navigation.py and the search of mcp_v2.py read.     *)
(***************************************************************************)
EXTENDS Naturals, FiniteSets

(* The place of a row among the rows.                                      *)
Place(S, t) == Cardinality({u \in S : u <= t})

(* ORDER BY: the rows, by their places.                                    *)
Sorted(S) == [i \in 1..Cardinality(S) |-> CHOOSE t \in S : Place(S, t) = i]
=============================================================================
