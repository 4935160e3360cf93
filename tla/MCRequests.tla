----------------------------- MODULE MCRequests -----------------------------
(* Instances of Requests for TLC.                                          *)
EXTENDS Requests, TLC

CONSTANTS gpt, chatgpt, claude

(* canonical_model: GPT is ChatGPT.                                        *)
ModelOf == (gpt :> chatgpt @@ chatgpt :> chatgpt) @@ (claude :> claude)

(* Few datasets stand for all: rows of a recipe apart from each other and  *)
(* together, the best row last and first, the recipes in order and not;    *)
(* one recipe is less than there are, two are all.                         *)
Line(recipe, author, score) == [recipe |-> recipe, author |-> author, score |-> score]
SomeDatasets ==
  {<<Line(2, "u", 0), Line(1, "v", 0), Line(2, "v", 1)>>,
   <<Line(1, "u", 1), Line(1, "v", 1), Line(2, "u", 0)>>}

(* The parts share no value: one pair of values that can be swapped stands *)
(* for threads, processes and groups, another for clients, endpoints and   *)
(* members.                                                                *)
Symmetry == Permutations(Servers) \cup Permutations(Items)
=============================================================================
