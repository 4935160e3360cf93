---------------------------- MODULE RecipeImport ----------------------------
(***************************************************************************)
(* The import of reviews from a dataset: scripts/import_uci_recipe_        *)
(* reviews.py.  Rows are chosen, converted to a bundle in a file, and a    *)
(* bundle is loaded in one transaction, as often as somebody likes and     *)
(* next to the application.  Every id is computed from the source's, so    *)
(* that a row is the same review whichever bundle it came in.              *)
(***************************************************************************)
EXTENDS Naturals, Sequences, FiniteSets, SequencesExt

CONSTANTS
  Recipes,      \* recipe codes, by their number
  Authors,      \* source user ids
  Scores,       \* of a row's text: information_score
  Datasets,     \* the datasets there may be
  MaxRows,      \* bounds
  MaxBundles,
  Loaders       \* processes that load

VARIABLES
  dataset,   \* its rows; the place of a row stands for its comment id
  bundles,   \* each bundle that was written: its rows, and what was asked for
  users,     \* the authors whose user is there
  recipes,   \* the row of subjects under each recipe's key
  imported,  \* the reviews that are there, deleted ones as well
  loaded,    \* the bundles a load of which has succeeded
  loader     \* what each process has read

imVars == <<dataset, bundles, users, recipes, imported, loaded, loader>>

DataRow == [recipe : Recipes, author : Authors, score : Scores]

ASSUME RecipeImportAssumption ==
  /\ Recipes \subseteq Nat /\ Scores \subseteq Nat
  /\ {MaxRows, MaxBundles} \subseteq Nat
  /\ \A d \in Datasets : d \in Seq(DataRow) /\ Len(d) \in 1..MaxRows

Rows == DOMAIN dataset
RecipeOf(i) == dataset[i].recipe

(* A subject has the id that the import computes, or another one if a      *)
(* client of the API has created it under the recipe's key.                *)
SubjectRows == {"none", "imported", "foreign"}

(* best: at most one review of a recipe, the best.                         *)
Bundle == [rows : SUBSET (1..MaxRows), best : BOOLEAN, recipes : 1..2, each : 1..2]

Loading == [bundle : 1..MaxBundles, next : {"recipes", "reviews", "commit"}, users : SUBSET Authors, recipes : SUBSET Recipes,
            reviews : SUBSET (1..MaxRows)]
Resting == [bundle |-> 0]

-----------------------------------------------------------------------------
ImInit ==
  /\ dataset \in Datasets
  /\ bundles = <<>>
  /\ users = {} /\ recipes = [r \in Recipes |-> "none"]
  /\ imported = {} /\ loaded = {}
  /\ loader = [l \in Loaders |-> Resting]

(* choose_rows, row by row: so many recipes, so many reviews of each.      *)
ChosenRows(maxRecipes, maxReviews) ==
  FoldLeft(LAMBDA chosen, i :
             LET same == {j \in chosen : RecipeOf(j) = RecipeOf(i)}
             IN  IF \/ same = {} /\ Cardinality({RecipeOf(j) : j \in chosen}) >= maxRecipes
                    \/ Cardinality(same) >= maxReviews
                 THEN chosen ELSE chosen \cup {i},
           {}, [i \in Rows |-> i])

(* choose_representative_rows: of each recipe the first row with the best  *)
(* score, and of these as many as wanted, in the order of the recipes.     *)
Best(i) ==
  \A j \in Rows : RecipeOf(j) = RecipeOf(i) =>
    \/ dataset[j].score < dataset[i].score
    \/ dataset[j].score = dataset[i].score /\ i <= j

RepresentativeRows(maxReviews) ==
  {i \in Rows : Best(i) /\
     Cardinality({r \in {RecipeOf(j) : j \in Rows} : r < RecipeOf(i)}) < maxReviews}

(* build_bundle.  A bundle stays in its file and can be loaded later.      *)
WriteBundle ==
  /\ Len(bundles) < MaxBundles
  /\ \E best \in BOOLEAN, most \in 1..2, each \in 1..2 :
       /\ best => each = 1
       /\ bundles' = Append(bundles,
            [rows |-> IF best THEN RepresentativeRows(most) ELSE ChosenRows(most, each),
             best |-> best, recipes |-> most, each |-> each])
  /\ UNCHANGED <<dataset, users, recipes, imported, loaded, loader>>

(* load_bundle skips what it finds: first users, then subjects, by id or   *)
(* by their key, then reviews, of which deleted ones are found as well.    *)
ReadBundle(l, b) ==
  /\ loader[l] = Resting
  /\ loader' = [loader EXCEPT ![l] =
       [bundle |-> b, next |-> "recipes",
        users |-> {dataset[i].author : i \in bundles[b].rows} \ users,
        recipes |-> {}, reviews |-> {}]]
  /\ UNCHANGED <<dataset, bundles, users, recipes, imported, loaded>>

ReadRecipes(l) ==
  LET j == loader[l]
  IN  /\ j # Resting /\ j.next = "recipes"
      /\ loader' = [loader EXCEPT ![l].next = "reviews",
           ![l].recipes = {r \in {RecipeOf(i) : i \in bundles[j.bundle].rows} :
                             recipes[r] = "none"}]
      /\ UNCHANGED <<dataset, bundles, users, recipes, imported, loaded>>

ReadReviews(l) ==
  LET j == loader[l]
  IN  /\ j # Resting /\ j.next = "reviews"
      /\ loader' = [loader EXCEPT ![l].next = "commit",
                                  ![l].reviews = bundles[j.bundle].rows \ imported]
      /\ UNCHANGED <<dataset, bundles, users, recipes, imported, loaded>>

(* Mutant: whether the subject is there is not asked.                      *)
ConsistentUnreferenced(j) ==
  /\ j.users \cap users = {} /\ j.reviews \cap imported = {}
  /\ \A r \in j.recipes : recipes[r] = "none"

(* What it adds must not have been added meanwhile; and the subject that a *)
(* review names by its computed id must be there.                          *)
Consistent(j) ==
  /\ j.users \cap users = {} /\ j.reviews \cap imported = {}
  /\ \A r \in j.recipes : recipes[r] = "none"
  /\ \A i \in j.reviews : RecipeOf(i) \in j.recipes \/ recipes[RecipeOf(i)] = "imported"

(* The commit, or the error that rolls everything back.                    *)
CommitBundle(l) ==
  LET j == loader[l]
  IN  /\ j # Resting /\ j.next = "commit"
      /\ loader' = [loader EXCEPT ![l] = Resting]
      /\ IF Consistent(j)
           THEN /\ users' = users \cup j.users
                /\ recipes' = [r \in Recipes |->
                                 IF r \in j.recipes THEN "imported" ELSE recipes[r]]
                /\ imported' = imported \cup j.reviews
                /\ loaded' = loaded \cup {j.bundle}
           ELSE UNCHANGED <<users, recipes, imported, loaded>>
      /\ UNCHANGED <<dataset, bundles>>

LoaderEnds(l) ==
  /\ loader[l] # Resting /\ loader' = [loader EXCEPT ![l] = Resting]
  /\ UNCHANGED <<dataset, bundles, users, recipes, imported, loaded>>

(* create_subject of the REST API.                                         *)
CreateRecipe(r) ==
  /\ recipes[r] = "none" /\ recipes' = [recipes EXCEPT ![r] = "foreign"]
  /\ UNCHANGED <<dataset, bundles, users, imported, loaded, loader>>

ImNext ==
  \/ WriteBundle
  \/ \E l \in Loaders :
       \/ ReadRecipes(l) \/ ReadReviews(l) \/ CommitBundle(l) \/ LoaderEnds(l)
       \/ \E b \in DOMAIN bundles : ReadBundle(l, b)
  \/ \E r \in Recipes : CreateRecipe(r)

ImSpec == ImInit /\ [][ImNext]_imVars

-----------------------------------------------------------------------------
ImTypeOK ==
  /\ dataset \in Datasets
  /\ bundles \in Seq(Bundle) /\ Len(bundles) <= MaxBundles
  /\ users \subseteq Authors /\ recipes \in [Recipes -> SubjectRows]
  /\ imported \subseteq Rows
  /\ loaded \subseteq DOMAIN bundles
  /\ loader \in [Loaders -> Loading \cup {Resting}]

(* The rows of recipe r, and the recipes that come before it.              *)
RowsAbout(r, rows) == {i \in rows : RecipeOf(i) = r}
FirstAbout(r) == CHOOSE i \in RowsAbout(r, Rows) : \A j \in RowsAbout(r, Rows) : i <= j
Earlier(r, b) ==
  {q \in {RecipeOf(i) : i \in Rows} :
     IF b.best THEN q < r ELSE FirstAbout(q) < FirstAbout(r)}

(* A bundle that was loaded is there as a whole, whatever other loads,     *)
(* clients and failures came between, and a review never stands without    *)
(* its author and its own recipe.  A bundle holds the first recipes there  *)
(* are, up to the limit it was asked for, and of each the first reviews,   *)
(* up to the other, or the best one.                                       *)
ImportWhole ==
  /\ \A b \in loaded : bundles[b].rows \subseteq imported
  /\ \A i \in imported : dataset[i].author \in users /\ recipes[RecipeOf(i)] = "imported"
  /\ \A n \in DOMAIN bundles :
       LET b == bundles[n]
       IN  \A i \in Rows :
             i \in b.rows <=>
               /\ Cardinality(Earlier(RecipeOf(i), b)) < b.recipes
               /\ IF b.best THEN Best(i)
                  ELSE Cardinality(RowsAbout(RecipeOf(i), 1..i - 1)) < b.each
=============================================================================
