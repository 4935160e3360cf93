----------------------------- MODULE Navigation -----------------------------
(***************************************************************************)
(* How clients find their way in the vocabulary:                           *)
(* app/services/vocabulary_navigation.py.                                  *)
(*                                                                         *)
(* Roots and children are listed a page at a time.  A cursor names the     *)
(* list and how many entries of it were seen, so that a list that changes  *)
(* between two pages moves under the reader.  Paths to a type are searched *)
(* depth first, up to a depth and a number of paths.                       *)
(***************************************************************************)
EXTENDS Pages, Sequences, SequencesExt

CONSTANTS
  MaxType,     \* the types are 1..MaxType, in the order of their names
  MaxChanges   \* bound: edges that others insert or retire

ASSUME NavigationAssumption == MaxType \in Nat \ {0} /\ MaxChanges \in Nat

VARIABLES
  edges,     \* the active edges of the relation that is navigated
  changes,
  reader,    \* a client that pages through one list
  answer     \* the paths a client was told of

naVars == <<edges, changes, reader, answer>>

VocabularyTypes == 1..MaxType
Edges == VocabularyTypes \X VocabularyTypes   \* child and parent

(* A list is the roots, 0, or the children of a type.                      *)
Lists == {0} \cup VocabularyTypes

Parents(es, t) == {p \in VocabularyTypes : <<t, p>> \in es}

(* The rows of list_root_subject_types and list_child_subject_types.  (In  *)
(* typed mode the roots of is_a are the synthetic root alone.)             *)
Listed(es, l) ==
  IF l = 0 THEN {t \in VocabularyTypes : Parents(es, t) = {}}
  ELSE {t \in VocabularyTypes : <<t, l>> \in es}

(* reading: the list; limit: of a page; cursor: its offset, 0 at first;    *)
(* seen: the entries of the pages; stayed: the entries that were listed    *)
(* all the while; left: those that were listed and are not, or were not    *)
(* for a while.                                                            *)
Away == [list |-> 0, limit |-> 0, cursor |-> 0, seen |-> {}, stayed |-> {},
         left |-> {}, done |-> FALSE]

(* No paths were asked for.                                                *)
Unasked == [type |-> 0, found |-> {}, truncated |-> FALSE]

Reader == [list : Lists, limit : 0..MaxType, cursor : 0..MaxType,
           seen : SUBSET VocabularyTypes, stayed : SUBSET VocabularyTypes,
           left : SUBSET VocabularyTypes, done : BOOLEAN]

-----------------------------------------------------------------------------
NaInit ==
  /\ edges \in {{e \in es : e[1] # e[2]} : es \in SUBSET Edges}
  /\ changes = 0
  /\ reader = Away /\ answer = Unasked

(* The rows that offset and limit select.                                  *)
Slice(rows, offset, n) ==
  SubSeq(rows, offset + 1, IF offset + n < Len(rows) THEN offset + n ELSE Len(rows))

(* _page: one row more than the limit is read to see whether there is more.*)
PageAt(rows, offset, limit) ==
  LET some == Slice(rows, offset, limit + 1)
      items == Slice(some, 0, limit)
  IN  [items |-> ToSet(items),
       more |-> Len(some) > limit,
       next |-> offset + Len(items)]

(* A page of the list at the reader's cursor; without a next cursor it was *)
(* the last.  A cursor of another list is refused.                         *)
ReadPage(l, limit, offset, seen, stayed, left) ==
  LET page == PageAt(Sorted(Listed(edges, l)), offset, limit)
  IN  reader' = [list |-> l, limit |-> limit,
                 cursor |-> IF page.more THEN page.next ELSE 0,
                 seen |-> seen \cup page.items, stayed |-> stayed, left |-> left,
                 done |-> ~page.more]

FirstPage ==
  /\ reader = Away /\ answer = Unasked
  /\ \E l \in Lists, limit \in 1..MaxType :
       ReadPage(l, limit, 0, {}, Listed(edges, l), {})
  /\ UNCHANGED <<edges, changes, answer>>

NextPage ==
  /\ reader.cursor > 0
  /\ ReadPage(reader.list, reader.limit, reader.cursor,
              reader.seen, reader.stayed, reader.left)
  /\ UNCHANGED <<edges, changes, answer>>

(* Others insert and retire edges between two pages.                       *)
EdgeChanged ==
  /\ changes < MaxChanges /\ reader.cursor > 0
  /\ changes' = changes + 1
  /\ \E e \in Edges :
       /\ e[1] # e[2]
       /\ edges' = IF e \in edges THEN edges \ {e} ELSE edges \cup {e}
  /\ LET was == Listed(edges, reader.list)
         is == Listed(edges', reader.list)
     IN  reader' = [reader EXCEPT !.stayed = @ \cap is, !.left = @ \cup (was \ is)]
  /\ UNCHANGED answer

-----------------------------------------------------------------------------
(* get_subject_type_paths.  A path goes from the type towards a root.      *)
PathSearch == [stack : Seq(Seq(VocabularyTypes)), completed : Seq(Seq(VocabularyTypes)),
               truncated : BOOLEAN]

(* One turn of its loop: the last path is taken from the stack.            *)
Step(p, depth) ==
  LET path == Last(p.stack)
      parents == Parents(edges, Last(path))
      valid == parents \ ToSet(path)
      rest == Front(p.stack)
  IN  IF Len(path) >= depth
      THEN [stack |-> rest, completed |-> Append(p.completed, path), truncated |-> TRUE]
      ELSE IF parents = {}
      THEN [p EXCEPT !.stack = rest, !.completed = Append(@, path)]
      ELSE [stack |->
              rest \o [i \in 1..Cardinality(valid) |-> Append(path, Reverse(Sorted(valid))[i])],
            completed |-> p.completed,
            truncated |-> p.truncated \/ valid # parents]

(* Paths without a repeated type, from t, of any length.                   *)
Simple(t) ==
  {p \in UNION {[1..n -> VocabularyTypes] : n \in VocabularyTypes} :
     /\ p[1] = t /\ Cardinality(ToSet(p)) = Len(p)
     /\ \A i \in 1..Len(p) - 1 : p[i + 1] \in Parents(edges, p[i])}

Paths(t, depth, limit) ==
  LET turns == Cardinality(Simple(t)) + 1   \* each path is taken once
      at[n \in 0..turns] ==
        IF n = 0 THEN [stack |-> <<<<t>>>>, completed |-> <<>>, truncated |-> FALSE]
        ELSE IF at[n - 1].stack = <<>> \/ Len(at[n - 1].completed) >= limit THEN at[n - 1]
        ELSE Step(at[n - 1], depth)
  IN  [type |-> t, found |-> ToSet(at[turns].completed),
       truncated |-> at[turns].truncated \/ at[turns].stack # <<>>]

(* A client asks for the paths of a type, to a depth and up to a number.   *)
FindPaths ==
  /\ reader = Away /\ answer = Unasked
  /\ \E t \in VocabularyTypes, depth \in 1..MaxType + 1, limit \in 1..2 :
       answer' = Paths(t, depth, limit)
  /\ UNCHANGED <<edges, changes, reader>>

NaNext == FirstPage \/ NextPage \/ EdgeChanged \/ FindPaths
NaSpec == NaInit /\ [][NaNext]_naVars

-----------------------------------------------------------------------------
NaTypeOK ==
  /\ edges \subseteq Edges /\ changes \in 0..MaxChanges
  /\ reader \in Reader
  /\ answer.type \in Lists /\ answer.found \subseteq Seq(VocabularyTypes)
  /\ answer.truncated \in BOOLEAN

(* A client that pages to the end misses an entry that was listed all the  *)
(* while only if one that came before it has left the list meanwhile.      *)
PagesComplete ==
  reader.done => \A t \in reader.stayed \ reader.seen : \E u \in reader.left : u < t

(* What is not truncated is all: the paths of a type are then the chains   *)
(* of edges that lead from it to types without a parent, and no edge leads *)
(* in a circle.  What is truncated is still chains of edges.               *)
PathsComplete ==
  answer # Unasked =>
    LET chains == Simple(answer.type)
    IN  /\ answer.found \subseteq chains
        /\ ~answer.truncated =>
             /\ answer.found = {p \in chains : Parents(edges, Last(p)) = {}}
             /\ \A p \in chains : Parents(edges, Last(p)) \cap ToSet(p) = {}
=============================================================================
