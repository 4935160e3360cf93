------------------------------ MODULE Taxonomy ------------------------------
(***************************************************************************)
(* The vocabulary all clients build together: subject types, the edges     *)
(* between them, their aliases and the synthetic root.                     *)
(* app/services/semantic.py, synthetic_root.py, and the subject types of   *)
(* app/services/v2.py.                                                     *)
(*                                                                         *)
(* A name is a normalised term and names at most one type.  In typed mode  *)
(* types are related by is_a, under the root or under each other, and by   *)
(* part_of, and nothing else.  A new is_a child beside children of other   *)
(* clients takes a decision that it is distinct.  In legacy mode each      *)
(* belongs_to one parent, and any other relationship is accepted beside    *)
(* it, with neither cycle check nor decision.                              *)
(*                                                                         *)
(* Adding an edge and retiring one read, write and commit while requests   *)
(* on other threads do the same: each is a request in flight, which has    *)
(* made its checks on what was committed then.  A hierarchy, an alias and  *)
(* a direct write are one step: overlapped by a request in flight they     *)
(* come before or after its checks.                                        *)
(***************************************************************************)
EXTENDS Naturals, FiniteSets

CONSTANTS
  Names,      \* normalised terms
  NoName,
  Actors,     \* the clients that create types
  Nobody,
  LegacyUses, \* the relationships beside belongs_to callers use in legacy mode
  Workers,    \* requests that can be in flight
  MaxEdges,   \* bound: rows of subject_type_relationships
  MaxEdgesThreaded    \* the same when requests overlap

ASSUME TaxonomyAssumption ==
  /\ NoName \notin Names /\ Nobody \notin Actors
  /\ MaxEdges \in Nat /\ MaxEdgesThreaded \in Nat
  /\ IsFiniteSet(Names)
  /\ LegacyUses \subseteq {"is_a", "part_of"}

VARIABLES
  typed,      \* the deployment's classification_mode
  threaded,   \* whether requests of this history overlap
  graph,      \* the tables
  flight      \* the request each worker has in flight

vars == <<typed, threaded, graph, flight>>

Relations == {"is_a", "part_of", "belongs_to"}

(* creator: created_by of the type of a name; alias: what a name that is   *)
(* no type's stands for; edge: the rows child, relation, parent; rooted:   *)
(* the types with an edge to the root.  distinct is no column: the is_a    *)
(* edges inserted with the decision that the child is no other's peer.     *)
Graph == [creator : [Names -> Actors \cup {Nobody}],
          alias : [Names -> Names \cup {NoName}],
          edge : [Relations -> [Names \X Names -> {"none", "active", "retired"}]],
          rooted : SUBSET Names,
          distinct : SUBSET (Names \X Names)]

Request ==
  [op : {"relate"}, rel : Relations, child : Names, parent : Names,
   decided : BOOLEAN, others : SUBSET Names]
  \cup [op : {"retire"}, rel : Relations, child : Names, parent : Names,
        others : SUBSET Names]

Idle == [op |-> "idle"]

(* validate_classification_relationship: legacy mode takes any string.     *)
Supported == IF typed THEN {"is_a", "part_of"} ELSE {"belongs_to"} \cup LegacyUses

CycleChecked == IF typed THEN {"is_a", "part_of"} ELSE {"belongs_to"}

(* The edges that place a type under a parent or the root, and whose peers *)
(* converge.                                                               *)
Placing(rel) == typed /\ rel = "is_a"

Resolve(g, n) == IF g.creator[n] # Nobody THEN n ELSE g.alias[n]

Types(g) == {n \in Names : g.creator[n] # Nobody}

Parents(g, rel, t) == {p \in Names : g.edge[rel][<<t, p>>] = "active"}
Children(g, rel, p) == {t \in Names : g.edge[rel][<<t, p>>] = "active"}

Rows(g) ==
  {e \in Relations \X Names \X Names : g.edge[e[1]][<<e[2], e[3]>>] # "none"}

MayInsert(g) ==
  Cardinality(Rows(g)) < (IF threaded THEN MaxEdgesThreaded ELSE MaxEdges)

(* _has_relationship_path: t and what edges of one relation reach from it. *)
Ancestors(g, rel, t) ==
  LET up[k \in 0..Cardinality(Names)] ==
        IF k = 0 THEN {t}
        ELSE up[k - 1] \cup UNION {Parents(g, rel, s) : s \in up[k - 1]}
  IN  up[Cardinality(Names)]

(* attach_root_if_needed, in typed mode.                                   *)
Attached(g, t) ==
  [g EXCEPT !.rooted =
     IF Parents(g, "is_a", t) = {} THEN @ \cup {t} ELSE @ \ {t}]

(* _foreign_peer_candidates.                                               *)
Foreign(g, siblings, actor) == {t \in siblings : g.creator[t] # actor}

Peers(g, c, p) == Foreign(g, Children(g, "is_a", p) \ {c}, g.creator[c])

Decided(g, c, p, decided) ==
  IF decided /\ Peers(g, c, p) # {} THEN g.distinct \cup {<<c, p>>} ELSE g.distinct

SetEdge(g, rel, c, p, status) ==
  [g EXCEPT !.edge[rel] = [@ EXCEPT ![<<c, p>>] = status]]

(* The row is inserted; a belongs_to edge replaces the parents seen when   *)
(* the checks were made, in typed mode an is_a edge replaces the root's.   *)
Linked(g, rel, c, p, others, decided) ==
  LET h == SetEdge(g, rel, c, p, "active")
  IN  CASE rel = "belongs_to" ->
             [h EXCEPT !.edge[rel] =
                [e \in Names \X Names |->
                   IF e \in {c} \X others THEN "retired" ELSE @[e]]]
        [] Placing(rel) ->
             Attached([h EXCEPT !.distinct = Decided(g, c, p, decided)], c)
        [] OTHER -> h

(* Mutant: only the parent's own edges are followed.                       *)
RelatableDirect(g, rel, c, p) ==
  /\ rel \in CycleChecked => c \notin {p} \cup Parents(g, rel, p)
  /\ rel = "belongs_to" => Cardinality(Parents(g, rel, c)) <= 1

(* What add_semantic_relationship checks before it locks: no cycle of the  *)
(* mode's own relationships, and not more than one parent to replace.      *)
Relatable(g, rel, c, p) ==
  /\ rel \in CycleChecked => c \notin Ancestors(g, rel, p)
  /\ rel = "belongs_to" => Cardinality(Parents(g, rel, c)) <= 1

(* Mutant: the peers are not read again under the lock.                    *)
InsertableBefore(g, rel, c, p, decided) == g.edge[rel][<<c, p>>] = "none"

(* And under the lock on the parent: no such row, and peers were decided.  *)
Insertable(g, rel, c, p, decided) ==
  /\ g.edge[rel][<<c, p>>] = "none"
  /\ Placing(rel) => Peers(g, c, p) = {} \/ decided

-----------------------------------------------------------------------------
Empty == [creator |-> [n \in Names |-> Nobody], alias |-> [n \in Names |-> NoName],
          edge |-> [r \in Relations |-> [e \in Names \X Names |-> "none"]],
          rooted |-> {}, distinct |-> {}]

Init ==
  /\ typed \in BOOLEAN
  /\ threaded \in BOOLEAN
  /\ graph = Empty
  /\ flight = [w \in Workers |-> Idle]

Free(w) == flight[w] = Idle

(* The handlers of the MCP endpoint do not overlap; retire is one of them. *)
MayEnter(op) ==
  \A v \in Workers :
    /\ ~threaded => Free(v)
    /\ op \in {"retire", "hierarchy"} => flight[v].op # "retire"

Enter(w, r) ==
  /\ Free(w) /\ MayEnter(r.op)
  /\ flight' = [flight EXCEPT ![w] = r]
  /\ UNCHANGED <<typed, threaded, graph>>

Leave(w) == flight' = [flight EXCEPT ![w] = Idle] /\ UNCHANGED <<typed, threaded>>

BeginRelate(w) ==
  \E rel \in Supported, c, p \in Types(graph), decided \in BOOLEAN :
    /\ c # p
    /\ Relatable(graph, rel, c, p)
    /\ graph.edge[rel][<<c, p>>] = "none"
    /\ decided => Placing(rel)
    /\ Enter(w, [op |-> "relate", rel |-> rel, child |-> c, parent |-> p,
                 decided |-> decided, others |-> Parents(graph, rel, c)])

CommitRelate(w) ==
  LET r == flight[w]
  IN  /\ r.op = "relate"
      /\ MayInsert(graph)
      /\ graph' = IF Insertable(graph, r.rel, r.child, r.parent, r.decided)
                    THEN Linked(graph, r.rel, r.child, r.parent, r.others, r.decided)
                    ELSE graph
      /\ Leave(w)

(* retire_semantic_relationship.                                           *)
BeginRetire(w) ==
  \E rel \in Supported, c, p \in Types(graph) :
    /\ graph.edge[rel][<<c, p>>] = "active"
    /\ Enter(w, [op |-> "retire", rel |-> rel, child |-> c, parent |-> p,
                 others |-> Parents(graph, rel, c) \ {p}])

(* Mutant: the type is not attached to the root again.                     *)
CommitRetireOnly(w) ==
  LET r == flight[w]
  IN  /\ r.op = "retire"
      /\ graph' = SetEdge(graph, r.rel, r.child, r.parent, "retired")
      /\ Leave(w)

CommitRetire(w) ==
  LET r == flight[w]
      g == SetEdge(graph, r.rel, r.child, r.parent, "retired")
  IN  /\ r.op = "retire"
      /\ graph' = IF ~Placing(r.rel) THEN g
                  ELSE [g EXCEPT !.rooted = IF r.others = {} THEN @ \cup {r.child}
                                            ELSE @ \ {r.child}]
      /\ Leave(w)

(* The transaction ends without a commit.                                  *)
Abort(w) == ~Free(w) /\ Leave(w) /\ UNCHANGED graph

-----------------------------------------------------------------------------
Created(g, n, actor) ==
  LET h == [g EXCEPT !.creator[n] = actor]
  IN  IF typed THEN Attached(h, n) ELSE h

Aliased(g, n, t) == [g EXCEPT !.alias[n] = t]

(* Mutant: the alias stands for the term the caller gave.                  *)
PlacedAsGiven(g, n, actor, siblings) ==
  IF Resolve(g, n) # NoName
    THEN {[g |-> IF typed THEN Attached(g, Resolve(g, n)) ELSE g,
           type |-> Resolve(g, n)]}
  ELSE {[g |-> Created(g, n, actor), type |-> n]}
       \cup {[g |-> Aliased(g, n, m), type |-> Resolve(g, m)] :
              m \in {m \in Names : /\ typed /\ Foreign(g, siblings, actor) # {}
                                   /\ Resolve(g, m) \in siblings}}

(* A term of a hierarchy, below a parent with these children: the type it  *)
(* resolves to, or a new one.  Beside children of other clients the caller *)
(* decides: for a type of its own, or for one of the children to reuse.    *)
Placed(g, n, actor, siblings) ==
  IF Resolve(g, n) # NoName
    THEN {[g |-> IF typed THEN Attached(g, Resolve(g, n)) ELSE g,
           type |-> Resolve(g, n)]}
  ELSE {[g |-> Created(g, n, actor), type |-> n]}
       \cup {[g |-> Aliased(g, n, t), type |-> t] :
              t \in {t \in siblings : typed /\ Foreign(g, siblings, actor) # {}}}

(* Mutant: a retired row is an edge that is missing.                       *)
LinkAgain(g, rel, c, p, decided) ==
  IF c = p \/ ~Relatable(g, rel, c, p) THEN {}
  ELSE IF g.edge[rel][<<c, p>>] = "active" THEN {g}
  ELSE IF Placing(rel) /\ Peers(g, c, p) # {} /\ ~decided THEN {}
  ELSE {Linked(g, rel, c, p, Parents(g, rel, c), decided)}

(* add_semantic_relationship as part of a hierarchy.                       *)
Link(g, rel, c, p, decided) ==
  IF c = p \/ ~Relatable(g, rel, c, p) THEN {}
  ELSE IF g.edge[rel][<<c, p>>] = "active" THEN {g}
  ELSE {Linked(g, rel, c, p, Parents(g, rel, c), decided) :
          x \in {x \in {g} : Insertable(g, rel, c, p, decided)}}

Taxonomic == IF typed THEN "is_a" ELSE "belongs_to"

(* resolve_subject_hierarchy of one term.  Its parent is the root.         *)
HierarchyOfOne(actor, n) ==
  /\ typed \/ Resolve(graph, n) # NoName
  /\ \E r \in Placed(graph, n, actor, graph.rooted) : graph' = r.g

(* Of two terms; a longer one goes on in the same way.                     *)
HierarchyOfTwo(actor, m, n) ==
  /\ MayInsert(graph)
  /\ \E r \in Placed(graph, m, actor, graph.rooted) :
       \E s \in Placed(r.g, n, actor, Children(r.g, Taxonomic, r.type)) :
         \E decided \in BOOLEAN :
           graph' \in Link(s.g, Taxonomic, s.type, r.type, decided)

Hierarchy ==
  /\ MayEnter("hierarchy")
  /\ \E actor \in Actors, n \in Names :
       \/ HierarchyOfOne(actor, n)
       \/ \E m \in Names \ {n} : HierarchyOfTwo(actor, m, n)
  /\ UNCHANGED <<typed, threaded, flight>>

(* Mutant: an alias that is there is replaced.                             *)
RegisterAliasAnyway ==
  /\ MayEnter("alias")
  /\ \E n \in Names, t \in Types(graph) :
       /\ n \notin Types(graph)
       /\ graph' = Aliased(graph, n, t)
  /\ UNCHANGED <<typed, threaded, flight>>

(* add_subject_type_alias.                                                 *)
RegisterAlias ==
  /\ MayEnter("alias")
  /\ \E n \in Names, t \in Types(graph) :
       /\ Resolve(graph, n) = NoName
       /\ graph' = Aliased(graph, n, t)
  /\ UNCHANGED <<typed, threaded, flight>>

(* ensure_subject_type_for_direct_write: only legacy mode creates.         *)
DirectWrite ==
  /\ MayEnter("direct")
  /\ \E actor \in Actors, n \in Names :
       /\ ~typed \/ Resolve(graph, n) # NoName
       /\ \E r \in Placed(graph, n, actor, {}) : graph' = r.g
  /\ UNCHANGED <<typed, threaded, flight>>

Next ==
  \/ Hierarchy
  \/ RegisterAlias
  \/ DirectWrite
  \/ \E w \in Workers :
       \/ BeginRelate(w) \/ CommitRelate(w)
       \/ BeginRetire(w) \/ CommitRetire(w)
       \/ Abort(w)

Spec == Init /\ [][Next]_vars

-----------------------------------------------------------------------------
(* Types; rows are between types, and an alias stands for a type.          *)
TypeOK ==
  /\ typed \in BOOLEAN /\ threaded \in BOOLEAN
  /\ graph \in Graph
  /\ flight \in [Workers -> Request \cup {Idle}]
  /\ \A e \in Rows(graph) : {e[2], e[3]} \subseteq Types(graph)
  /\ graph.rooted \subseteq Types(graph)
  /\ \A n \in Names : graph.alias[n] # NoName => graph.alias[n] \in Types(graph)

(* By the relationships the mode checks no type is, by any number of       *)
(* edges, an ancestor of itself: is_a and part_of in typed mode, belongs_to in    *)
(* legacy mode, where others may go round.                                 *)
Acyclic ==
  \A rel \in CycleChecked, t \in Names : \A p \in Parents(graph, rel, t) :
    t \notin Ancestors(graph, rel, p)

(* Requests that do not overlap keep these free of cycles, whatever the    *)
(* other relationships of legacy mode do beside them.                      *)
AcyclicInOrder == ~threaded => Acyclic

(* "a direct root iff it has no meaningful is_a parent", so that every     *)
(* type can be reached from the root.                                      *)
RootedExactly ==
  (typed /\ ~threaded) =>
    \A t \in Types(graph) : t \in graph.rooted <=> Parents(graph, "is_a", t) = {}

(* In legacy mode a type has one active parent, however often it is moved. *)
OneParent ==
  (~typed /\ ~threaded) =>
    \A t \in Names : Cardinality(Parents(graph, "belongs_to", t)) <= 1

(* Either way a request that moves a type leaves it at one place: no edge  *)
(* beside the new one and no root that is none.                            *)
PlacedExactly == RootedExactly /\ OneParent

(* What a name stands for never changes: rows that refer to it by a type   *)
(* keep their meaning when others create types and aliases.                *)
NamesKept ==
  [][\A n \in Names :
       (~threaded /\ Resolve(graph, n) # NoName) =>
         Resolve(graph', n) = Resolve(graph, n)]_vars

(* A retired edge stays retired, also with requests in flight that saw it  *)
(* active or missing.                                                      *)
TombstonesStay ==
  [][\A e \in Rows(graph) :
       graph.edge[e[1]][<<e[2], e[3]>>] = "retired" =>
         graph'.edge[e[1]][<<e[2], e[3]>>] = "retired"]_vars

(* In typed mode, of two children of different clients below one type, one *)
(* was placed there with the decision that it is distinct: the lock on the *)
(* parent lets no two clients miss each other.                             *)
PeersConverge ==
  typed =>
    \A p \in Names : \A c, d \in Children(graph, "is_a", p) :
      graph.creator[c] # graph.creator[d] =>
        {<<c, p>>, <<d, p>>} \cap graph.distinct # {}
=============================================================================
