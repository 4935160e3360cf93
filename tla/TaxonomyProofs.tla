--------------------------- MODULE TaxonomyProofs ---------------------------
(***************************************************************************)
(* Proofs about Taxonomy, for any names and clients, any number of         *)
(* requests in flight, both modes, whatever relationships legacy mode is   *)
(* given: the lock on the parent is enough for the convergence of peers, a *)
(* retired edge is never made active, a name keeps its meaning; and        *)
(* requests that do not overlap leave the relationships the mode checks    *)
(* free of cycles, and each type at one place.                             *)
(***************************************************************************)
EXTENDS Taxonomy, FiniteSetTheorems, TLAPS

(* The tables of a graph, and what Next does to them.                      *)
GraphOK(g) ==
  /\ g \in Graph
  /\ \A rel \in Relations, c, p \in Names :
       g.edge[rel][<<c, p>>] # "none" => {c, p} \subseteq Types(g)
  /\ g.rooted \subseteq Types(g)
  /\ \A n \in Names : g.alias[n] # NoName => g.alias[n] \in Types(g)

Converged(g) ==
  typed => \A p \in Names : \A c, d \in Children(g, "is_a", p) :
    g.creator[c] # g.creator[d] => {<<c, p>>, <<d, p>>} \cap g.distinct # {}

GInv(g) == GraphOK(g) /\ Converged(g)

(* From g to h no type is lost and no retired row is made active.          *)
Keeps(g, h) ==
  /\ Types(g) \subseteq Types(h)
  /\ \A rel \in Relations, c, p \in Names :
       g.edge[rel][<<c, p>>] = "retired" => h.edge[rel][<<c, p>>] = "retired"

(* A request in flight is about types.                                     *)
FlightOK ==
  \A w \in Workers : ~Free(w) =>
    {flight[w].child, flight[w].parent} \cup flight[w].others \subseteq Types(graph)

IInv ==
  /\ typed \in BOOLEAN /\ threaded \in BOOLEAN
  /\ flight \in [Workers -> Request \cup {Idle}]
  /\ GInv(graph)
  /\ FlightOK

LEMMA KeepsTrans ==
  ASSUME NEW g, NEW h, NEW k, Keeps(g, h), Keeps(h, k)
  PROVE  Keeps(g, k)
BY DEF Keeps

-----------------------------------------------------------------------------
(* What each write to the tables preserves.                                *)
LEMMA AttachedOK ==
  ASSUME NEW g, GInv(g), NEW t \in Types(g)
  PROVE  GInv(Attached(g, t)) /\ Keeps(g, Attached(g, t))
<1> DEFINE h == Attached(g, t)
<1>1. /\ h \in Graph /\ h.edge = g.edge /\ h.creator = g.creator
      /\ h.alias = g.alias /\ h.distinct = g.distinct
      /\ h.rooted \subseteq g.rooted \cup {t}
  BY DEF GInv, GraphOK, Graph, Attached, Types
<1> HIDE DEF h
<1>2. Types(h) = Types(g)
  BY <1>1 DEF Types
<1>3. \A p : Children(h, "is_a", p) = Children(g, "is_a", p)
  BY <1>1 DEF Children
<1> QED BY <1>1, <1>2, <1>3 DEF GInv, GraphOK, Converged, Keeps, h

LEMMA AliasedOK ==
  ASSUME NEW g, GInv(g), NEW n \in Names, NEW t \in Types(g)
  PROVE  GInv(Aliased(g, n, t)) /\ Keeps(g, Aliased(g, n, t))
<1> DEFINE h == Aliased(g, n, t)
<1>1. t \in Names
  BY DEF Types
<1>2. /\ h \in Graph /\ h.edge = g.edge /\ h.creator = g.creator
      /\ h.alias = [g.alias EXCEPT ![n] = t] /\ h.distinct = g.distinct
      /\ h.rooted = g.rooted
  BY <1>1 DEF GInv, GraphOK, Graph, Aliased
<1> HIDE DEF h
<1>3. Types(h) = Types(g)
  BY <1>2 DEF Types
<1>4. \A p : Children(h, "is_a", p) = Children(g, "is_a", p)
  BY <1>2 DEF Children
<1>5. \A m \in Names : h.alias[m] # NoName => h.alias[m] \in Types(h)
  BY <1>2, <1>3 DEF GInv, GraphOK, Graph
<1> QED BY <1>2, <1>3, <1>4, <1>5 DEF GInv, GraphOK, Converged, Keeps, h

LEMMA CreatedOK ==
  ASSUME NEW g, GInv(g), NEW n \in Names, n \notin Types(g), NEW a \in Actors
  PROVE  /\ GInv(Created(g, n, a)) /\ Keeps(g, Created(g, n, a))
         /\ n \in Types(Created(g, n, a))
<1> DEFINE h == [g EXCEPT !.creator[n] = a]
<1>1. /\ h \in Graph /\ h.edge = g.edge /\ h.alias = g.alias
      /\ h.creator = [g.creator EXCEPT ![n] = a] /\ h.distinct = g.distinct
      /\ h.rooted = g.rooted
  BY DEF GInv, GraphOK, Graph
<1>2. Created(g, n, a) = IF typed THEN Attached(h, n) ELSE h
  BY DEF Created
<1> HIDE DEF h
<1>3. g.creator \in [Names -> Actors \cup {Nobody}]
  BY DEF GInv, GraphOK, Graph
<1>4. Types(h) = Types(g) \cup {n}
  BY <1>1, <1>3, TaxonomyAssumption DEF Types
<1>5. \A p : Children(h, "is_a", p) = Children(g, "is_a", p)
  BY <1>1 DEF Children
<1>6. \A p \in Names : \A c \in Children(g, "is_a", p) :
        c # n /\ c \in Names
  BY DEF Children, GInv, GraphOK, Relations
<1>7. Converged(h)
  BY <1>1, <1>3, <1>5, <1>6 DEF GInv, Converged
<1>8. GraphOK(h)
  BY <1>1, <1>4 DEF GInv, GraphOK
<1>9. Keeps(g, h)
  BY <1>1, <1>4 DEF Keeps
<1>10. GInv(Attached(h, n)) /\ Keeps(h, Attached(h, n))
  BY <1>4, <1>7, <1>8, AttachedOK DEF GInv
<1>11. Keeps(g, Attached(h, n))
  BY <1>9, <1>10, KeepsTrans
<1>12. n \in Types(Attached(h, n))
  BY <1>4, <1>10 DEF Keeps
<1> QED BY <1>2, <1>4, <1>7, <1>8, <1>9, <1>10, <1>11, <1>12 DEF GInv

(* The row of one edge.                                                    *)
LEMMA SetEdgeFields ==
  ASSUME NEW g, GInv(g), NEW rel \in Relations, NEW c \in Types(g), NEW p \in Types(g),
         NEW st \in {"active", "retired"}
  PROVE  /\ SetEdge(g, rel, c, p, st) \in Graph
         /\ GraphOK(SetEdge(g, rel, c, p, st))
         /\ SetEdge(g, rel, c, p, st).creator = g.creator
         /\ SetEdge(g, rel, c, p, st).distinct = g.distinct
         /\ Types(SetEdge(g, rel, c, p, st)) = Types(g)
         /\ \A r \in Relations, x, y \in Names :
              SetEdge(g, rel, c, p, st).edge[r][<<x, y>>] =
                IF r = rel /\ x = c /\ y = p THEN st ELSE g.edge[r][<<x, y>>]
<1> DEFINE h == SetEdge(g, rel, c, p, st)
<1>1. c \in Names /\ p \in Names /\ <<c, p>> \in Names \X Names
  BY DEF Types
<1>2. g.edge \in [Relations -> [Names \X Names -> {"none", "active", "retired"}]]
  BY DEF GInv, GraphOK, Graph
<1>3. [g.edge[rel] EXCEPT ![<<c, p>>] = st]
        \in [Names \X Names -> {"none", "active", "retired"}]
  BY <1>2
<1>4. h = [g EXCEPT !.edge = [g.edge EXCEPT ![rel] = [g.edge[rel] EXCEPT ![<<c, p>>] = st]]]
  BY DEF SetEdge, GInv, GraphOK, Graph
<1>5. /\ h \in Graph /\ h.creator = g.creator /\ h.alias = g.alias
      /\ h.distinct = g.distinct /\ h.rooted = g.rooted
      /\ h.edge = [g.edge EXCEPT ![rel] = [g.edge[rel] EXCEPT ![<<c, p>>] = st]]
  <2> DEFINE row == [g.edge[rel] EXCEPT ![<<c, p>>] = st]
  <2> DEFINE edges == [g.edge EXCEPT ![rel] = row]
  <2>1. edges \in [Relations -> [Names \X Names -> {"none", "active", "retired"}]]
    BY <1>2, <1>3
  <2>2. h = [g EXCEPT !.edge = edges] /\ g \in Graph
    BY <1>4 DEF GInv, GraphOK
  <2> HIDE DEF h, edges
  <2>3. /\ h \in Graph /\ h.creator = g.creator /\ h.alias = g.alias
        /\ h.distinct = g.distinct /\ h.edge = edges /\ h.rooted = g.rooted
    BY <2>1, <2>2 DEF Graph
  <2> QED BY <2>3 DEF edges
<1> HIDE DEF h
<1>6. Types(h) = Types(g)
  BY <1>5 DEF Types
<1>7. ASSUME NEW r \in Relations, NEW x \in Names, NEW y \in Names
      PROVE  h.edge[r][<<x, y>>] =
               IF r = rel /\ x = c /\ y = p THEN st ELSE g.edge[r][<<x, y>>]
  BY <1>1, <1>2, <1>5
<1>8. GraphOK(h)
  BY <1>5, <1>6, <1>7 DEF GInv, GraphOK
<1> QED BY <1>5, <1>6, <1>7, <1>8 DEF h

LEMMA RetiredOK ==
  ASSUME NEW g, GInv(g), NEW rel \in Relations, NEW c \in Types(g), NEW p \in Types(g)
  PROVE  /\ GInv(SetEdge(g, rel, c, p, "retired"))
         /\ Keeps(g, SetEdge(g, rel, c, p, "retired"))
<1> DEFINE h == SetEdge(g, rel, c, p, "retired")
<1>1. /\ GraphOK(h) /\ h.creator = g.creator /\ h.distinct = g.distinct
      /\ Types(h) = Types(g)
      /\ \A r \in Relations, x, y \in Names :
           h.edge[r][<<x, y>>] =
             IF r = rel /\ x = c /\ y = p THEN "retired" ELSE g.edge[r][<<x, y>>]
  BY SetEdgeFields
<1> HIDE DEF h
<1>2. \A q \in Names : Children(h, "is_a", q) \subseteq Children(g, "is_a", q)
  BY <1>1 DEF Children, Relations
<1>3. Converged(h)
  BY <1>1, <1>2 DEF GInv, Converged
<1>4. Keeps(g, h)
  BY <1>1 DEF Keeps
<1> QED BY <1>1, <1>3, <1>4 DEF GInv, h

(* An edge that the checks under the lock allow.                           *)
LEMMA LinkedOK ==
  ASSUME NEW g, GInv(g), NEW rel \in Relations, NEW c \in Types(g), NEW p \in Types(g),
         NEW others \in SUBSET Types(g), NEW decided \in BOOLEAN,
         Insertable(g, rel, c, p, decided)
  PROVE  /\ GInv(Linked(g, rel, c, p, others, decided))
         /\ Keeps(g, Linked(g, rel, c, p, others, decided))
<1> DEFINE h == SetEdge(g, rel, c, p, "active")
<1>1. /\ h \in Graph /\ GraphOK(h) /\ h.creator = g.creator
      /\ h.distinct = g.distinct /\ Types(h) = Types(g)
      /\ \A r \in Relations, x, y \in Names :
           h.edge[r][<<x, y>>] =
             IF r = rel /\ x = c /\ y = p THEN "active" ELSE g.edge[r][<<x, y>>]
  BY SetEdgeFields
<1>2. g.edge[rel][<<c, p>>] = "none" /\ c \in Names /\ p \in Names
  BY DEF Insertable, Types
<1> HIDE DEF h
<1>3. Keeps(g, h)
  BY <1>1, <1>2 DEF Keeps
<1>4. \A q \in Names :
        Children(h, "is_a", q) = Children(g, "is_a", q)
                                   \cup (IF rel = "is_a" /\ q = p THEN {c} ELSE {})
  BY <1>1, <1>2 DEF Children, Relations
<1>5. CASE Placing(rel)
  <2> DEFINE k == [h EXCEPT !.distinct = Decided(g, c, p, decided)]
  <2>1. Decided(g, c, p, decided) \in SUBSET (Names \X Names)
        /\ g.distinct \subseteq Decided(g, c, p, decided)
    BY <1>2 DEF Decided, GInv, GraphOK, Graph
  <2>2. /\ k \in Graph /\ k.edge = h.edge /\ k.creator = h.creator
        /\ k.alias = h.alias /\ k.distinct = Decided(g, c, p, decided)
        /\ k.rooted = h.rooted
    BY <1>1, <2>1 DEF Graph
  <2>3. Linked(g, rel, c, p, others, decided) = Attached(k, c)
    BY <1>5 DEF Linked, Placing, h
  <2> HIDE DEF k
  <2>4. Types(k) = Types(h)
        /\ \A q \in Names : Children(k, "is_a", q) = Children(h, "is_a", q)
    BY <2>2 DEF Types, Children
  <2>5. GraphOK(k)
    BY <1>1, <2>2, <2>4 DEF GraphOK
  <2>6. ASSUME NEW d \in Children(g, "is_a", p), d # c, g.creator[d] # g.creator[c]
        PROVE  <<c, p>> \in k.distinct
    <3>1. d \in Peers(g, c, p)
      BY <2>6 DEF Peers, Foreign
    <3> QED BY <3>1, <2>2, <1>5 DEF Insertable, Decided
  <2>7. Converged(k)
    BY <1>1, <1>4, <1>5, <2>1, <2>2, <2>4, <2>6 DEF GInv, Converged, Placing
  <2>8. Keeps(h, k)
    BY <2>2, <2>4 DEF Keeps
  <2>9. GInv(Attached(k, c)) /\ Keeps(k, Attached(k, c))
    BY <1>1, <2>4, <2>5, <2>7, AttachedOK DEF GInv
  <2> QED BY <1>3, <2>3, <2>8, <2>9, KeepsTrans
<1>6. CASE rel = "belongs_to"
  <2> DEFINE row == [e \in Names \X Names |->
                       IF e \in {c} \X others THEN "retired" ELSE h.edge[rel][e]]
  <2> DEFINE k == [h EXCEPT !.edge = [h.edge EXCEPT ![rel] = row]]
  <2>1. Linked(g, rel, c, p, others, decided) = k
    BY <1>1, <1>6 DEF Linked, Placing, h, Graph
  <2>2. h.edge \in [Relations -> [Names \X Names -> {"none", "active", "retired"}]]
    BY <1>1 DEF Graph
  <2>3. row \in [Names \X Names -> {"none", "active", "retired"}]
    BY <2>2
  <2>4. /\ k \in Graph /\ k.creator = h.creator /\ k.alias = h.alias
        /\ k.rooted = h.rooted
        /\ k.distinct = h.distinct /\ k.edge = [h.edge EXCEPT ![rel] = row]
    BY <1>1, <2>2, <2>3 DEF Graph
  <2>5. ASSUME NEW r \in Relations, NEW x \in Names, NEW y \in Names
        PROVE  k.edge[r][<<x, y>>] = IF r = rel /\ x = c /\ y \in others
                                       THEN "retired" ELSE h.edge[r][<<x, y>>]
    BY <2>2, <2>4
  <2> HIDE DEF k, row
  <2>6. Types(k) = Types(h)
    BY <2>4 DEF Types
  <2>7. GraphOK(k)
    BY <1>1, <2>4, <2>5, <2>6 DEF GraphOK
  <2>8. \A q \in Names : Children(k, "is_a", q) = Children(g, "is_a", q)
    BY <1>4, <1>6, <2>5 DEF Children, Relations
  <2>9. Converged(k)
    BY <1>1, <2>4, <2>8 DEF GInv, Converged
  <2>10. Keeps(h, k)
    BY <2>5, <2>6 DEF Keeps
  <2> QED BY <1>3, <2>1, <2>7, <2>9, <2>10, KeepsTrans DEF GInv
<1>7. CASE ~Placing(rel) /\ rel # "belongs_to"
  <2>1. Linked(g, rel, c, p, others, decided) = h
    BY <1>7 DEF Linked, h
  <2>2. Converged(h)
    BY <1>1, <1>4, <1>7 DEF GInv, Converged, Placing
  <2> QED BY <1>1, <1>3, <2>1, <2>2 DEF GInv
<1> QED BY <1>5, <1>6, <1>7

-----------------------------------------------------------------------------
(* A term of a hierarchy, and its edge.                                    *)
LEMMA ResolveOK ==
  ASSUME NEW g, GInv(g), NEW n \in Names, Resolve(g, n) # NoName
  PROVE  Resolve(g, n) \in Types(g)
BY DEF GInv, GraphOK, Resolve, Types

LEMMA PlacedOK ==
  ASSUME NEW g, GInv(g), NEW n \in Names, NEW a \in Actors,
         NEW siblings \in SUBSET Types(g), NEW r \in Placed(g, n, a, siblings)
  PROVE  GInv(r.g) /\ Keeps(g, r.g) /\ r.type \in Types(r.g)
<1>1. CASE Resolve(g, n) # NoName
  <2> DEFINE t == Resolve(g, n)
  <2>1. r = [g |-> IF typed THEN Attached(g, t) ELSE g, type |-> t]
    BY <1>1 DEF Placed
  <2>2. t \in Types(g)
    BY <1>1, ResolveOK
  <2>3. GInv(Attached(g, t)) /\ Keeps(g, Attached(g, t))
    BY <2>2, AttachedOK
  <2>4. Keeps(g, g)
    BY DEF Keeps
  <2> HIDE DEF t
  <2> QED BY <2>1, <2>2, <2>3, <2>4 DEF Keeps
<1>2. CASE Resolve(g, n) = NoName
  <2>1. n \notin Types(g)
    BY <1>2, TaxonomyAssumption DEF Resolve, Types
  <2>2. CASE r = [g |-> Created(g, n, a), type |-> n]
    BY <2>1, <2>2, CreatedOK
  <2>3. ASSUME NEW t \in siblings, r = [g |-> Aliased(g, n, t), type |-> t]
        PROVE  GInv(r.g) /\ Keeps(g, r.g) /\ r.type \in Types(r.g)
    BY <2>3, AliasedOK DEF Keeps
  <2> QED BY <1>2, <2>2, <2>3 DEF Placed
<1> QED BY <1>1, <1>2

LEMMA LinkOK ==
  ASSUME NEW g, GInv(g), NEW rel \in Relations, NEW c \in Types(g), NEW p \in Types(g),
         NEW decided \in BOOLEAN, NEW h \in Link(g, rel, c, p, decided)
  PROVE  GInv(h) /\ Keeps(g, h)
<1>1. CASE h = g
  BY <1>1 DEF Keeps
<1>2. CASE /\ h = Linked(g, rel, c, p, Parents(g, rel, c), decided)
           /\ Insertable(g, rel, c, p, decided)
  <2>1. Parents(g, rel, c) \in SUBSET Types(g)
    BY DEF Parents, GInv, GraphOK, Types
  <2> QED BY <1>2, <2>1, LinkedOK
<1> QED BY <1>1, <1>2 DEF Link

LEMMA ChildrenTypes ==
  ASSUME NEW g, GInv(g), NEW rel \in Relations, NEW p \in Types(g)
  PROVE  Children(g, rel, p) \in SUBSET Types(g)
BY DEF Children, GInv, GraphOK, Types

LEMMA HierarchyOK ==
  ASSUME GInv(graph), Hierarchy
  PROVE  GInv(graph') /\ Keeps(graph, graph')
<1>1. ASSUME NEW a \in Actors, NEW n \in Names, HierarchyOfOne(a, n)
      PROVE  GInv(graph') /\ Keeps(graph, graph')
  <2>1. graph.rooted \in SUBSET Types(graph)
    BY DEF GInv, GraphOK
  <2> QED BY <1>1, <2>1, PlacedOK DEF HierarchyOfOne
<1>2. ASSUME NEW a \in Actors, NEW m \in Names, NEW n \in Names,
             HierarchyOfTwo(a, m, n)
      PROVE  GInv(graph') /\ Keeps(graph, graph')
  <2>1. graph.rooted \in SUBSET Types(graph) /\ Taxonomic \in Relations
    BY DEF GInv, GraphOK, Taxonomic, Relations
  <2>2. PICK r \in Placed(graph, m, a, graph.rooted) :
          \E s \in Placed(r.g, n, a, Children(r.g, Taxonomic, r.type)) :
            \E decided \in BOOLEAN :
              graph' \in Link(s.g, Taxonomic, s.type, r.type, decided)
    BY <1>2 DEF HierarchyOfTwo
  <2>3. GInv(r.g) /\ Keeps(graph, r.g) /\ r.type \in Types(r.g)
    BY <2>1, PlacedOK
  <2>4. PICK s \in Placed(r.g, n, a, Children(r.g, Taxonomic, r.type)) :
          \E decided \in BOOLEAN :
            graph' \in Link(s.g, Taxonomic, s.type, r.type, decided)
    BY <2>2
  <2>5. Children(r.g, Taxonomic, r.type) \in SUBSET Types(r.g)
    BY <2>1, <2>3, ChildrenTypes
  <2>6. GInv(s.g) /\ Keeps(r.g, s.g) /\ s.type \in Types(s.g)
    BY <2>3, <2>5, PlacedOK
  <2>7. r.type \in Types(s.g)
    BY <2>3, <2>6 DEF Keeps
  <2>8. GInv(graph') /\ Keeps(s.g, graph')
    BY <2>1, <2>4, <2>6, <2>7, LinkOK
  <2> QED BY <2>3, <2>6, <2>8, KeepsTrans
<1> QED BY <1>1, <1>2 DEF Hierarchy

-----------------------------------------------------------------------------
(* The fields of a request in flight.                                      *)
LEMMA InFlight ==
  ASSUME IInv, NEW w \in Workers, flight[w].op \in {"relate", "retire"}
  PROVE  /\ flight[w].rel \in Relations
         /\ flight[w].child \in Types(graph) /\ flight[w].parent \in Types(graph)
         /\ flight[w].others \in SUBSET Types(graph)
         /\ flight[w].op = "relate" => flight[w].decided \in BOOLEAN
<1>1. flight[w] \in Request /\ ~Free(w)
  BY DEF IInv, Idle, Free
<1>2. /\ flight[w].rel \in Relations
      /\ flight[w].op = "relate" => flight[w].decided \in BOOLEAN
  BY <1>1 DEF Request
<1>3. {flight[w].child, flight[w].parent} \cup flight[w].others \subseteq Types(graph)
  BY <1>1 DEF IInv, FlightOK
<1> QED BY <1>2, <1>3

(* Every step keeps the graph's invariant, and the graph.                  *)
LEMMA GraphStep ==
  ASSUME IInv, [Next]_vars
  PROVE  GInv(graph') /\ Keeps(graph, graph')
<1> USE DEF IInv
<1>1. CASE UNCHANGED graph
  BY <1>1 DEF Keeps
<1>2. CASE Hierarchy
  BY <1>2, HierarchyOK
<1>3. CASE RegisterAlias
  BY <1>3, AliasedOK DEF RegisterAlias
<1>4. CASE DirectWrite
  <2>1. {} \in SUBSET Types(graph)
    OBVIOUS
  <2> QED BY <1>4, <2>1, PlacedOK DEF DirectWrite
<1>5. ASSUME NEW w \in Workers, CommitRelate(w)
      PROVE  GInv(graph') /\ Keeps(graph, graph')
  <2> DEFINE r == flight[w]
  <2>1. r.op = "relate"
    BY <1>5 DEF CommitRelate
  <2>2. CASE graph' = graph
    BY <2>2, <1>1
  <2>3. CASE /\ Insertable(graph, r.rel, r.child, r.parent, r.decided)
             /\ graph' = Linked(graph, r.rel, r.child, r.parent, r.others, r.decided)
    BY <2>1, <2>3, InFlight, LinkedOK
  <2> QED BY <1>5, <2>2, <2>3 DEF CommitRelate
<1>6. ASSUME NEW w \in Workers, CommitRetire(w)
      PROVE  GInv(graph') /\ Keeps(graph, graph')
  <2> DEFINE r == flight[w]
  <2> DEFINE g == SetEdge(graph, r.rel, r.child, r.parent, "retired")
  <2>1. /\ r.op = "retire" /\ r.rel \in Relations
        /\ r.child \in Types(graph) /\ r.parent \in Types(graph)
    BY <1>6, InFlight DEF CommitRetire
  <2>2. GInv(g) /\ Keeps(graph, g) /\ r.child \in Types(g)
    <3>1. GInv(g) /\ Keeps(graph, g)
      BY <2>1, RetiredOK
    <3> QED BY <2>1, <3>1 DEF Keeps
  <2>3. \E roots \in SUBSET Types(g) : graph' = [g EXCEPT !.rooted = roots]
    <3>1. graph' = IF ~Placing(r.rel) THEN g
                   ELSE [g EXCEPT !.rooted = IF r.others = {} THEN @ \cup {r.child}
                                             ELSE @ \ {r.child}]
      BY <1>6 DEF CommitRetire
    <3>2. g.rooted \in SUBSET Types(g) /\ g = [g EXCEPT !.rooted = g.rooted]
      BY <2>2 DEF GInv, GraphOK, Graph
    <3> HIDE DEF g, r
    <3>3. CASE ~Placing(r.rel)
      BY <3>1, <3>2, <3>3
    <3>4. CASE Placing(r.rel) /\ r.others = {}
      BY <2>2, <3>1, <3>2, <3>4
    <3>5. CASE Placing(r.rel) /\ r.others # {}
      BY <2>2, <3>1, <3>2, <3>5
    <3> QED BY <3>3, <3>4, <3>5
  <2>4. PICK roots \in SUBSET Types(g) : graph' = [g EXCEPT !.rooted = roots]
    BY <2>3
  <2> HIDE DEF g
  <2>5. /\ graph' \in Graph /\ graph'.edge = g.edge /\ graph'.alias = g.alias
        /\ graph'.creator = g.creator /\ graph'.distinct = g.distinct
        /\ graph'.rooted = roots
    BY <2>2, <2>4 DEF GInv, GraphOK, Graph, Types
  <2>6. Types(graph') = Types(g)
        /\ \A q : Children(graph', "is_a", q) = Children(g, "is_a", q)
    BY <2>5 DEF Types, Children
  <2> QED BY <2>2, <2>5, <2>6 DEF GInv, GraphOK, Converged, Keeps
<1>7. ASSUME NEW w \in Workers, BeginRelate(w) \/ BeginRetire(w) \/ Abort(w)
      PROVE  UNCHANGED graph
  BY <1>7 DEF BeginRelate, BeginRetire, Enter, Abort
<1>8. CASE UNCHANGED vars
  BY <1>1, <1>8 DEF vars
<1> QED BY <1>1, <1>2, <1>3, <1>4, <1>5, <1>6, <1>7, <1>8 DEF Next

(* A request enters about types, and is not changed before it leaves.      *)
LEMMA FlightStep ==
  ASSUME IInv, [Next]_vars
  PROVE  flight' \in [Workers -> Request \cup {Idle}] /\ FlightOK'
<1>1. flight \in [Workers -> Request \cup {Idle}] /\ Keeps(graph, graph')
  BY GraphStep DEF IInv
<1>2. CASE UNCHANGED flight
  BY <1>1, <1>2 DEF IInv, FlightOK, Free, Keeps
<1>3. ASSUME NEW w \in Workers, Leave(w)
      PROVE  flight' \in [Workers -> Request \cup {Idle}] /\ FlightOK'
  BY <1>1, <1>3 DEF IInv, FlightOK, Free, Keeps, Leave
<1>4. ASSUME NEW w \in Workers, NEW r \in Request,
             {r.child, r.parent} \cup r.others \subseteq Types(graph), Enter(w, r)
      PROVE  flight' \in [Workers -> Request \cup {Idle}] /\ FlightOK'
  BY <1>1, <1>4 DEF IInv, FlightOK, Free, Keeps, Enter
<1>5. ASSUME NEW w \in Workers, BeginRelate(w)
      PROVE  flight' \in [Workers -> Request \cup {Idle}] /\ FlightOK'
  <2>1. PICK rel \in Supported, c \in Types(graph), p \in Types(graph),
             decided \in BOOLEAN :
          Enter(w, [op |-> "relate", rel |-> rel, child |-> c, parent |-> p,
                    decided |-> decided, others |-> Parents(graph, rel, c)])
    BY <1>5 DEF BeginRelate
  <2>2. rel \in Relations
    BY TaxonomyAssumption DEF Supported, Relations
  <2>3. Parents(graph, rel, c) \subseteq Types(graph)
    BY <2>2 DEF Parents, IInv, GInv, GraphOK, Types
  <2>4. [op |-> "relate", rel |-> rel, child |-> c, parent |-> p,
         decided |-> decided, others |-> Parents(graph, rel, c)] \in Request
    BY <2>2, <2>3 DEF Request, Types
  <2> QED BY <1>4, <2>1, <2>3, <2>4
<1>6. ASSUME NEW w \in Workers, BeginRetire(w)
      PROVE  flight' \in [Workers -> Request \cup {Idle}] /\ FlightOK'
  <2>1. PICK rel \in Supported, c \in Types(graph), p \in Types(graph) :
          Enter(w, [op |-> "retire", rel |-> rel, child |-> c, parent |-> p,
                    others |-> Parents(graph, rel, c) \ {p}])
    BY <1>6 DEF BeginRetire
  <2>2. rel \in Relations
    BY TaxonomyAssumption DEF Supported, Relations
  <2>3. Parents(graph, rel, c) \ {p} \subseteq Types(graph)
    BY <2>2 DEF Parents, IInv, GInv, GraphOK, Types
  <2>4. [op |-> "retire", rel |-> rel, child |-> c, parent |-> p,
         others |-> Parents(graph, rel, c) \ {p}] \in Request
    BY <2>2, <2>3 DEF Request, Types
  <2> QED BY <1>4, <2>1, <2>3, <2>4
<1>7. \/ UNCHANGED flight
      \/ \E w \in Workers : Leave(w) \/ BeginRelate(w) \/ BeginRetire(w)
  BY DEF Next, Hierarchy, RegisterAlias, DirectWrite, CommitRelate,
         CommitRetire, Abort, vars
<1> QED BY <1>2, <1>3, <1>5, <1>6, <1>7

LEMMA InvInit == Init => IInv
<1> SUFFICES ASSUME Init PROVE IInv
  OBVIOUS
<1>1. GraphOK(Empty)
  <2>1. Types(Empty) = {}
    BY DEF Types, Empty
  <2>2. Empty \in Graph
    BY DEF Empty, Graph
  <2> QED BY <2>1, <2>2 DEF Empty, GraphOK
<1>2. Converged(Empty)
  <2>1. \A p \in Names : Children(Empty, "is_a", p) = {}
    BY DEF Children, Empty, Relations
  <2> QED BY <2>1 DEF Converged
<1>3. FlightOK
  BY DEF Init, FlightOK, Free
<1> QED BY <1>1, <1>2, <1>3 DEF Init, IInv, GInv

(* The modes are the deployment's.                                        *)
LEMMA ModesFixed == [Next]_vars => UNCHANGED <<typed, threaded>>
<1>1. ASSUME NEW w \in Workers, BeginRelate(w) \/ BeginRetire(w)
      PROVE  UNCHANGED <<typed, threaded>>
  BY <1>1 DEF BeginRelate, BeginRetire, Enter
<1>2. ASSUME NEW w \in Workers, CommitRelate(w) \/ CommitRetire(w) \/ Abort(w)
      PROVE  UNCHANGED <<typed, threaded>>
  BY <1>2 DEF CommitRelate, CommitRetire, Abort, Leave
<1>3. CASE Hierarchy \/ RegisterAlias \/ DirectWrite \/ UNCHANGED vars
  BY <1>3 DEF Hierarchy, RegisterAlias, DirectWrite, vars
<1> QED BY <1>1, <1>2, <1>3 DEF Next

LEMMA InvStep == IInv /\ [Next]_vars => IInv'
<1> SUFFICES ASSUME IInv, [Next]_vars PROVE IInv'
  OBVIOUS
<1>1. UNCHANGED <<typed, threaded>>
  BY ModesFixed
<1>2. GInv(graph)'
  BY <1>1, GraphStep DEF GInv, GraphOK, Converged, Types, Children
<1> QED BY <1>1, <1>2, FlightStep DEF IInv

(* The tables are well-typed: rows relate types, aliases stand for types,  *)
(* whatever requests were in flight.                                       *)
THEOREM TypeCorrect == Spec => []TypeOK
<1>1. IInv => TypeOK
  BY DEF IInv, GInv, GraphOK, TypeOK, Rows
<1> QED BY InvInit, InvStep, <1>1, PTL DEF Spec

(* Children of different clients below one type have converged by a        *)
(* decision: because the peers are read under the lock on the parent, for  *)
(* any number of requests in flight.                                       *)
THEOREM PeersDecided == Spec => []PeersConverge
<1>1. IInv => PeersConverge
  BY DEF IInv, GInv, Converged, PeersConverge
<1> QED BY InvInit, InvStep, <1>1, PTL DEF Spec

(* A retired edge is never active again, whatever a request in flight saw  *)
(* when it made its checks.                                                *)
THEOREM RetiredForGood == Spec => TombstonesStay
<1>1. IInv /\ [Next]_vars =>
        [\A e \in Rows(graph) :
           graph.edge[e[1]][<<e[2], e[3]>>] = "retired" =>
             graph'.edge[e[1]][<<e[2], e[3]>>] = "retired"]_vars
  BY GraphStep DEF Rows, Keeps
<1> QED BY InvInit, InvStep, <1>1, PTL DEF Spec, TombstonesStay

-----------------------------------------------------------------------------
(* Induction over the numbers, as a fact about sets of them, and what it   *)
(* says of the recursive function that ancestors are defined by.           *)

(* A set of natural numbers that holds 0 and each successor holds all.     *)
LEMMA NatSet ==
  ASSUME NEW S, 0 \in S, \A n \in Nat : n \in S => n + 1 \in S
  PROVE  Nat \subseteq S
<1> SUFFICES ASSUME Nat \ S # {} PROVE FALSE
  OBVIOUS
<1>1. PICK m \in Nat \ S : \A n \in Nat \ S : <<n, m>> \notin OpToRel(<, Nat)
  BY NatLessThanWellFounded, WFMin
<1>2. m - 1 \in Nat /\ (m - 1) + 1 = m
  <2>1. m \in Nat /\ m # 0
    OBVIOUS
  <2> QED BY <2>1
<1>3. m - 1 \in Nat \ S
  BY <1>2
<1>4. <<m - 1, m>> \in Nat \X Nat /\ m - 1 < m
  BY <1>2
<1> QED BY <1>1, <1>3, <1>4 DEF OpToRel

(* f is D iterated on x, n times: what a recursive definition solves.      *)
Iterate(f, X, D, x, n) ==
  f \in [0..n -> X] /\ f[0] = x /\ \A k \in 1..n : f[k] = D[f[k - 1]]

LEMMA Iterates ==
  ASSUME NEW X, NEW D \in [X -> X], NEW x \in X, NEW N \in Nat
  PROVE  \E f : Iterate(f, X, D, x, N)
<1> DEFINE S == {n \in Nat : \E f : Iterate(f, X, D, x, n)}
<1>1. 0 \in S
  <2> DEFINE f == [k \in 0..0 |-> x]
  <2>1. f \in [0..0 -> X] /\ f[0] = x /\ 1..0 = {}
    OBVIOUS
  <2> HIDE DEF f
  <2>2. Iterate(f, X, D, x, 0)
    BY <2>1 DEF Iterate
  <2> QED BY <2>2
<1>2. ASSUME NEW n \in Nat, n \in S PROVE n + 1 \in S
  <2>1. PICK f : Iterate(f, X, D, x, n)
    BY <1>2
  <2> DEFINE g == [k \in 0..n + 1 |-> IF k = n + 1 THEN D[f[n]] ELSE f[k]]
  <2>2. g \in [0..n + 1 -> X]
    BY <2>1 DEF Iterate
  <2>3. g[0] = x
    BY <2>1 DEF Iterate
  <2>4. ASSUME NEW k \in 1..n + 1 PROVE g[k] = D[g[k - 1]]
    <3>1. CASE k = n + 1
      BY <3>1
    <3>2. CASE k # n + 1
      BY <2>1, <3>2 DEF Iterate
    <3> QED BY <3>1, <3>2
  <2> HIDE DEF g
  <2>5. Iterate(g, X, D, x, n + 1)
    BY <2>2, <2>3, <2>4 DEF Iterate
  <2> QED BY <2>5
<1> HIDE DEF S
<1>3. Nat \subseteq S
  BY <1>1, <1>2, NatSet
<1> QED BY <1>3 DEF S

(* One step up, for all sets of names.                                     *)
Up(g, rel) ==
  [A \in SUBSET Names |-> A \cup UNION {Parents(g, rel, s) : s \in A}]

Closed(g, rel, A) == \A s \in A : Parents(g, rel, s) \subseteq A

LEMMA UpType ==
  ASSUME NEW g, NEW rel
  PROVE  Up(g, rel) \in [SUBSET Names -> SUBSET Names]
BY DEF Up, Parents

(* The recursive function that Ancestors is defined by.                    *)
LEMMA UpFunction ==
  ASSUME NEW g, NEW rel, NEW t \in Names
  PROVE  \E up : /\ Iterate(up, SUBSET Names, Up(g, rel), {t}, Cardinality(Names))
                /\ Ancestors(g, rel, t) = up[Cardinality(Names)]
<1> DEFINE N == Cardinality(Names)
           Solves(f) == f = [k \in 0..N |-> IF k = 0 THEN {t}
                               ELSE f[k - 1] \cup UNION {Parents(g, rel, s) : s \in f[k - 1]}]
<1>1. N \in Nat
  BY FS_CardinalityType, TaxonomyAssumption
<1> HIDE DEF N
<1>2. PICK f : Iterate(f, SUBSET Names, Up(g, rel), {t}, N)
  <2>1. {t} \in SUBSET Names
    OBVIOUS
  <2> QED BY <1>1, <2>1, UpType, Iterates
<1>3. ASSUME NEW k \in 1..N
      PROVE  f[k] = f[k - 1] \cup UNION {Parents(g, rel, s) : s \in f[k - 1]}
  <2>1. k - 1 \in 0..N
    BY <1>1
  <2>2. f[k - 1] \in SUBSET Names
    BY <1>2, <2>1 DEF Iterate
  <2> QED BY <1>2, <2>2 DEF Up, Iterate
<1>4. Solves(f)
  BY <1>1, <1>2, <1>3 DEF Iterate
<1> DEFINE up == CHOOSE h : Solves(h)
<1>5. Solves(up)
  <2> HIDE DEF Solves
  <2> QED BY <1>4
<1>6. Ancestors(g, rel, t) = up[N]
  BY DEF Ancestors, N
<1> HIDE DEF up
<1>7. /\ DOMAIN up = 0..N /\ up[0] = {t}
      /\ \A k \in 1..N : up[k] = up[k - 1] \cup UNION {Parents(g, rel, s) : s \in up[k - 1]}
  <2>1. \A k \in 1..N : k \in 0..N /\ k # 0
    BY <1>1
  <2>2. 0 \in 0..N
    BY <1>1
  <2> QED BY <1>5, <2>1, <2>2
<1> HIDE DEF Solves
<1> DEFINE S == {n \in Nat : n \in 0..N => up[n] \in SUBSET Names}
<1>8. 0 \in S
  BY <1>7
<1>9. ASSUME NEW n \in Nat, n \in S PROVE n + 1 \in S
  <2>1. n + 1 \in 0..N => n \in 0..N /\ n + 1 \in 1..N /\ (n + 1) - 1 = n
    BY <1>1
  <2>2. n + 1 \in 0..N => up[n + 1] = up[n] \cup UNION {Parents(g, rel, s) : s \in up[n]}
    BY <1>7, <2>1
  <2>3. \A A \in SUBSET Names :
          A \cup UNION {Parents(g, rel, s) : s \in A} \in SUBSET Names
    BY DEF Parents
  <2> QED BY <1>9, <2>1, <2>2, <2>3
<1> HIDE DEF S
<1>10. Nat \subseteq S
  BY <1>8, <1>9, NatSet
<1>11. \A k \in 0..N : up[k] \in SUBSET Names
  BY <1>1, <1>10 DEF S
<1>12. \A k \in 1..N : up[k] = Up(g, rel)[up[k - 1]]
  <2>1. \A k \in 1..N : k - 1 \in 0..N
    BY <1>1
  <2> QED BY <1>7, <1>11, <2>1 DEF Up
<1>13. up \in [0..N -> SUBSET Names]
  <2>1. up = [k \in 0..N |-> up[k]]
    BY <1>5 DEF Solves
  <2> QED BY <1>11, <2>1
<1> QED BY <1>6, <1>7, <1>12, <1>13 DEF N, Iterate

(* Ancestors is the least set of names that holds t and with a name its    *)
(* parents: there are not more steps up than names.                        *)
LEMMA AncestorsLeast ==
  ASSUME NEW g, NEW rel, NEW t \in Names
  PROVE  /\ t \in Ancestors(g, rel, t) /\ Ancestors(g, rel, t) \subseteq Names
         /\ Closed(g, rel, Ancestors(g, rel, t))
         /\ \A A : t \in A /\ Closed(g, rel, A) => Ancestors(g, rel, t) \subseteq A
<1> DEFINE N == Cardinality(Names)
<1>1. N \in Nat /\ IsFiniteSet(Names)
  BY FS_CardinalityType, TaxonomyAssumption
<1>2. PICK up : /\ Iterate(up, SUBSET Names, Up(g, rel), {t}, N)
                /\ Ancestors(g, rel, t) = up[N]
  BY UpFunction
<1>3. \A k \in 0..N : IsFiniteSet(up[k]) /\ Cardinality(up[k]) \in Nat /\ Cardinality(up[k]) <= N
  <2>1. \A k \in 0..N : up[k] \in SUBSET Names
    BY <1>2 DEF Iterate
  <2> QED BY <1>1, <2>1, FS_Subset, FS_CardinalityType
<1> HIDE DEF N
<1>4. ASSUME NEW n \in Nat, n + 1 \in 0..N
      PROVE  /\ n \in 0..N /\ up[n] \in SUBSET Names /\ up[n + 1] \in SUBSET Names
             /\ up[n + 1] = up[n] \cup UNION {Parents(g, rel, s) : s \in up[n]}
  <2>1. n \in 0..N /\ n + 1 \in 1..N /\ (n + 1) - 1 = n
    BY <1>1, <1>4
  <2>2. up[n] \in SUBSET Names /\ up[n + 1] \in SUBSET Names
    BY <1>2, <1>4, <2>1 DEF Iterate
  <2>3. up[n + 1] = Up(g, rel)[up[n]]
    BY <1>2, <2>1 DEF Iterate
  <2> QED BY <2>1, <2>2, <2>3 DEF Up
<1>5. Closed(g, rel, up[N])
  <2> DEFINE S == {n \in Nat : n \in 0..N =>
                     Closed(g, rel, up[n]) \/ Cardinality(up[n]) >= n + 1}
  <2>1. 0 \in S
    <3>1. Cardinality({t}) = 1
      BY FS_Singleton
    <3>2. Cardinality(up[0]) = 1
      BY <1>2, <3>1 DEF Iterate
    <3> QED BY <3>2
  <2>2. ASSUME NEW n \in Nat, n \in S PROVE n + 1 \in S
    <3> SUFFICES ASSUME n + 1 \in 0..N
                 PROVE  Closed(g, rel, up[n + 1]) \/ Cardinality(up[n + 1]) >= (n + 1) + 1
      OBVIOUS
    <3>1. /\ n \in 0..N /\ up[n] \subseteq up[n + 1]
          /\ up[n + 1] = up[n] \cup UNION {Parents(g, rel, s) : s \in up[n]}
      BY <1>4
    <3>2. CASE Closed(g, rel, up[n])
      <4>1. up[n + 1] = up[n]
        BY <3>1, <3>2 DEF Closed
      <4> QED BY <3>2, <4>1
    <3>3. CASE ~Closed(g, rel, up[n])
      <4>1. up[n + 1] # up[n]
        BY <3>1, <3>3 DEF Closed
      <4>2. Cardinality(up[n]) # Cardinality(up[n + 1]) /\ Cardinality(up[n]) <= Cardinality(up[n + 1])
        BY <1>3, <3>1, <4>1, FS_Subset
      <4>3. Cardinality(up[n]) >= n + 1
        BY <2>2, <3>1, <3>3
      <4>4. Cardinality(up[n]) \in Nat /\ Cardinality(up[n + 1]) \in Nat
        BY <1>3, <3>1
      <4> QED BY <4>2, <4>3, <4>4
    <3> QED BY <3>2, <3>3
  <2> HIDE DEF S
  <2>3. N \in S
    BY <1>1, <2>1, <2>2, NatSet
  <2> QED BY <1>1, <1>3, <2>3 DEF S
<1>6. t \in up[N]
  <2> DEFINE S == {n \in Nat : n \in 0..N => t \in up[n]}
  <2>1. 0 \in S
    BY <1>2 DEF Iterate
  <2>2. ASSUME NEW n \in Nat, n \in S PROVE n + 1 \in S
    BY <1>4, <2>2
  <2> HIDE DEF S
  <2>3. N \in S
    BY <1>1, <2>1, <2>2, NatSet
  <2> QED BY <1>1, <2>3 DEF S
<1>7. ASSUME NEW A, t \in A, Closed(g, rel, A) PROVE up[N] \subseteq A
  <2> DEFINE S == {n \in Nat : n \in 0..N => up[n] \subseteq A}
  <2>1. 0 \in S
    BY <1>2, <1>7 DEF Iterate
  <2>2. ASSUME NEW n \in Nat, n \in S PROVE n + 1 \in S
    BY <1>4, <1>7, <2>2 DEF Closed
  <2> HIDE DEF S
  <2>3. N \in S
    BY <1>1, <2>1, <2>2, NatSet
  <2> QED BY <1>1, <2>3 DEF S
<1>8. up[N] \subseteq Names
  BY <1>1, <1>2 DEF Iterate
<1> QED BY <1>2, <1>5, <1>6, <1>7, <1>8

(* The edges of g of the relationships the mode checks are free of cycles. *)
Tree(g) ==
  \A rel \in CycleChecked, t \in Names : \A p \in Parents(g, rel, t) :
    t \notin Ancestors(g, rel, p)

(* An edge that the check allows makes no cycle, and to take edges away    *)
(* makes none.                                                             *)
LEMMA EdgeAdded ==
  ASSUME NEW g, NEW h, NEW rel \in Relations, NEW c \in Names, NEW p \in Names,
         Tree(g), rel \in CycleChecked => c \notin Ancestors(g, rel, p),
         \A r \in Relations, t \in Names :
           Parents(h, r, t) \subseteq Parents(g, r, t) \cup (IF r = rel /\ t = c THEN {p} ELSE {})
  PROVE  Tree(h)
<1> SUFFICES ASSUME NEW r \in CycleChecked, NEW t \in Names, NEW q \in Parents(h, r, t)
             PROVE  t \notin Ancestors(h, r, q)
  BY DEF Tree
<1>1. q \in Names /\ r \in Relations
  BY DEF Parents, CycleChecked, Relations
<1>2. ASSUME NEW A, A \subseteq Names, Closed(g, r, A), r = rel /\ c \in A => p \in A, q \in A, t \notin A
      PROVE  t \notin Ancestors(h, r, q)
  <2>1. Closed(h, r, A)
    BY <1>1, <1>2 DEF Closed
  <2> QED BY <1>1, <1>2, <2>1, AncestorsLeast
<1> DEFINE P == Ancestors(g, rel, p)
           Q == Ancestors(g, r, q)
<1>3. /\ p \in P /\ P \subseteq Names /\ Closed(g, rel, P) /\ (rel = r => c \notin P)
      /\ q \in Q /\ Q \subseteq Names /\ Closed(g, r, Q)
      /\ \A A : q \in A /\ Closed(g, r, A) => Q \subseteq A
  BY <1>1, AncestorsLeast
<1> HIDE DEF P, Q
<1>4. CASE q \in Parents(g, r, t)
  <2>1. t \notin Q
    BY <1>4 DEF Tree, Q
  <2>2. CASE r # rel \/ c \notin Q
    BY <1>2, <1>3, <2>1, <2>2
  <2>3. CASE r = rel /\ c \in Q
    <3>1. t \notin P
      BY <1>3, <1>4, <2>3 DEF Closed
    <3>2. Closed(g, r, P \cup Q)
      BY <1>3, <2>3 DEF Closed
    <3> QED BY <1>2, <1>3, <2>1, <3>1, <3>2
  <2> QED BY <2>2, <2>3
<1>5. CASE q \notin Parents(g, r, t)
  <2>1. r = rel /\ t = c /\ q = p
    BY <1>1, <1>5
  <2> QED BY <1>2, <1>3, <2>1
<1> QED BY <1>4, <1>5

(* Fewer edges make no cycle.                                              *)
LEMMA FewerEdges ==
  ASSUME NEW g, NEW h, Tree(g),
         \A r \in Relations, t \in Names : Parents(h, r, t) \subseteq Parents(g, r, t)
  PROVE  Tree(h)
<1> SUFFICES ASSUME NEW r \in CycleChecked, NEW t \in Names, NEW q \in Parents(h, r, t)
             PROVE  t \notin Ancestors(h, r, q)
  BY DEF Tree
<1>1. q \in Names /\ q \in Parents(g, r, t) /\ r \in Relations
  BY DEF Parents, CycleChecked, Relations
<1>2. t \notin Ancestors(g, r, q)
  BY <1>1 DEF Tree
<1>3. /\ q \in Ancestors(g, r, q) /\ Closed(g, r, Ancestors(g, r, q))
      /\ Ancestors(g, r, q) \subseteq Names
  BY <1>1, AncestorsLeast
<1>4. Closed(h, r, Ancestors(g, r, q))
  BY <1>1, <1>3 DEF Closed
<1> QED BY <1>1, <1>2, <1>3, <1>4, AncestorsLeast

-----------------------------------------------------------------------------
(* What the graph is when requests do not overlap.  In legacy mode a type  *)
(* has one parent, in typed mode it is at the root if it has none.         *)
RootedAt(g, t) == t \in g.rooted <=> Parents(g, "is_a", t) = {}
OnePlace(g, t) == \A p, q \in Parents(g, "belongs_to", t) : p = q

Ordered(g) ==
  /\ Tree(g)
  /\ typed => \A t \in Types(g) : RootedAt(g, t)
  /\ ~typed => \A t \in Names : OnePlace(g, t)

(* From g to h no name changes its meaning.                                *)
KeepsNames(g, h) ==
  \A n \in Names : Resolve(g, n) # NoName => Resolve(h, n) = Resolve(g, n)

LEMMA KeepsNamesTrans ==
  ASSUME NEW g, NEW h, NEW k, KeepsNames(g, h), KeepsNames(h, k)
  PROVE  KeepsNames(g, k)
BY DEF KeepsNames

(* Attached again: only whether t is at the root can change, and then it   *)
(* is right.                                                               *)
LEMMA AttachedOrdered ==
  ASSUME NEW g, g \in Graph, NEW t \in Names, Tree(g),
         typed => \A s \in Types(g) \ {t} : RootedAt(g, s),
         ~typed => \A s \in Names : OnePlace(g, s)
  PROVE  Ordered(Attached(g, t)) /\ KeepsNames(g, Attached(g, t))
<1> DEFINE h == Attached(g, t)
<1>1. /\ h.edge = g.edge /\ h.creator = g.creator /\ h.alias = g.alias
      /\ h.rooted = IF Parents(g, "is_a", t) = {} THEN g.rooted \cup {t} ELSE g.rooted \ {t}
  BY DEF Attached, Graph
<1> HIDE DEF h
<1>2. Types(h) = Types(g)
  BY <1>1 DEF Types
<1>3. \A r, s : Parents(h, r, s) = Parents(g, r, s)
  BY <1>1 DEF Parents
<1>4. Tree(h)
  BY <1>3, FewerEdges
<1>5. typed => \A s \in Types(h) : RootedAt(h, s)
  BY <1>1, <1>2, <1>3 DEF RootedAt
<1>6. ~typed => \A s \in Names : OnePlace(h, s)
  BY <1>3 DEF OnePlace
<1>7. KeepsNames(g, h)
  BY <1>1 DEF KeepsNames, Resolve
<1> QED BY <1>4, <1>5, <1>6, <1>7 DEF Ordered, h

LEMMA AliasedOrdered ==
  ASSUME NEW g, GInv(g), NEW n \in Names, Resolve(g, n) = NoName, NEW t \in Types(g)
  PROVE  /\ KeepsNames(g, Aliased(g, n, t))
         /\ Ordered(g) => Ordered(Aliased(g, n, t))
<1> DEFINE h == Aliased(g, n, t)
<1>1. /\ h.edge = g.edge /\ h.creator = g.creator /\ h.rooted = g.rooted
      /\ h.alias = [g.alias EXCEPT ![n] = t]
  BY DEF GInv, GraphOK, Graph, Aliased
<1>2. g.alias \in [Names -> Names \cup {NoName}]
  BY DEF GInv, GraphOK, Graph
<1> HIDE DEF h
<1>3. Types(h) = Types(g)
  BY <1>1 DEF Types
<1>4. \A r, s : Parents(h, r, s) = Parents(g, r, s)
  BY <1>1 DEF Parents
<1>5. KeepsNames(g, h)
  BY <1>1, <1>2 DEF KeepsNames, Resolve
<1>6. Ordered(g) => Ordered(h)
  BY <1>1, <1>3, <1>4, FewerEdges DEF Ordered, RootedAt, OnePlace
<1> QED BY <1>5, <1>6 DEF h

LEMMA CreatedOrdered ==
  ASSUME NEW g, GInv(g), NEW n \in Names, Resolve(g, n) = NoName, NEW a \in Actors
  PROVE  /\ KeepsNames(g, Created(g, n, a))
         /\ Ordered(g) => Ordered(Created(g, n, a))
<1> DEFINE h == [g EXCEPT !.creator[n] = a]
<1>1. /\ h \in Graph /\ h.edge = g.edge /\ h.alias = g.alias /\ h.rooted = g.rooted
      /\ h.creator = [g.creator EXCEPT ![n] = a]
  BY DEF GInv, GraphOK, Graph
<1>2. Created(g, n, a) = IF typed THEN Attached(h, n) ELSE h
  BY DEF Created
<1> HIDE DEF h
<1>3. g.creator \in [Names -> Actors \cup {Nobody}]
  BY DEF GInv, GraphOK, Graph
<1>4. \A s \in Types(h) \ {n} : s \in Types(g)
  BY <1>1, <1>3 DEF Types
<1>5. \A r, s : Parents(h, r, s) = Parents(g, r, s)
  BY <1>1 DEF Parents
<1>6. KeepsNames(g, h)
  BY <1>1, <1>3 DEF KeepsNames, Resolve
<1>7. h.creator = g.creator /\ h.alias = g.alias => KeepsNames(g, h)
  BY DEF KeepsNames, Resolve
<1>8. KeepsNames(h, Attached(h, n))
  <2>1. /\ Attached(h, n).creator = h.creator /\ Attached(h, n).alias = h.alias
    BY <1>1 DEF Attached, Graph
  <2> QED BY <2>1 DEF KeepsNames, Resolve
<1>9. KeepsNames(g, Created(g, n, a))
  BY <1>2, <1>6, <1>8, KeepsNamesTrans
<1>10. ASSUME Ordered(g) PROVE Ordered(Created(g, n, a))
  <2>1. Tree(h)
    BY <1>5, <1>10, FewerEdges DEF Ordered
  <2>2. ~typed => \A s \in Names : OnePlace(h, s)
    BY <1>5, <1>10 DEF Ordered, OnePlace
  <2>3. typed => \A s \in Types(h) \ {n} : RootedAt(h, s)
    BY <1>1, <1>4, <1>5, <1>10 DEF Ordered, RootedAt
  <2>4. CASE typed
    BY <1>1, <1>2, <2>1, <2>2, <2>3, <2>4, AttachedOrdered
  <2>5. CASE ~typed
    BY <1>2, <2>1, <2>2, <2>5 DEF Ordered
  <2> QED BY <2>4, <2>5
<1> QED BY <1>9, <1>10

-----------------------------------------------------------------------------
(* A graph with the same types and aliases.                                *)
LEMMA SameNames ==
  ASSUME NEW g, NEW h, h.creator = g.creator, h.alias = g.alias
  PROVE  KeepsNames(g, h)
BY DEF KeepsNames, Resolve

LEMMA SetEdgeNames ==
  ASSUME NEW g, g \in Graph, NEW rel \in Relations, NEW c, NEW p, NEW st
  PROVE  /\ SetEdge(g, rel, c, p, st).creator = g.creator
         /\ SetEdge(g, rel, c, p, st).alias = g.alias
         /\ SetEdge(g, rel, c, p, st).rooted = g.rooted
BY DEF SetEdge, Graph

LEMMA LinkedNames ==
  ASSUME NEW g, g \in Graph, NEW rel \in Relations, NEW c, NEW p, NEW others, NEW decided
  PROVE  KeepsNames(g, Linked(g, rel, c, p, others, decided))
<1> DEFINE h == SetEdge(g, rel, c, p, "active")
<1>1. h.creator = g.creator /\ h.alias = g.alias
  BY SetEdgeNames
<1>2. h = [g EXCEPT !.edge = h.edge]
  BY DEF SetEdge, Graph
<1> DEFINE edges == h.edge
<1>3. h = [g EXCEPT !.edge = edges]
  BY <1>2
<1>4. Linked(g, rel, c, p, others, decided) =
        CASE rel = "belongs_to" ->
               [h EXCEPT !.edge[rel] =
                  [e \in Names \X Names |->
                     IF e \in {c} \X others THEN "retired" ELSE @[e]]]
          [] Placing(rel) ->
               Attached([h EXCEPT !.distinct = Decided(g, c, p, decided)], c)
          [] OTHER -> h
  BY DEF Linked
<1> DEFINE k == Linked(g, rel, c, p, others, decided)
<1> HIDE DEF h, edges, k
<1>5. k.creator = h.creator /\ k.alias = h.alias
  <2>1. CASE rel = "belongs_to"
    BY <1>3, <1>4, <2>1 DEF k, Graph, Placing
  <2>2. CASE Placing(rel)
    BY <1>3, <1>4, <2>2 DEF k, Graph, Attached, Placing
  <2>3. CASE rel # "belongs_to" /\ ~Placing(rel)
    BY <1>4, <2>3 DEF k
  <2> QED BY <2>1, <2>2, <2>3
<1> QED BY <1>1, <1>5, SameNames DEF k

(* An edge that is retired.                                                *)
Unlinked(g, rel, c, p, others) ==
  LET h == SetEdge(g, rel, c, p, "retired")
  IN  IF ~Placing(rel) THEN h
      ELSE [h EXCEPT !.rooted = IF others = {} THEN @ \cup {c} ELSE @ \ {c}]

LEMMA UnlinkedOrdered ==
  ASSUME NEW g, GInv(g), NEW rel \in Relations, NEW c \in Types(g), NEW p \in Types(g),
         NEW others
  PROVE  /\ KeepsNames(g, Unlinked(g, rel, c, p, others))
         /\ Ordered(g) /\ others = Parents(g, rel, c) \ {p}
              => Ordered(Unlinked(g, rel, c, p, others))
<1> DEFINE h == SetEdge(g, rel, c, p, "retired")
<1>1. /\ h \in Graph /\ h.creator = g.creator /\ h.alias = g.alias /\ h.rooted = g.rooted
      /\ Types(h) = Types(g)
      /\ \A r \in Relations, x, y \in Names :
              h.edge[r][<<x, y>>] =
                IF r = rel /\ x = c /\ y = p THEN "retired" ELSE g.edge[r][<<x, y>>]
  BY SetEdgeFields, SetEdgeNames DEF GInv, GraphOK
<1>2. Unlinked(g, rel, c, p, others) =
        IF ~Placing(rel) THEN h
        ELSE [h EXCEPT !.rooted = IF others = {} THEN @ \cup {c} ELSE @ \ {c}]
  BY DEF Unlinked
<1> HIDE DEF h
<1>3. KeepsNames(g, Unlinked(g, rel, c, p, others))
  BY <1>1, <1>2, SameNames DEF Graph
<1>4. c \in Names
  BY DEF Types
<1>5. \A r \in Relations, t \in Names :
        Parents(h, r, t) = IF r = rel /\ t = c THEN Parents(g, r, t) \ {p} ELSE Parents(g, r, t)
  BY <1>1 DEF Parents
<1>6. ASSUME Ordered(g), others = Parents(g, rel, c) \ {p}
      PROVE  Ordered(Unlinked(g, rel, c, p, others))
  <2>1. Tree(h)
    BY <1>5, <1>6, FewerEdges DEF Ordered
  <2>2. ~typed => \A t \in Names : OnePlace(h, t)
    BY <1>5, <1>6 DEF Ordered, OnePlace, Relations
  <2>3. CASE Placing(rel)
    <3>1. typed => \A t \in Types(h) \ {c} : RootedAt(h, t)
      <4>1. \A t \in Types(h) \ {c} : Parents(h, "is_a", t) = Parents(g, "is_a", t)
        BY <1>5 DEF Types, Relations
      <4> QED BY <1>1, <1>6, <4>1 DEF Ordered, RootedAt
    <3>2. Parents(h, "is_a", c) = others
      BY <1>4, <1>5, <1>6, <2>3 DEF Placing
    <3>3. Unlinked(g, rel, c, p, others) = Attached(h, c)
      BY <1>2, <2>3, <3>2 DEF Attached
    <3> QED BY <1>1, <1>4, <2>1, <2>2, <3>1, <3>3, AttachedOrdered
  <2>4. CASE ~Placing(rel)
    <3>1. typed => \A t \in Types(h) : RootedAt(h, t)
      <4>1. typed => \A t \in Types(h) : Parents(h, "is_a", t) = Parents(g, "is_a", t)
        BY <1>5, <2>4 DEF Types, Relations, Placing
      <4> QED BY <1>1, <1>6, <4>1 DEF Ordered, RootedAt
    <3> QED BY <1>2, <2>1, <2>2, <2>4, <3>1 DEF Ordered
  <2> QED BY <2>3, <2>4
<1> QED BY <1>3, <1>6

(* An edge that the checks allow, when nothing has changed since.          *)
LEMMA LinkedOrdered ==
  ASSUME NEW g, GInv(g), NEW rel \in Supported, NEW c \in Types(g), NEW p \in Types(g),
         NEW decided \in BOOLEAN, Ordered(g), Relatable(g, rel, c, p),
         g.edge[rel][<<c, p>>] = "none"
  PROVE  Ordered(Linked(g, rel, c, p, Parents(g, rel, c), decided))
<1> DEFINE h == SetEdge(g, rel, c, p, "active")
           others == Parents(g, rel, c)
<1>0. rel \in Relations /\ (rel = "belongs_to" => ~typed) /\ (Placing(rel) => typed /\ rel = "is_a")
  BY TaxonomyAssumption DEF Supported, Relations, Placing
<1>1. /\ h \in Graph /\ h.creator = g.creator /\ h.alias = g.alias /\ h.rooted = g.rooted
      /\ Types(h) = Types(g)
      /\ \A r \in Relations, x, y \in Names :
              h.edge[r][<<x, y>>] =
                IF r = rel /\ x = c /\ y = p THEN "active" ELSE g.edge[r][<<x, y>>]
  BY <1>0, SetEdgeFields, SetEdgeNames DEF GInv, GraphOK
<1>2. Linked(g, rel, c, p, others, decided) =
        CASE rel = "belongs_to" ->
               [h EXCEPT !.edge[rel] =
                  [e \in Names \X Names |->
                     IF e \in {c} \X others THEN "retired" ELSE @[e]]]
          [] Placing(rel) ->
               Attached([h EXCEPT !.distinct = Decided(g, c, p, decided)], c)
          [] OTHER -> h
  BY DEF Linked
<1> HIDE DEF h, others
<1>3. c \in Names /\ p \in Names
  BY DEF Types
<1>4. \A r \in Relations, t \in Names :
        Parents(h, r, t) = Parents(g, r, t) \cup (IF r = rel /\ t = c THEN {p} ELSE {})
  BY <1>1, <1>3 DEF Parents
<1>5. Tree(h)
  <2>1. Tree(g) /\ (rel \in CycleChecked => c \notin Ancestors(g, rel, p))
    BY DEF Ordered, Relatable
  <2> QED BY <1>0, <1>3, <1>4, <2>1, EdgeAdded
<1>6. CASE Placing(rel)
  <2> DEFINE k == [h EXCEPT !.distinct = Decided(g, c, p, decided)]
  <2>1. Decided(g, c, p, decided) \in SUBSET (Names \X Names)
    BY <1>3 DEF Decided, GInv, GraphOK, Graph
  <2>2. /\ k \in Graph /\ k.edge = h.edge /\ k.creator = h.creator
        /\ k.alias = h.alias /\ k.rooted = h.rooted
    BY <1>1, <2>1 DEF Graph
  <2>3. Linked(g, rel, c, p, others, decided) = Attached(k, c)
    BY <1>0, <1>2, <1>6
  <2> HIDE DEF k
  <2>4. \A r, t : Parents(k, r, t) = Parents(h, r, t)
    BY <2>2 DEF Parents
  <2>5. Tree(k)
    BY <1>5, <2>4, FewerEdges
  <2>6. typed
    BY <1>0, <1>6
  <2>7. \A t \in Types(k) \ {c} : RootedAt(k, t)
    <3>1. Types(k) = Types(g)
      BY <1>1, <2>2 DEF Types
    <3>2. \A t \in Types(k) \ {c} : Parents(k, "is_a", t) = Parents(g, "is_a", t)
      BY <1>4, <2>4 DEF Types, Relations
    <3> QED BY <1>1, <2>2, <2>6, <3>1, <3>2 DEF Ordered, RootedAt
  <2> QED BY <1>3, <2>2, <2>3, <2>5, <2>6, <2>7, AttachedOrdered DEF others
<1>7. CASE rel = "belongs_to"
  <2> DEFINE row == [e \in Names \X Names |->
                       IF e \in {c} \X others THEN "retired" ELSE h.edge[rel][e]]
             k == [h EXCEPT !.edge = [h.edge EXCEPT ![rel] = row]]
  <2>1. Linked(g, rel, c, p, others, decided) = k
    BY <1>0, <1>1, <1>2, <1>7 DEF Graph
  <2>2. h.edge \in [Relations -> [Names \X Names -> {"none", "active", "retired"}]]
    BY <1>1 DEF Graph
  <2>3. k.edge = [h.edge EXCEPT ![rel] = row]
    BY <1>1 DEF Graph
  <2>4. ASSUME NEW r \in Relations, NEW x \in Names, NEW y \in Names
        PROVE  k.edge[r][<<x, y>>] = IF r = rel /\ x = c /\ y \in others
                                       THEN "retired" ELSE h.edge[r][<<x, y>>]
    BY <2>2, <2>3
  <2> HIDE DEF k, row
  <2>5. \A r \in Relations, t \in Names :
          Parents(k, r, t) = IF r = rel /\ t = c THEN Parents(h, r, t) \ others
                             ELSE Parents(h, r, t)
    BY <2>4 DEF Parents
  <2>6. Tree(k)
    BY <1>5, <2>5, FewerEdges
  <2>7. ~typed
    BY <1>0, <1>7
  <2>8. \A t \in Names : OnePlace(k, t)
    <3>1. Parents(k, "belongs_to", c) \subseteq {p}
      BY <1>0, <1>3, <1>4, <1>7, <2>5 DEF others
    <3>2. \A t \in Names \ {c} : Parents(k, "belongs_to", t) = Parents(g, "belongs_to", t)
      BY <1>4, <2>5 DEF Relations
    <3> QED BY <2>7, <3>1, <3>2 DEF Ordered, OnePlace
  <2> QED BY <2>1, <2>6, <2>7, <2>8 DEF Ordered, others
<1>8. CASE rel # "belongs_to" /\ ~Placing(rel)
  <2>1. Linked(g, rel, c, p, others, decided) = h
    BY <1>2, <1>8
  <2>2. typed => \A t \in Types(h) : RootedAt(h, t)
    <3>1. typed => \A t \in Types(h) : Parents(h, "is_a", t) = Parents(g, "is_a", t)
      BY <1>4, <1>8 DEF Types, Relations, Placing
    <3> QED BY <1>1, <3>1 DEF Ordered, RootedAt
  <2>3. ~typed => \A t \in Names : OnePlace(h, t)
    <3>1. \A t \in Names : Parents(h, "belongs_to", t) = Parents(g, "belongs_to", t)
      BY <1>4, <1>8 DEF Relations
    <3> QED BY <3>1 DEF Ordered, OnePlace
  <2> QED BY <1>5, <2>1, <2>2, <2>3 DEF Ordered, others
<1> QED BY <1>6, <1>7, <1>8 DEF others

-----------------------------------------------------------------------------
LEMMA PlacedOrdered ==
  ASSUME NEW g, GInv(g), NEW n \in Names, NEW a \in Actors,
         NEW siblings \in SUBSET Types(g), NEW r \in Placed(g, n, a, siblings)
  PROVE  KeepsNames(g, r.g) /\ (Ordered(g) => Ordered(r.g))
<1>1. CASE Resolve(g, n) # NoName
  <2> DEFINE t == Resolve(g, n)
  <2>1. r.g = IF typed THEN Attached(g, t) ELSE g
    BY <1>1 DEF Placed
  <2>2. t \in Types(g) /\ t \in Names
    BY <1>1, ResolveOK DEF Types
  <2>3. KeepsNames(g, Attached(g, t)) /\ KeepsNames(g, g)
    <3>1. /\ Attached(g, t).creator = g.creator /\ Attached(g, t).alias = g.alias
      BY DEF Attached, GInv, GraphOK, Graph
    <3> QED BY <3>1, SameNames
  <2> HIDE DEF t
  <2>4. Ordered(g) => Ordered(Attached(g, t))
    BY <2>2, AttachedOrdered DEF Ordered, GInv, GraphOK
  <2> QED BY <2>1, <2>3, <2>4
<1>2. CASE Resolve(g, n) = NoName
  <2>1. CASE r = [g |-> Created(g, n, a), type |-> n]
    BY <1>2, <2>1, CreatedOrdered
  <2>2. ASSUME NEW t \in siblings, r = [g |-> Aliased(g, n, t), type |-> t]
        PROVE  KeepsNames(g, r.g) /\ (Ordered(g) => Ordered(r.g))
    BY <1>2, <2>2, AliasedOrdered
  <2> QED BY <1>2, <2>1, <2>2 DEF Placed
<1> QED BY <1>1, <1>2

LEMMA LinkOrdered ==
  ASSUME NEW g, GInv(g), NEW rel \in Supported, NEW c \in Types(g), NEW p \in Types(g),
         NEW decided \in BOOLEAN, NEW h \in Link(g, rel, c, p, decided)
  PROVE  KeepsNames(g, h) /\ (Ordered(g) => Ordered(h))
<1>1. CASE h = g
  BY <1>1, SameNames
<1>2. CASE /\ h = Linked(g, rel, c, p, Parents(g, rel, c), decided)
           /\ Insertable(g, rel, c, p, decided)
           /\ Relatable(g, rel, c, p)
  <2>1. rel \in Relations /\ g \in Graph
    BY TaxonomyAssumption DEF Supported, Relations, GInv, GraphOK
  <2>2. g.edge[rel][<<c, p>>] = "none"
    BY <1>2 DEF Insertable
  <2> QED BY <1>2, <2>1, <2>2, LinkedNames, LinkedOrdered
<1> QED BY <1>1, <1>2 DEF Link

LEMMA HierarchyOrdered ==
  ASSUME GInv(graph), Hierarchy
  PROVE  KeepsNames(graph, graph') /\ (Ordered(graph) => Ordered(graph'))
<1>1. ASSUME NEW a \in Actors, NEW n \in Names, HierarchyOfOne(a, n)
      PROVE  KeepsNames(graph, graph') /\ (Ordered(graph) => Ordered(graph'))
  <2>1. graph.rooted \in SUBSET Types(graph)
    BY DEF GInv, GraphOK
  <2> QED BY <1>1, <2>1, PlacedOrdered DEF HierarchyOfOne
<1>2. ASSUME NEW a \in Actors, NEW m \in Names, NEW n \in Names,
             HierarchyOfTwo(a, m, n)
      PROVE  KeepsNames(graph, graph') /\ (Ordered(graph) => Ordered(graph'))
  <2>1. /\ graph.rooted \in SUBSET Types(graph)
        /\ Taxonomic \in Relations /\ Taxonomic \in Supported
    BY DEF GInv, GraphOK, Taxonomic, Relations, Supported
  <2>2. PICK r \in Placed(graph, m, a, graph.rooted) :
          \E s \in Placed(r.g, n, a, Children(r.g, Taxonomic, r.type)) :
            \E decided \in BOOLEAN :
              graph' \in Link(s.g, Taxonomic, s.type, r.type, decided)
    BY <1>2 DEF HierarchyOfTwo
  <2>3. GInv(r.g) /\ Keeps(graph, r.g) /\ r.type \in Types(r.g)
    BY <2>1, PlacedOK
  <2>4. PICK s \in Placed(r.g, n, a, Children(r.g, Taxonomic, r.type)) :
          \E decided \in BOOLEAN :
            graph' \in Link(s.g, Taxonomic, s.type, r.type, decided)
    BY <2>2
  <2>5. Children(r.g, Taxonomic, r.type) \in SUBSET Types(r.g)
    BY <2>1, <2>3, ChildrenTypes
  <2>6. GInv(s.g) /\ Keeps(r.g, s.g) /\ s.type \in Types(s.g)
    BY <2>3, <2>5, PlacedOK
  <2>7. r.type \in Types(s.g)
    BY <2>3, <2>6 DEF Keeps
  <2>8. KeepsNames(graph, r.g) /\ (Ordered(graph) => Ordered(r.g))
    BY <2>1, PlacedOrdered
  <2>9. KeepsNames(r.g, s.g) /\ (Ordered(r.g) => Ordered(s.g))
    BY <2>3, <2>5, PlacedOrdered
  <2>10. KeepsNames(s.g, graph') /\ (Ordered(s.g) => Ordered(graph'))
    BY <2>1, <2>4, <2>6, <2>7, LinkOrdered
  <2> QED BY <2>8, <2>9, <2>10, KeepsNamesTrans
<1> QED BY <1>1, <1>2 DEF Hierarchy

(* A request in flight saw the graph as it is.                             *)
Fresh(w) ==
  LET r == flight[w]
  IN  /\ r.op = "relate" =>
           /\ r.rel \in Supported
           /\ Relatable(graph, r.rel, r.child, r.parent)
           /\ r.others = Parents(graph, r.rel, r.child)
      /\ r.op = "retire" => r.others = Parents(graph, r.rel, r.child) \ {r.parent}

(* When requests do not overlap: one at most is in flight.                 *)
OrderInv ==
  ~threaded =>
    /\ Ordered(graph)
    /\ \A v, w \in Workers : ~Free(v) /\ ~Free(w) => v = w
    /\ \A w \in Workers : Fresh(w)

(* What a step does to the graph, and that a request in flight keeps       *)
(* others from changing it.                                                *)
LEMMA NamesStep ==
  ASSUME IInv, [Next]_vars
  PROVE  KeepsNames(graph, graph')
<1> USE DEF IInv
<1>1. CASE UNCHANGED graph
  BY <1>1, SameNames
<1>2. CASE Hierarchy
  BY <1>2, HierarchyOrdered
<1>3. CASE RegisterAlias
  BY <1>3, AliasedOrdered DEF RegisterAlias
<1>4. CASE DirectWrite
  <2>1. {} \in SUBSET Types(graph)
    OBVIOUS
  <2> QED BY <1>4, <2>1, PlacedOrdered DEF DirectWrite
<1>5. ASSUME NEW w \in Workers, CommitRelate(w)
      PROVE  KeepsNames(graph, graph')
  <2> DEFINE r == flight[w]
  <2>1. r.op = "relate"
    BY <1>5 DEF CommitRelate
  <2>2. CASE graph' = graph
    BY <2>2, <1>1
  <2>3. CASE graph' = Linked(graph, r.rel, r.child, r.parent, r.others, r.decided)
    BY <2>1, <2>3, InFlight, LinkedNames DEF GInv, GraphOK
  <2> QED BY <1>5, <2>2, <2>3 DEF CommitRelate
<1>6. ASSUME NEW w \in Workers, CommitRetire(w)
      PROVE  KeepsNames(graph, graph')
  <2> DEFINE r == flight[w]
  <2>1. /\ r.op = "retire" /\ r.rel \in Relations
        /\ r.child \in Types(graph) /\ r.parent \in Types(graph)
    BY <1>6, InFlight DEF CommitRetire
  <2>2. graph' = Unlinked(graph, r.rel, r.child, r.parent, r.others)
    BY <1>6 DEF CommitRetire, Unlinked
  <2> QED BY <2>1, <2>2, UnlinkedOrdered
<1>7. ASSUME NEW w \in Workers, BeginRelate(w) \/ BeginRetire(w) \/ Abort(w)
      PROVE  UNCHANGED graph
  BY <1>7 DEF BeginRelate, BeginRetire, Enter, Abort
<1>8. CASE UNCHANGED vars
  BY <1>1, <1>8 DEF vars
<1> QED BY <1>1, <1>2, <1>3, <1>4, <1>5, <1>6, <1>7, <1>8 DEF Next

(* A request that enters, one at a time, saw the graph as it is.           *)
LEMMA EnterOrdered ==
  ASSUME IInv, NEW w \in Workers, NEW r, Enter(w, r), ~threaded, ~threaded',
         typed' = typed, Ordered(graph),
         r.op = "relate" =>
           /\ r.rel \in Supported
           /\ Relatable(graph, r.rel, r.child, r.parent)
           /\ r.others = Parents(graph, r.rel, r.child),
         r.op = "retire" => r.others = Parents(graph, r.rel, r.child) \ {r.parent}
  PROVE  OrderInv'
<1>1. \A v \in Workers : flight[v] = Idle
  BY DEF Enter, MayEnter, Free
<1>2. graph' = graph /\ \A v \in Workers : flight'[v] = IF v = w THEN r ELSE Idle
  BY <1>1 DEF Enter, IInv
<1>3. Ordered(graph)'
  BY <1>2 DEF Ordered, Tree, CycleChecked, RootedAt, OnePlace
<1>4. (\A u, v \in Workers : ~Free(u) /\ ~Free(v) => u = v)'
  BY <1>2 DEF Free
<1>5. (\A v \in Workers : Fresh(v))'
  BY <1>2 DEF Fresh, Idle, Supported, Relatable, CycleChecked
<1> QED BY <1>3, <1>4, <1>5 DEF OrderInv

LEMMA OrderStep ==
  ASSUME IInv, OrderInv, [Next]_vars
  PROVE  OrderInv'
<1> SUFFICES ASSUME ~threaded' PROVE OrderInv'
  BY DEF OrderInv
<1>1. typed' = typed /\ threaded' = threaded
  BY ModesFixed
<1>2. /\ ~threaded /\ Ordered(graph)
      /\ \A v, w \in Workers : ~Free(v) /\ ~Free(w) => v = w
      /\ \A w \in Workers : Fresh(w)
  BY <1>1 DEF OrderInv
<1>3. GInv(graph) /\ flight \in [Workers -> Request \cup {Idle}]
  BY DEF IInv
<1>4. ASSUME Ordered(graph'), \A v \in Workers : flight'[v] = Idle
      PROVE  OrderInv'
  <2>1. Ordered(graph)'
    BY <1>1, <1>4 DEF Ordered, Tree, CycleChecked, RootedAt, OnePlace
  <2> QED BY <1>4, <2>1 DEF OrderInv, Fresh, Free, Idle
<1>5. CASE UNCHANGED vars
  BY <1>5 DEF vars, OrderInv, Ordered, Tree, CycleChecked, RootedAt, OnePlace, Free, Fresh, Supported, Relatable
<1>6. ASSUME NEW op, MayEnter(op), UNCHANGED flight, Ordered(graph')
      PROVE  OrderInv'
  <2>1. \A v \in Workers : flight'[v] = Idle
    BY <1>2, <1>6 DEF MayEnter, Free
  <2> QED BY <1>4, <1>6, <2>1
<1>7. CASE Hierarchy
  BY <1>2, <1>3, <1>6, <1>7, HierarchyOrdered DEF Hierarchy
<1>8. CASE RegisterAlias
  BY <1>2, <1>3, <1>6, <1>8, AliasedOrdered DEF RegisterAlias
<1>9. CASE DirectWrite
  <2>1. {} \in SUBSET Types(graph)
    OBVIOUS
  <2>2. Ordered(graph')
    BY <1>2, <1>3, <1>9, <2>1, PlacedOrdered DEF DirectWrite
  <2> QED BY <1>6, <1>9, <2>2 DEF DirectWrite
<1>10. ASSUME NEW w \in Workers, BeginRelate(w)
       PROVE  OrderInv'
  <2>1. PICK rel \in Supported, c \in Types(graph), p \in Types(graph),
             decided \in BOOLEAN :
          /\ Relatable(graph, rel, c, p)
          /\ Enter(w, [op |-> "relate", rel |-> rel, child |-> c, parent |-> p,
                       decided |-> decided, others |-> Parents(graph, rel, c)])
    BY <1>10 DEF BeginRelate
  <2> QED BY <1>1, <1>2, <2>1, EnterOrdered
<1>11. ASSUME NEW w \in Workers, BeginRetire(w)
       PROVE  OrderInv'
  <2>1. PICK rel \in Supported, c \in Types(graph), p \in Types(graph) :
          Enter(w, [op |-> "retire", rel |-> rel, child |-> c, parent |-> p,
                    others |-> Parents(graph, rel, c) \ {p}])
    BY <1>11 DEF BeginRetire
  <2> QED BY <1>1, <1>2, <2>1, EnterOrdered
<1>12. ASSUME NEW w \in Workers, ~Free(w), Leave(w), Ordered(graph')
       PROVE  OrderInv'
  <2>1. \A v \in Workers : flight'[v] = Idle
    BY <1>2, <1>3, <1>12 DEF Leave, Free
  <2> QED BY <1>4, <1>12, <2>1
<1>13. ASSUME NEW w \in Workers, CommitRelate(w)
       PROVE  OrderInv'
  <2> DEFINE r == flight[w]
  <2>1. r.op = "relate" /\ ~Free(w) /\ Leave(w)
    BY <1>13 DEF CommitRelate, Free, Idle
  <2>2. /\ r.rel \in Supported /\ Relatable(graph, r.rel, r.child, r.parent)
        /\ r.others = Parents(graph, r.rel, r.child)
    BY <1>2, <2>1 DEF Fresh
  <2>3. /\ r.child \in Types(graph) /\ r.parent \in Types(graph) /\ r.decided \in BOOLEAN
    BY <2>1, InFlight
  <2>4. CASE graph' = graph
    BY <1>2, <1>12, <2>1, <2>4
  <2>5. CASE /\ Insertable(graph, r.rel, r.child, r.parent, r.decided)
             /\ graph' = Linked(graph, r.rel, r.child, r.parent, r.others, r.decided)
    <3>1. graph.edge[r.rel][<<r.child, r.parent>>] = "none"
      BY <2>5 DEF Insertable
    <3>2. Ordered(graph')
      BY <1>2, <1>3, <2>2, <2>3, <2>5, <3>1, LinkedOrdered
    <3> QED BY <1>12, <2>1, <3>2
  <2> QED BY <1>13, <2>4, <2>5 DEF CommitRelate
<1>14. ASSUME NEW w \in Workers, CommitRetire(w)
       PROVE  OrderInv'
  <2> DEFINE r == flight[w]
  <2>1. r.op = "retire" /\ ~Free(w) /\ Leave(w)
    BY <1>14 DEF CommitRetire, Free, Idle
  <2>2. r.rel \in Relations /\ r.child \in Types(graph) /\ r.parent \in Types(graph)
    BY <2>1, InFlight
  <2>3. r.others = Parents(graph, r.rel, r.child) \ {r.parent}
    BY <1>2, <2>1 DEF Fresh
  <2>4. graph' = Unlinked(graph, r.rel, r.child, r.parent, r.others)
    BY <1>14 DEF CommitRetire, Unlinked
  <2>5. Ordered(graph')
    BY <1>2, <1>3, <2>2, <2>3, <2>4, UnlinkedOrdered
  <2> QED BY <1>12, <2>1, <2>5
<1>15. ASSUME NEW w \in Workers, Abort(w)
       PROVE  OrderInv'
  BY <1>2, <1>12, <1>15 DEF Abort
<1> QED BY <1>5, <1>7, <1>8, <1>9, <1>10, <1>11, <1>13, <1>14, <1>15 DEF Next

LEMMA OrderInit == Init => OrderInv
<1> SUFFICES ASSUME Init PROVE OrderInv
  OBVIOUS
<1>1. \A r \in Relations, t \in Names : Parents(graph, r, t) = {}
  BY DEF Init, Empty, Parents
<1>2. Types(graph) = {}
  BY DEF Init, Empty, Types
<1>3. Ordered(graph)
  BY <1>1, <1>2 DEF Ordered, Tree, OnePlace, Relations, CycleChecked
<1>4. \A w \in Workers : flight[w] = Idle
  BY DEF Init
<1> QED BY <1>3, <1>4 DEF OrderInv, Free, Fresh, Idle

LEMMA InOrder == Spec => [](IInv /\ OrderInv)
BY InvInit, InvStep, OrderInit, OrderStep, PTL DEF Spec

(* Requests that do not overlap leave is_a and part_of free of cycles in   *)
(* typed mode and belongs_to in legacy mode: the check follows the edges   *)
(* all the way, for any number of types.  It says nothing of the other     *)
(* relationships of legacy mode, which the code does not check.            *)
THEOREM AlwaysAcyclic == Spec => []AcyclicInOrder
<1>1. OrderInv => AcyclicInOrder
  BY DEF OrderInv, Ordered, Tree, AcyclicInOrder, Acyclic
<1> QED BY InOrder, <1>1, PTL

(* Requests that do not overlap leave a type at one place: at the root in  *)
(* typed mode if and only if it has no parent, below one in legacy mode.   *)
THEOREM AlwaysPlaced == Spec => []PlacedExactly
<1>1. OrderInv => PlacedExactly
  <2> SUFFICES ASSUME OrderInv, ~threaded PROVE RootedExactly /\ OneParent
    BY DEF PlacedExactly, RootedExactly, OneParent
  <2>1. RootedExactly
    BY DEF OrderInv, Ordered, RootedAt, RootedExactly
  <2>2. ASSUME ~typed, NEW t \in Names
        PROVE  Cardinality(Parents(graph, "belongs_to", t)) <= 1
    <3>1. CASE Parents(graph, "belongs_to", t) = {}
      BY <3>1, FS_EmptySet
    <3>2. ASSUME NEW p \in Parents(graph, "belongs_to", t)
          PROVE  Cardinality(Parents(graph, "belongs_to", t)) <= 1
      <4>1. Parents(graph, "belongs_to", t) = {p}
        BY <2>2 DEF OrderInv, Ordered, OnePlace
      <4> QED BY <4>1, FS_Singleton
    <3> QED BY <3>1, <3>2
  <2> QED BY <2>1, <2>2 DEF OneParent
<1> QED BY InOrder, <1>1, PTL

(* A name stands for the type it stands for, for good: a type or an alias  *)
(* is only made of a name that is neither.                                 *)
THEOREM NamesStay == Spec => NamesKept
<1>1. IInv /\ [Next]_vars =>
        [\A n \in Names :
           (~threaded /\ Resolve(graph, n) # NoName) =>
             Resolve(graph', n) = Resolve(graph, n)]_vars
  BY NamesStep DEF KeepsNames
<1> QED BY InvInit, InvStep, <1>1, PTL DEF Spec, NamesKept
=============================================================================
