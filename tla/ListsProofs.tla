---------------------------- MODULE ListsProofs -----------------------------
(* Proofs about Pages, Search, Navigation and RecipeImport: rows that are  *)
(* listed, paged through, searched and chosen in an order, for any number of*)
(* rows, pages and changes between them.                                   *)
EXTENDS Search, Navigation, RecipeImport, RecordsProofs

-----------------------------------------------------------------------------
(* Pages and Search: rows in their order, a page at a time.                *)

(* A list is of places of a table of so many.                              *)
LEMMA PlaceCounts ==
  ASSUME NEW m \in Nat, NEW S \in SUBSET (1..m)
  PROVE  /\ IsFiniteSet(S) /\ Cardinality(S) \in 0..m
         /\ \A t \in S : Place(S, t) \in 1..Cardinality(S)
         /\ \A t, u \in S : t < u => Place(S, t) < Place(S, u)
<1>1. IsFiniteSet(S) /\ Cardinality(S) \in Nat /\ Cardinality(S) <= m
  <2>1. IsFiniteSet(1..m) /\ Cardinality(1..m) = m
    BY UpTo
  <2>2. IsFiniteSet(S) /\ Cardinality(S) <= Cardinality(1..m)
    BY <2>1, FS_Subset
  <2> QED BY <2>1, <2>2, FS_CardinalityType
<1>2. ASSUME NEW t \in S PROVE Place(S, t) \in 1..Cardinality(S)
  <2> DEFINE T == {u \in S : u <= t}
  <2>1. IsFiniteSet(T) /\ Cardinality(T) \in Nat /\ Cardinality(T) <= Cardinality(S)
    BY <1>1, FS_Subset, FS_CardinalityType
  <2>2. t \in T
    OBVIOUS
  <2>3. Cardinality(T) # 0
    BY <2>1, <2>2, FS_EmptySet
  <2> HIDE DEF T
  <2>4. Cardinality(T) \in 1..Cardinality(S)
    BY <1>1, <2>1, <2>3
  <2> QED BY <2>4 DEF Place, T
<1>3. ASSUME NEW t \in S, NEW u \in S, t < u PROVE Place(S, t) < Place(S, u)
  <2> DEFINE T == {x \in S : x <= t}
             U == {x \in S : x <= u}
  <2>1. IsFiniteSet(U)
    BY <1>1, FS_Subset
  <2>2. T \subseteq U /\ u \in U /\ u \notin T
    <3>1. t \in Nat /\ u \in Nat /\ \A x \in S : x \in Nat
      OBVIOUS
    <3>2. \A x \in S : x <= t => x <= u
      BY <1>3, <3>1
    <3>3. T \subseteq U
      BY <3>2
    <3>4. u \in U
      BY <3>1
    <3>5. u \notin T
      BY <1>3, <3>1
    <3> QED BY <3>3, <3>4, <3>5
  <2>3. T \in SUBSET U /\ T # U
    BY <2>2
  <2> HIDE DEF T, U
  <2>4. Cardinality(T) < Cardinality(U)
    BY <2>1, <2>3, FS_Subset, FS_CardinalityType
  <2> QED BY <2>4 DEF Place, T, U
<1> QED BY <1>1, <1>2, <1>3

(* The rows in order: each is at its place.                                *)
LEMMA SortedByPlace ==
  ASSUME NEW m \in Nat, NEW S \in SUBSET (1..m)
  PROVE  /\ Sorted(S) \in [1..Cardinality(S) -> S]
         /\ \A i \in 1..Cardinality(S) : Place(S, Sorted(S)[i]) = i
         /\ \A t \in S : Sorted(S)[Place(S, t)] = t
         /\ {Sorted(S)[i] : i \in 1..Cardinality(S)} = S
<1> DEFINE n == Cardinality(S)
           p == [t \in S |-> Place(S, t)]
<1>1. /\ IsFiniteSet(S) /\ n \in Nat /\ S \subseteq Nat
      /\ \A t \in S : Place(S, t) \in 1..n
      /\ \A t, u \in S : t < u => Place(S, t) < Place(S, u)
  BY PlaceCounts
<1>2. \A t, u \in S : Place(S, t) = Place(S, u) => t = u
  <2> SUFFICES ASSUME NEW t \in S, NEW u \in S, Place(S, t) = Place(S, u) PROVE t = u
    OBVIOUS
  <2>1. t \in Nat /\ u \in Nat /\ Place(S, t) \in 1..n
    BY <1>1
  <2>2. ~(t < u) /\ ~(u < t)
    BY <1>1, <2>1
  <2> QED BY <2>1, <2>2
<1>3. p \in Injection(S, 1..n)
  BY <1>1, <1>2 DEF Injection, IsInjective
<1>4. IsFiniteSet(1..n) /\ Cardinality(1..n) = n
  <2> HIDE DEF n
  <2> QED BY <1>1, UpTo
<1>5. p \in Surjection(S, 1..n)
  <2>1. Cardinality(S) = Cardinality(1..n)
    BY <1>4
  <2> HIDE DEF p
  <2> QED BY <1>3, <1>4, <2>1, FS_Injection
<1>6. \A i \in 1..n : \E t \in S : Place(S, t) = i
  BY <1>5 DEF Surjection
<1>7. \A i \in 1..n : Sorted(S)[i] \in S /\ Place(S, Sorted(S)[i]) = i
  BY <1>6 DEF Sorted
<1>8. \A t \in S : Sorted(S)[Place(S, t)] = t
  BY <1>1, <1>2, <1>7
<1>9. DOMAIN Sorted(S) = 1..n /\ Sorted(S) = [i \in 1..n |-> Sorted(S)[i]]
  BY DEF Sorted
<1> QED BY <1>1, <1>7, <1>8, <1>9

(* A row's place comes nearer only when a row before it goes.              *)
LEMMA PlaceKept ==
  ASSUME NEW m \in Nat, NEW S \in SUBSET (1..m), NEW T \in SUBSET (1..m), NEW t,
         \A u \in S \ T : ~(u < t), t \in T
  PROVE  Place(S, t) <= Place(T, t)
<1> DEFINE A == {u \in S : u <= t}
           C == {u \in T : u <= t}
<1>1. A \subseteq C
  <2> SUFFICES ASSUME NEW u \in S, u <= t PROVE u \in T
    OBVIOUS
  <2>1. u \in Nat /\ t \in Nat
    OBVIOUS
  <2>2. u < t \/ u = t
    BY <2>1
  <2> QED BY <2>2
<1>2. IsFiniteSet(C)
  BY UpTo, FS_Subset
<1> HIDE DEF A, C
<1>3. Cardinality(A) <= Cardinality(C)
  BY <1>1, <1>2, FS_Subset
<1> QED BY <1>3 DEF Place, A, C

OnPage(S, offset, limit) ==
  {t \in S : offset < Place(S, t) /\ Place(S, t) <= offset + limit}

(* The rows of a page: those with their place on it, no more than fit and  *)
(* than there are.                                                         *)
LEMMA RowsOnPage ==
  ASSUME NEW m \in Nat, NEW S \in SUBSET (1..m), NEW offset \in Nat, NEW limit \in Nat,
         offset <= m
  PROVE  LET R == OnPage(S, offset, limit)
         IN  /\ Cardinality(R) \in Nat /\ Cardinality(R) <= limit
             /\ offset + Cardinality(R) <= m
<1> DEFINE R == OnPage(S, offset, limit)
           n == Cardinality(S)
           p == [t \in R |-> Place(S, t) - offset]
<1>1. /\ n \in Nat /\ n <= m /\ IsFiniteSet(S) /\ S \subseteq Nat
      /\ \A t \in S : Place(S, t) \in 1..n
      /\ \A t, u \in S : t < u => Place(S, t) < Place(S, u)
  BY PlaceCounts
<1>2. IsFiniteSet(R) /\ Cardinality(R) \in Nat
  <2>1. R \subseteq S
    BY DEF OnPage
  <2> HIDE DEF R
  <2> QED BY <1>1, <2>1, FS_Subset, FS_CardinalityType
<1>3. \A t \in S : t \in Nat /\ Place(S, t) \in Nat /\ Place(S, t) <= m
  BY <1>1
<1>4. \A t \in R : /\ t \in Nat /\ t \in S /\ Place(S, t) \in Nat /\ Place(S, t) <= m
                    /\ offset < Place(S, t) /\ Place(S, t) <= offset + limit
  BY <1>3 DEF OnPage
<1> HIDE DEF R
<1>5. \A t, u \in R : p[t] = p[u] => t = u
  <2> SUFFICES ASSUME NEW t \in R, NEW u \in R, p[t] = p[u] PROVE t = u
    OBVIOUS
  <2>1. t \in Nat /\ u \in Nat /\ Place(S, t) \in Nat /\ Place(S, u) \in Nat
    BY <1>4
  <2>2. Place(S, t) = Place(S, u)
    BY <2>1
  <2>3. ~(t < u) /\ ~(u < t)
    BY <1>4, <1>1, <2>1, <2>2
  <2> QED BY <2>1, <2>3
<1>6. ASSUME NEW k \in Nat, \A t \in R : p[t] \in 1..k PROVE Cardinality(R) <= k
  <2>1. p \in Injection(R, 1..k)
    BY <1>5, <1>6 DEF Injection, IsInjective
  <2> HIDE DEF p
  <2> QED BY <2>1, UpTo, FS_Injection
<1>7. \A t \in R : p[t] \in 1..limit
  <2> SUFFICES ASSUME NEW t \in R PROVE Place(S, t) - offset \in 1..limit
    OBVIOUS
  <2>1. Place(S, t) \in Nat
    BY <1>4
  <2> QED BY <1>4, <2>1
<1>8. m - offset \in Nat /\ \A t \in R : p[t] \in 1..m - offset
  <2> SUFFICES ASSUME NEW t \in R PROVE Place(S, t) - offset \in 1..m - offset
    OBVIOUS
  <2>1. Place(S, t) \in Nat /\ Place(S, t) <= m
    BY <1>4
  <2> QED BY <1>4, <2>1
<1> HIDE DEF p
<1>9. Cardinality(R) <= limit
  BY <1>6, <1>7
<1>10. Cardinality(R) <= m - offset
  BY <1>6, <1>8
<1> QED BY <1>2, <1>9, <1>10 DEF R

(* While a search goes on, what matched all the while is still ahead of    *)
(* the cursor, or was seen, or a row before it has left.                   *)
SearchAhead ==
  /\ search.state = "idle" => search.listed = {} /\ search.offset = OfBoth(0)
  /\ search.state # "done" =>
       \A k \in search.listed : \A h \in search.stayed[k] :
         /\ h \in matching[k]
         /\ \/ h \in search.seen[k]
            \/ \E g \in search.left[k] : g < h
            \/ Place(matching[k], h) > search.offset[k]

(* What is proved together.                                                *)
SeInv == SeTypeOK /\ SearchAhead /\ SearchExhaustive

LEMMA InitSearch == SeInit => SeInv
BY SearchAssumption DEF SeInit, SeInv, SeTypeOK, SearchAhead, SearchExhaustive, Searcher, OfBoth

(* The rows of a page, by their places.                                    *)
LEMMA RowsPlaced ==
  ASSUME SeTypeOK, NEW k \in SearchLists, NEW offset \in 0..MaxHit, NEW limit \in Nat
  PROVE  LET R == RowsOf(k, offset, limit)
         IN  /\ R = OnPage(matching[k], offset, limit)
             /\ R \subseteq Hits /\ Cardinality(R) \in Nat
             /\ Cardinality(R) <= limit /\ offset + Cardinality(R) \in 0..MaxHit
<1> DEFINE S == matching[k]
           R == RowsOf(k, offset, limit)
           n == Cardinality(S)
<1>1. MaxHit \in Nat /\ S \in SUBSET (1..MaxHit)
  BY SearchAssumption DEF SeTypeOK, Hits
<1>2. n \in Nat /\ \A t \in S : Place(S, t) \in 1..n
  BY <1>1, PlaceCounts
<1>3. R = {Sorted(S)[i] : i \in {i \in 1..n : offset < i /\ i <= offset + limit}}
  BY <1>1, SortedByPlace DEF RowsOf
<1> HIDE DEF S, R, n
<1>4. /\ \A i \in 1..n : Sorted(S)[i] \in S /\ Place(S, Sorted(S)[i]) = i
      /\ \A t \in S : Sorted(S)[Place(S, t)] = t
  BY <1>1, SortedByPlace DEF n
<1>5. R = OnPage(S, offset, limit)
  BY <1>2, <1>3, <1>4 DEF OnPage
<1>6. offset \in Nat /\ offset <= MaxHit
  BY <1>1
<1>7. /\ Cardinality(R) \in Nat /\ Cardinality(R) <= limit
      /\ offset + Cardinality(R) <= MaxHit
  BY <1>1, <1>5, <1>6, RowsOnPage
<1>8. offset + Cardinality(R) \in 0..MaxHit
  BY <1>1, <1>6, <1>7
<1>9. R \subseteq Hits
  BY <1>1, <1>5 DEF Hits, OnPage
<1> QED BY <1>5, <1>7, <1>8, <1>9 DEF R, S

(* A page, of a search under way or one that begins.                       *)
LEMMA PageStep ==
  ASSUME SeTypeOK, NEW s \in Searcher, s.limit \in Nat, SearchPage(s),
         UNCHANGED <<matching, shifts>>,
         \A k \in s.listed : \A h \in s.stayed[k] :
           /\ h \in matching[k]
           /\ \/ h \in s.seen[k]
              \/ \E g \in s.left[k] : g < h
              \/ Place(matching[k], h) > s.offset[k]
  PROVE  SeInv'
<1> DEFINE rows == [k \in SearchLists |->
                      IF k \in s.listed THEN RowsOf(k, s.offset[k], s.limit) ELSE {}]
           state == IF HasMore(s.listed, s.offset, s.limit) THEN "more" ELSE "done"
           offset == [k \in SearchLists |-> s.offset[k] + Cardinality(rows[k])]
           seen == [k \in SearchLists |-> s.seen[k] \cup rows[k]]
<1>1. /\ s.listed \in SUBSET SearchLists /\ s.limit \in 0..MaxHit
      /\ s.offset \in [SearchLists -> 0..MaxHit]
      /\ s.seen \in [SearchLists -> SUBSET Hits] /\ s.stayed \in [SearchLists -> SUBSET Hits]
      /\ s.left \in [SearchLists -> SUBSET Hits]
      /\ s = [state |-> s.state, listed |-> s.listed, limit |-> s.limit, offset |-> s.offset,
              seen |-> s.seen, stayed |-> s.stayed, left |-> s.left]
  BY DEF Searcher
<1>2. search' = [state |-> state, listed |-> s.listed, limit |-> s.limit, offset |-> offset,
                 seen |-> seen, stayed |-> s.stayed, left |-> s.left]
  BY <1>1 DEF SearchPage
<1>3. ASSUME NEW k \in s.listed
      PROVE  /\ rows[k] = OnPage(matching[k], s.offset[k], s.limit)
             /\ rows[k] \subseteq Hits /\ Cardinality(rows[k]) \in Nat
             /\ Cardinality(rows[k]) <= s.limit
             /\ s.offset[k] + Cardinality(rows[k]) \in 0..MaxHit
  <2>1. k \in SearchLists /\ s.offset[k] \in 0..MaxHit /\ rows[k] = RowsOf(k, s.offset[k], s.limit)
    BY <1>1
  <2> QED BY <2>1, RowsPlaced
<1>4. ASSUME NEW k \in SearchLists, k \notin s.listed
      PROVE  rows[k] = {} /\ Cardinality(rows[k]) = 0
  BY <1>4, FS_EmptySet
<1> HIDE DEF rows
<1>5. offset \in [SearchLists -> 0..MaxHit] /\ seen \in [SearchLists -> SUBSET Hits]
  <2> SUFFICES ASSUME NEW k \in SearchLists
               PROVE  s.offset[k] + Cardinality(rows[k]) \in 0..MaxHit /\ s.seen[k] \cup rows[k] \subseteq Hits
    OBVIOUS
  <2>1. s.offset[k] \in 0..MaxHit /\ s.seen[k] \subseteq Hits /\ MaxHit \in Nat
    BY <1>1, SearchAssumption
  <2>2. CASE k \in s.listed
    BY <1>3, <2>1, <2>2
  <2>3. CASE k \notin s.listed
    BY <1>4, <2>1, <2>3
  <2> QED BY <2>2, <2>3
<1>6. SeTypeOK'
  <2>1. state \in {"idle", "more", "done"}
    OBVIOUS
  <2> HIDE DEF state, offset, seen
  <2>2. search' \in Searcher
    BY <1>1, <1>2, <1>5, <2>1 DEF Searcher
  <2> QED BY <2>2 DEF SeTypeOK
<1>7. ASSUME NEW k \in s.listed, NEW h \in s.stayed[k]
      PROVE  /\ h \in matching[k]
             /\ \/ h \in seen[k]
                \/ \E g \in s.left[k] : g < h
                \/ /\ Place(matching[k], h) > offset[k]
                   /\ state = "more"
  <2>1. /\ h \in matching[k] /\ k \in SearchLists /\ s.offset[k] \in Nat /\ MaxHit \in Nat
        /\ matching[k] \in SUBSET (1..MaxHit)
    BY <1>1, SearchAssumption DEF SeTypeOK, Hits
  <2>2. seen[k] = s.seen[k] \cup rows[k] /\ offset[k] = s.offset[k] + Cardinality(rows[k])
    BY <2>1
  <2>3. /\ Place(matching[k], h) \in Nat /\ Cardinality(matching[k]) \in Nat
        /\ Place(matching[k], h) <= Cardinality(matching[k])
    <3>1. Cardinality(matching[k]) \in 0..MaxHit /\ Place(matching[k], h) \in 1..Cardinality(matching[k])
      BY <2>1, PlaceCounts
    <3> QED BY <2>1, <3>1
  <2>4. ASSUME Place(matching[k], h) > s.offset[k], h \notin rows[k]
        PROVE  Place(matching[k], h) > offset[k] /\ state = "more"
    <3>1. Place(matching[k], h) > s.offset[k] + s.limit
      BY <1>3, <2>1, <2>3, <2>4 DEF OnPage
    <3>2. Cardinality(matching[k]) > s.offset[k] + s.limit
      BY <2>1, <2>3, <3>1
    <3>3. state = "more"
      BY <3>2 DEF HasMore, Beyond
    <3>4. Cardinality(rows[k]) \in Nat /\ Cardinality(rows[k]) <= s.limit
      BY <1>3
    <3> HIDE DEF state, offset
    <3>5. Place(matching[k], h) > offset[k]
      BY <2>1, <2>2, <2>3, <3>1, <3>4
    <3> QED BY <3>3, <3>5
  <2> HIDE DEF seen, offset, state
  <2> QED BY <2>1, <2>2, <2>4
<1> HIDE DEF seen, offset, state
<1>8. /\ search'.state = state /\ search'.listed = s.listed /\ search'.offset = offset
      /\ search'.seen = seen /\ search'.stayed = s.stayed /\ search'.left = s.left
  BY <1>2
<1>9. SearchAhead'
  <2>1. search'.state # "idle"
    BY <1>8 DEF state
  <2> QED BY <1>7, <1>8, <2>1 DEF SearchAhead
<1>10. SearchExhaustive'
  BY <1>7, <1>8 DEF SearchExhaustive
<1> QED BY <1>6, <1>9, <1>10 DEF SeInv

LEMMA BeginStep ==
  ASSUME SeInv, BeginSearch
  PROVE  SeInv'
<1>1. PICK limit \in Hits, listed \in {{"reviews"}, SearchLists} :
        SearchPage([search EXCEPT !.limit = limit, !.listed = listed,
                                  !.stayed = [k \in SearchLists |->
                                    IF k \in listed THEN matching[k] ELSE {}]])
  BY DEF BeginSearch
<1> DEFINE stayed == [k \in SearchLists |-> IF k \in listed THEN matching[k] ELSE {}]
           s == [search EXCEPT !.limit = limit, !.listed = listed, !.stayed = stayed]
<1>2. search \in Searcher /\ search.state = "idle" /\ UNCHANGED <<matching, shifts>> /\ SeTypeOK
  BY DEF SeInv, SeTypeOK, BeginSearch
<1>3. stayed \in [SearchLists -> SUBSET Hits] /\ listed \in SUBSET SearchLists
  BY DEF SeInv, SeTypeOK, SearchLists
<1>4. limit \in 0..MaxHit /\ limit \in Nat
  BY SearchAssumption DEF Hits
<1>5. SearchPage(s)
  BY <1>1
<1>6. ASSUME NEW k \in listed, NEW h \in stayed[k]
      PROVE  h \in matching[k] /\ Place(matching[k], h) > search.offset[k]
  <2>1. h \in matching[k] /\ k \in SearchLists
    BY <1>3
  <2>2. search.offset[k] = 0
    BY <1>2, <2>1 DEF SeInv, SearchAhead, OfBoth
  <2>3. matching[k] \in SUBSET (1..MaxHit) /\ MaxHit \in Nat
    BY <1>2, <2>1, SearchAssumption DEF SeTypeOK, Hits
  <2>4. Cardinality(matching[k]) \in 0..MaxHit /\ Place(matching[k], h) \in 1..Cardinality(matching[k])
    BY <2>1, <2>3, PlaceCounts
  <2> QED BY <2>1, <2>2, <2>3, <2>4
<1> HIDE DEF stayed
<1>7. /\ s \in Searcher /\ s.limit = limit /\ s.listed = listed /\ s.stayed = stayed
      /\ s.offset = search.offset
  BY <1>2, <1>3, <1>4 DEF Searcher
<1> HIDE DEF s
<1> QED BY <1>2, <1>4, <1>5, <1>6, <1>7, PageStep

LEMMA ContinueStep ==
  ASSUME SeInv, ContinueSearch
  PROVE  SeInv'
<1>1. /\ SeTypeOK /\ search \in Searcher /\ search.limit \in Nat /\ SearchPage(search)
      /\ UNCHANGED <<matching, shifts>> /\ search.state = "more"
  BY SearchAssumption DEF SeInv, SeTypeOK, Searcher, ContinueSearch
<1>2. \A k \in search.listed : \A h \in search.stayed[k] :
        /\ h \in matching[k]
        /\ \/ h \in search.seen[k]
           \/ \E g \in search.left[k] : g < h
           \/ Place(matching[k], h) > search.offset[k]
  BY <1>1 DEF SeInv, SearchAhead
<1> QED BY <1>1, <1>2, PageStep

LEMMA ChangeStep ==
  ASSUME SeInv, MatchChanges
  PROVE  SeInv'
<1>1. PICK k \in search.listed, h \in Hits :
        /\ matching' = [matching EXCEPT ![k] = IF h \in matching[k] THEN @ \ {h} ELSE @ \cup {h}]
        /\ search' = [search EXCEPT !.stayed[k] = @ \ {h},
                        !.left[k] = IF h \in matching[k] THEN @ \cup {h} ELSE @]
  BY DEF MatchChanges
<1>2. /\ search.state = "more" /\ search \in Searcher /\ shifts' = shifts + 1 /\ shifts < MaxShifts
      /\ matching \in [SearchLists -> SUBSET Hits] /\ shifts \in 0..MaxShifts
      /\ k \in SearchLists
  BY DEF MatchChanges, SeInv, SeTypeOK, Searcher
<1> DEFINE is == IF h \in matching[k] THEN matching[k] \ {h} ELSE matching[k] \cup {h}
           left == IF h \in matching[k] THEN search.left[k] \cup {h} ELSE search.left[k]
<1>3. /\ matching' \in [SearchLists -> SUBSET Hits]
      /\ matching'[k] = is /\ \A l \in SearchLists : l # k => matching'[l] = matching[l]
  BY <1>1, <1>2
<1>4. /\ search' \in Searcher /\ search'.state = "more" /\ search'.listed = search.listed
      /\ search'.offset = search.offset /\ search'.seen = search.seen
      /\ search'.stayed[k] = search.stayed[k] \ {h} /\ search'.left[k] = left
      /\ \A l \in SearchLists : l # k => search'.stayed[l] = search.stayed[l]
                                         /\ search'.left[l] = search.left[l]
  BY <1>1, <1>2 DEF Searcher
<1>5. SeTypeOK'
  <2>1. shifts' \in 0..MaxShifts
    BY <1>2, SearchAssumption
  <2> QED BY <1>3, <1>4, <2>1 DEF SeTypeOK
<1>6. ASSUME NEW x \in search.stayed[k], x # h
      PROVE  /\ x \in is
             /\ \/ x \in search.seen[k]
                \/ \E g \in left : g < x
                \/ Place(is, x) > search.offset[k]
  <2>1. /\ x \in matching[k]
        /\ \/ x \in search.seen[k]
           \/ \E g \in search.left[k] : g < x
           \/ Place(matching[k], x) > search.offset[k]
    BY <1>2 DEF SeInv, SearchAhead
  <2>2. x \in is
    BY <1>6, <2>1
  <2>3. CASE Place(matching[k], x) > search.offset[k] /\ ~\E g \in left : g < x
    <3>1. MaxHit \in Nat /\ matching[k] \in SUBSET (1..MaxHit) /\ is \in SUBSET (1..MaxHit)
      BY <1>2, SearchAssumption DEF Hits
    <3>2. \A u \in matching[k] \ is : u \in left
      OBVIOUS
    <3>3. \A u \in matching[k] \ is : ~(u < x)
      BY <2>3, <3>2
    <3>4. Place(is, x) >= Place(matching[k], x)
      <4> HIDE DEF is
      <4> QED BY <2>2, <3>1, <3>3, PlaceKept
    <3>5. /\ Place(matching[k], x) \in 1..Cardinality(matching[k])
          /\ Place(is, x) \in 1..Cardinality(is)
          /\ Cardinality(matching[k]) \in 0..MaxHit /\ Cardinality(is) \in 0..MaxHit
      <4> HIDE DEF is
      <4> QED BY <2>1, <2>2, <3>1, PlaceCounts
    <3>6. search.offset[k] \in 0..MaxHit
      BY <1>2 DEF Searcher
    <3> HIDE DEF is
    <3>7. Place(is, x) > search.offset[k]
      BY <2>3, <3>1, <3>4, <3>5, <3>6
    <3> QED BY <2>2, <3>7
  <2>4. \A g \in search.left[k] : g \in left
    OBVIOUS
  <2> HIDE DEF is, left
  <2> QED BY <2>1, <2>2, <2>3, <2>4
<1> HIDE DEF is, left
<1>7. SearchAhead'
  <2> SUFFICES ASSUME NEW l \in search.listed, NEW x \in search'.stayed[l]
               PROVE  /\ x \in matching'[l]
                      /\ \/ x \in search'.seen[l]
                         \/ \E g \in search'.left[l] : g < x
                         \/ Place(matching'[l], x) > search'.offset[l]
    BY <1>4 DEF SearchAhead
  <2>1. CASE l = k
    <3>1. x \in search.stayed[k] /\ x # h
      BY <1>4, <2>1
    <3> QED BY <1>3, <1>4, <1>6, <2>1, <3>1
  <2>2. CASE l # k
    <3>1. l \in SearchLists
      BY <1>2 DEF Searcher
    <3> QED BY <1>2, <1>3, <1>4, <2>2, <3>1 DEF SeInv, SearchAhead
  <2> QED BY <2>1, <2>2
<1>8. SearchExhaustive'
  BY <1>4 DEF SearchExhaustive
<1> QED BY <1>5, <1>7, <1>8 DEF SeInv

LEMMA NextSearch ==
  ASSUME SeInv, [SeNext]_seVars
  PROVE  SeInv'
<1>1. CASE UNCHANGED seVars
  BY <1>1 DEF seVars, SeInv, SeTypeOK, SearchAhead, SearchExhaustive
<1> QED BY <1>1, BeginStep, ContinueStep, ChangeStep DEF SeNext

LEMMA SearchInvariant == SeSpec => []SeInv
BY InitSearch, NextSearch, PTL DEF SeSpec

(* What matches and what a search has seen is well-typed; its offsets stay *)
(* within the lists.                                                       *)
THEOREM SearchTypes == SeSpec => []SeTypeOK
BY SearchInvariant, PTL DEF SeInv

(* A search that has ended has served all that matched all the while,      *)
(* except behind what left: for lists of any length and any changes.       *)
THEOREM SearchesExhaust == SeSpec => []SearchExhaustive
BY SearchInvariant, PTL DEF SeInv

-----------------------------------------------------------------------------
(* Navigation: lists that change under a reader, and paths.                *)

(* What offset and limit select of a sequence.                             *)
LEMMA Sliced ==
  ASSUME NEW S, NEW rows \in Seq(S), NEW offset \in Nat, NEW n \in Nat
  PROVE  LET s == Slice(rows, offset, n)
             end == IF offset + n < Len(rows) THEN offset + n ELSE Len(rows)
         IN  /\ s \in Seq(S)
             /\ Len(s) = IF offset < end THEN end - offset ELSE 0
             /\ \A i \in 1..Len(s) : s[i] = rows[offset + i] /\ offset + i \in 1..Len(rows)
<1> DEFINE s == Slice(rows, offset, n)
           end == IF offset + n < Len(rows) THEN offset + n ELSE Len(rows)
<1>1. Len(rows) \in Nat /\ DOMAIN rows = 1..Len(rows) /\ \A i \in 1..Len(rows) : rows[i] \in S
  BY LenProperties, ElementOfSeq
<1>2. end \in Nat /\ end <= Len(rows) /\ s = SubSeq(rows, offset + 1, end)
  BY <1>1 DEF Slice
<1> HIDE DEF s, end
<1>3. \A i \in offset + 1..end : rows[i] \in S
  BY <1>1, <1>2
<1>4. offset + 1 \in Int /\ end \in Int
  BY <1>2
<1>5. /\ SubSeq(rows, offset + 1, end) \in Seq(S)
      /\ Len(SubSeq(rows, offset + 1, end)) =
           IF offset + 1 <= end THEN end - (offset + 1) + 1 ELSE 0
      /\ \A i \in 1..end - (offset + 1) + 1 :
           SubSeq(rows, offset + 1, end)[i] = rows[(offset + 1) + i - 1]
  BY <1>3, <1>4, SubSeqProperties
<1>6. Len(s) = IF offset < end THEN end - offset ELSE 0
  BY <1>2, <1>5
<1>7. ASSUME NEW i \in 1..Len(s) PROVE s[i] = rows[offset + i] /\ offset + i \in 1..Len(rows)
  <2>1. offset < end /\ i \in 1..end - offset /\ i \in Nat
    BY <1>2, <1>6
  <2>2. i \in 1..end - (offset + 1) + 1 /\ (offset + 1) + i - 1 = offset + i
    BY <1>2, <2>1
  <2>3. offset + i \in 1..Len(rows)
    BY <1>1, <1>2, <2>1
  <2> QED BY <1>2, <1>5, <2>2, <2>3
<1> QED BY <1>2, <1>5, <1>6, <1>7 DEF s, end

(* A page of a list holds the rows whose places are on it.                 *)
LEMMA PageHolds ==
  ASSUME NEW m \in Nat, NEW S \in SUBSET (1..m), NEW offset \in Nat, NEW limit \in Nat
  PROVE  LET page == PageAt(Sorted(S), offset, limit)
         IN  /\ page.items = OnPage(S, offset, limit)
             /\ page.more = (Cardinality(S) > offset + limit)
             /\ page.more => page.next = offset + limit
<1> DEFINE rows == Sorted(S)
           n == Cardinality(S)
           some == Slice(rows, offset, limit + 1)
           items == Slice(some, 0, limit)
<1>1. n \in Nat /\ \A t \in S : Place(S, t) \in 1..n
  BY PlaceCounts
<1>2. /\ rows \in [1..n -> S]
      /\ \A i \in 1..n : Place(S, rows[i]) = i
      /\ \A t \in S : rows[Place(S, t)] = t
  BY SortedByPlace
<1> HIDE DEF n, rows
<1>3. rows \in Seq(S) /\ Len(rows) = n
  BY <1>1, <1>2, FunctionIsSeq
<1>4. /\ some \in Seq(S)
      /\ Len(some) = IF offset + (limit + 1) < n THEN limit + 1
                     ELSE IF offset < n THEN n - offset ELSE 0
      /\ \A i \in 1..Len(some) : some[i] = rows[offset + i] /\ offset + i \in 1..n
  <2> DEFINE end == IF offset + (limit + 1) < Len(rows) THEN offset + (limit + 1) ELSE Len(rows)
  <2>1. /\ some \in Seq(S)
        /\ Len(some) = IF offset < end THEN end - offset ELSE 0
        /\ \A i \in 1..Len(some) : some[i] = rows[offset + i] /\ offset + i \in 1..Len(rows)
    <3>1. limit + 1 \in Nat
      OBVIOUS
    <3> QED BY <1>3, <3>1, Sliced
  <2> HIDE DEF some
  <2>2. Len(some) = IF offset + (limit + 1) < n THEN limit + 1
                    ELSE IF offset < n THEN n - offset ELSE 0
    BY <1>1, <1>3, <2>1
  <2> QED BY <1>3, <2>1, <2>2
<1>5. Len(some) \in Nat
  BY <1>1, <1>4
<1>6. /\ Len(items) = IF limit < Len(some) THEN limit ELSE Len(some)
      /\ items \in Seq(S)
      /\ \A i \in 1..Len(items) : items[i] = some[i] /\ i \in 1..Len(some)
  <2> DEFINE end == IF 0 + limit < Len(some) THEN 0 + limit ELSE Len(some)
  <2>1. /\ items \in Seq(S)
        /\ Len(items) = IF 0 < end THEN end - 0 ELSE 0
        /\ \A i \in 1..Len(items) : items[i] = some[0 + i] /\ 0 + i \in 1..Len(some)
    <3> HIDE DEF some
    <3> QED BY <1>4, Sliced
  <2> HIDE DEF items, some
  <2>2. Len(items) = IF limit < Len(some) THEN limit ELSE Len(some)
    BY <1>5, <2>1
  <2>3. \A i \in 1..Len(items) : 0 + i = i
    BY <1>5, <2>2
  <2> QED BY <2>1, <2>2, <2>3
<1> HIDE DEF some, items
<1>7. (Len(some) > limit) = (n > offset + limit)
  BY <1>1, <1>4
<1>8. Len(some) > limit => offset + Len(items) = offset + limit
  BY <1>5, <1>6
<1>9. \A i \in 1..Len(items) : i \in Nat /\ items[i] = rows[offset + i] /\ offset + i \in 1..n /\ i <= limit
  BY <1>4, <1>5, <1>6
<1>10. \A j \in 1..n : offset < j /\ j <= offset + limit => j - offset \in 1..Len(items)
  BY <1>1, <1>4, <1>5, <1>6
<1>11. ToSet(items) = OnPage(S, offset, limit)
  <2>1. ToSet(items) = {items[i] : i \in 1..Len(items)}
    BY <1>6, LenProperties DEF ToSet
  <2>2. ASSUME NEW i \in 1..Len(items) PROVE items[i] \in OnPage(S, offset, limit)
    <3>1. items[i] \in S /\ Place(S, items[i]) = offset + i
      BY <1>2, <1>9
    <3>2. offset < offset + i /\ offset + i <= offset + limit
      BY <1>9, <1>5, <1>6
    <3> QED BY <3>1, <3>2 DEF OnPage
  <2>3. ASSUME NEW t \in OnPage(S, offset, limit) PROVE \E i \in 1..Len(items) : t = items[i]
    <3> DEFINE j == Place(S, t)
    <3>1. t \in S /\ offset < j /\ j <= offset + limit /\ j \in 1..n
      BY <1>1 DEF OnPage
    <3>2. j - offset \in 1..Len(items) /\ offset + (j - offset) = j
      BY <1>10, <3>1
    <3>3. items[j - offset] = rows[j]
      BY <1>9, <3>2
    <3>4. rows[j] = t
      BY <1>2, <3>1
    <3> QED BY <3>2, <3>3, <3>4
  <2> QED BY <2>1, <2>2, <2>3
<1>12. PageAt(rows, offset, limit) =
         [items |-> ToSet(items), more |-> Len(some) > limit, next |-> offset + Len(items)]
  BY DEF PageAt, some, items
<1>13. /\ PageAt(rows, offset, limit).items = OnPage(S, offset, limit)
       /\ PageAt(rows, offset, limit).more = (n > offset + limit)
       /\ PageAt(rows, offset, limit).more => PageAt(rows, offset, limit).next = offset + limit
  <2> DEFINE page == PageAt(rows, offset, limit)
  <2>1. /\ page.items = ToSet(items) /\ page.more = (Len(some) > limit)
        /\ page.next = offset + Len(items)
    BY <1>12
  <2> HIDE DEF page
  <2>2. page.more = (n > offset + limit)
    BY <1>7, <2>1
  <2>3. page.more => page.next = offset + limit
    BY <1>8, <2>1
  <2> QED BY <1>11, <2>1, <2>2, <2>3 DEF page
<1> QED BY <1>13 DEF rows, n

(* While a client pages through a list, what was listed all the while is   *)
(* still ahead of its cursor, or was seen, or a row before it has left.    *)
PagesAhead ==
  /\ reader.done => reader.cursor = 0
  /\ reader.cursor > 0 => reader.limit > 0
  /\ reader.cursor > 0 =>
       \A t \in reader.stayed :
         /\ t \in Listed(edges, reader.list)
         /\ \/ t \in reader.seen
            \/ \E u \in reader.left : u < t
            \/ Place(Listed(edges, reader.list), t) > reader.cursor

(* No client has asked for paths while one pages.                          *)
OneAsks == answer # Unasked => reader = Away

ReadTypes == edges \subseteq Edges /\ changes \in 0..MaxChanges /\ reader \in Reader

LEMMA ListedTypes ==
  ASSUME NEW es, NEW l
  PROVE  Listed(es, l) \in SUBSET (1..MaxType)
BY DEF Listed, VocabularyTypes

LEMMA InitPages == NaInit => ReadTypes /\ PagesAhead /\ PagesComplete
<1> SUFFICES ASSUME NaInit PROVE ReadTypes /\ PagesAhead /\ PagesComplete
  OBVIOUS
<1>1. edges \subseteq Edges
  BY DEF NaInit
<1>2. reader \in Reader
  BY NavigationAssumption DEF NaInit, Away, Reader, Lists
<1>3. changes \in 0..MaxChanges
  BY NavigationAssumption DEF NaInit
<1> QED BY <1>1, <1>2, <1>3 DEF NaInit, Away, ReadTypes, PagesAhead, PagesComplete

(* A page, of a list that is begun or gone on with.                        *)
LEMMA PageRead ==
  ASSUME ReadTypes, NEW l \in Lists, NEW limit \in 1..MaxType, NEW offset \in 0..MaxType,
         NEW seen \in SUBSET VocabularyTypes, NEW stayed \in SUBSET VocabularyTypes,
         NEW left \in SUBSET VocabularyTypes,
         ReadPage(l, limit, offset, seen, stayed, left), UNCHANGED <<edges, changes>>,
         \A t \in stayed : /\ t \in Listed(edges, l)
                           /\ \/ t \in seen
                              \/ \E u \in left : u < t
                              \/ Place(Listed(edges, l), t) > offset
  PROVE  ReadTypes' /\ PagesAhead' /\ PagesComplete'
<1> DEFINE S == Listed(edges, l)
           n == Cardinality(S)
           page == PageAt(Sorted(S), offset, limit)
           cursor == IF page.more THEN page.next ELSE 0
<1>1. S \in SUBSET (1..MaxType) /\ MaxType \in Nat /\ limit \in Nat /\ offset \in Nat /\ limit >= 1
  BY ListedTypes, NavigationAssumption
<1>2. /\ page.items = OnPage(S, offset, limit)
      /\ page.more = (n > offset + limit)
      /\ page.more => page.next = offset + limit
  BY <1>1, PageHolds
<1>3. reader' = [list |-> l, limit |-> limit, cursor |-> cursor,
                 seen |-> seen \cup page.items, stayed |-> stayed, left |-> left,
                 done |-> ~page.more]
  BY DEF ReadPage
<1> HIDE DEF S, page
<1>4. n \in Nat /\ n <= MaxType /\ \A t \in S : Place(S, t) \in 1..n
  BY <1>1, PlaceCounts
<1>5. cursor \in 0..MaxType /\ (page.more => cursor = offset + limit) /\ (cursor > 0 <=> page.more)
  <2>1. CASE page.more
    <3>1. cursor = offset + limit /\ n > offset + limit
      BY <1>2, <2>1
    <3> HIDE DEF cursor
    <3> QED BY <1>1, <1>4, <2>1, <3>1
  <2>2. CASE ~page.more
    <3>1. cursor = 0
      BY <2>2
    <3> HIDE DEF cursor
    <3> QED BY <1>1, <2>2, <3>1
  <2> QED BY <2>1, <2>2
<1> HIDE DEF cursor
<1>6. page.items \subseteq VocabularyTypes
  BY <1>1, <1>2 DEF OnPage, VocabularyTypes
<1>7. page.more \in BOOLEAN
  BY <1>2
<1>8. ReadTypes'
  <2>1. limit \in 0..MaxType
    BY <1>1
  <2>2. reader' \in Reader
    BY <1>3, <1>5, <1>6, <1>7, <2>1 DEF Reader
  <2> QED BY <2>2 DEF ReadTypes
<1>9. ASSUME NEW t \in stayed
      PROVE  \/ t \in seen \cup page.items
             \/ \E u \in left : u < t
             \/ page.more /\ Place(S, t) > cursor
  <2>1. CASE Place(S, t) > offset /\ t \in S
    <3>1. Place(S, t) \in Nat /\ Place(S, t) <= n
      BY <1>4, <2>1
    <3>2. CASE Place(S, t) <= offset + limit
      BY <1>2, <2>1, <3>2 DEF OnPage
    <3>3. CASE ~(Place(S, t) <= offset + limit)
      <4>1. Place(S, t) > offset + limit /\ n > offset + limit
        BY <1>1, <1>4, <3>1, <3>3
      <4> QED BY <1>2, <1>5, <4>1
    <3> QED BY <3>2, <3>3
  <2> QED BY <2>1 DEF S
<1>10. /\ reader'.list = l /\ reader'.cursor = cursor /\ reader'.seen = seen \cup page.items
       /\ reader'.stayed = stayed /\ reader'.left = left /\ reader'.done = ~page.more
  BY <1>3
<1>11. PagesAhead'
  <2>1. Listed(edges', reader'.list) = S
    BY <1>10 DEF S
  <2>2. reader'.done => reader'.cursor = 0
    BY <1>5, <1>7, <1>10 DEF cursor
  <2>3. reader'.limit > 0
    BY <1>1, <1>3
  <2>4. \A t \in stayed : t \in S
    BY DEF S
  <2> QED BY <1>5, <1>9, <1>10, <2>1, <2>2, <2>4, <2>3 DEF PagesAhead
<1>12. PagesComplete'
  BY <1>9, <1>10 DEF PagesComplete
<1> QED BY <1>8, <1>11, <1>12

LEMMA FirstStep ==
  ASSUME ReadTypes, FirstPage
  PROVE  ReadTypes' /\ PagesAhead' /\ PagesComplete'
<1>1. PICK l \in Lists, limit \in 1..MaxType : ReadPage(l, limit, 0, {}, Listed(edges, l), {})
  BY DEF FirstPage
<1>2. UNCHANGED <<edges, changes>> /\ 0 \in 0..MaxType
  BY NavigationAssumption DEF FirstPage
<1> DEFINE S == Listed(edges, l)
<1>3. S \in SUBSET (1..MaxType) /\ MaxType \in Nat
  BY ListedTypes, NavigationAssumption
<1> HIDE DEF S
<1>4. \A t \in S : Place(S, t) > 0
  BY <1>3, PlaceCounts
<1>5. S \in SUBSET VocabularyTypes /\ {} \in SUBSET VocabularyTypes
  BY <1>3 DEF VocabularyTypes
<1> QED BY <1>1, <1>2, <1>4, <1>5, PageRead DEF S

LEMMA NextStep ==
  ASSUME ReadTypes, PagesAhead, NextPage
  PROVE  ReadTypes' /\ PagesAhead' /\ PagesComplete'
<1>1. /\ reader.list \in Lists /\ reader.limit \in 0..MaxType /\ reader.cursor \in 0..MaxType
      /\ reader.seen \in SUBSET VocabularyTypes /\ reader.stayed \in SUBSET VocabularyTypes
      /\ reader.left \in SUBSET VocabularyTypes
  BY DEF ReadTypes, Reader
<1>2. /\ reader.cursor > 0 /\ UNCHANGED <<edges, changes>>
      /\ ReadPage(reader.list, reader.limit, reader.cursor,
                  reader.seen, reader.stayed, reader.left)
  BY DEF NextPage
<1>3. reader.limit \in 1..MaxType
  BY <1>1, <1>2, NavigationAssumption DEF PagesAhead
<1>4. \A t \in reader.stayed :
        /\ t \in Listed(edges, reader.list)
        /\ \/ t \in reader.seen
           \/ \E u \in reader.left : u < t
           \/ Place(Listed(edges, reader.list), t) > reader.cursor
  BY <1>2 DEF PagesAhead
<1> QED BY <1>1, <1>2, <1>3, <1>4, PageRead

(* Others change the list between two pages.                               *)
LEMMA ChangedStep ==
  ASSUME ReadTypes, PagesAhead, EdgeChanged
  PROVE  ReadTypes' /\ PagesAhead' /\ PagesComplete'
<1> DEFINE was == Listed(edges, reader.list)
           is == Listed(edges', reader.list)
<1>1. /\ reader.cursor > 0 /\ changes < MaxChanges /\ changes' = changes + 1
      /\ reader' = [reader EXCEPT !.stayed = @ \cap is, !.left = @ \cup (was \ is)]
      /\ edges' \subseteq Edges
  BY DEF EdgeChanged, ReadTypes
<1>2. was \in SUBSET (1..MaxType) /\ is \in SUBSET (1..MaxType) /\ MaxType \in Nat
  BY ListedTypes, NavigationAssumption
<1> HIDE DEF was, is
<1>3. /\ reader' \in Reader /\ reader'.list = reader.list /\ reader'.limit = reader.limit
      /\ reader'.cursor = reader.cursor /\ reader'.seen = reader.seen
      /\ reader'.stayed = reader.stayed \cap is /\ reader'.left = reader.left \cup (was \ is)
      /\ reader'.done = reader.done
  BY <1>1, <1>2 DEF ReadTypes, Reader, VocabularyTypes
<1>4. changes' \in 0..MaxChanges
  BY <1>1, NavigationAssumption DEF ReadTypes
<1>5. reader.cursor \in Nat
  BY <1>2 DEF ReadTypes, Reader
<1>6. reader.done = FALSE
  <2>1. reader.done \in BOOLEAN /\ reader.cursor # 0
    BY <1>1, <1>5 DEF ReadTypes, Reader
  <2> QED BY <2>1 DEF PagesAhead
<1>7. ASSUME NEW t \in reader.stayed \cap is
      PROVE  \/ t \in reader.seen
             \/ \E u \in reader.left \cup (was \ is) : u < t
             \/ Place(is, t) > reader.cursor
  <2>1. /\ t \in was
        /\ \/ t \in reader.seen
           \/ \E u \in reader.left : u < t
           \/ Place(was, t) > reader.cursor
    BY <1>1 DEF PagesAhead, was
  <2>2. CASE Place(was, t) > reader.cursor /\ \A u \in was \ is : ~(u < t)
    <3>1. Place(was, t) <= Place(is, t)
      BY <1>2, <2>2, PlaceKept
    <3>2. /\ Place(was, t) \in 1..Cardinality(was) /\ Cardinality(was) \in 0..MaxType
          /\ Place(is, t) \in 1..Cardinality(is) /\ Cardinality(is) \in 0..MaxType
      BY <1>2, <2>1, PlaceCounts
    <3>3. Place(is, t) > reader.cursor
      BY <1>2, <1>5, <2>2, <3>1, <3>2
    <3> QED BY <3>3
  <2> QED BY <2>1, <2>2
<1>8. PagesAhead'
  <2>1. Listed(edges', reader'.list) = is
    BY <1>3 DEF is
  <2> QED BY <1>1, <1>3, <1>6, <1>7, <2>1 DEF PagesAhead
<1>9. PagesComplete'
  BY <1>3, <1>6 DEF PagesComplete
<1> QED BY <1>1, <1>3, <1>4, <1>8, <1>9 DEF ReadTypes

LEMMA NavigationStep ==
  ASSUME ReadTypes, PagesAhead, PagesComplete, OneAsks, [NaNext]_naVars
  PROVE  ReadTypes' /\ PagesAhead' /\ PagesComplete' /\ OneAsks'
<1>1. ASSUME FirstPage PROVE OneAsks'
  BY <1>1 DEF FirstPage, OneAsks, Unasked
<1>2. ASSUME NextPage \/ EdgeChanged PROVE OneAsks'
  <2>1. reader.cursor > 0
    BY <1>2 DEF NextPage, EdgeChanged
  <2>2. reader # Away
    BY <2>1 DEF Away
  <2>3. answer' = answer
    BY <1>2 DEF NextPage, EdgeChanged
  <2> QED BY <2>2, <2>3 DEF OneAsks, Unasked
<1>3. ASSUME FindPaths PROVE OneAsks' /\ UNCHANGED <<edges, changes, reader>>
  BY <1>3 DEF FindPaths, OneAsks, Away
<1>4. ASSUME UNCHANGED <<edges, changes, reader>>
      PROVE  ReadTypes' /\ PagesAhead' /\ PagesComplete'
  BY <1>4 DEF ReadTypes, PagesAhead, PagesComplete, Listed, Parents
<1>5. CASE UNCHANGED naVars
  BY <1>4, <1>5 DEF naVars, OneAsks, Unasked, Away
<1> QED BY <1>1, <1>2, <1>3, <1>4, <1>5, FirstStep, NextStep, ChangedStep DEF NaNext

(* A path is of distinct types, each a parent of the one before it.        *)
LEMMA SimplePath ==
  ASSUME NEW t, NEW p \in Simple(t)
  PROVE  /\ p \in Seq(VocabularyTypes) /\ Len(p) \in 1..MaxType /\ DOMAIN p = 1..Len(p)
         /\ p[1] = t /\ Last(p) = p[Len(p)] /\ ToSet(p) = {p[i] : i \in 1..Len(p)}
         /\ IsFiniteSet(ToSet(p)) /\ Cardinality(ToSet(p)) = Len(p)
         /\ \A i, j \in 1..Len(p) : p[i] = p[j] => i = j
         /\ \A i \in 1..Len(p) - 1 : p[i + 1] \in Parents(edges, p[i])
<1>1. PICK n \in VocabularyTypes : p \in [1..n -> VocabularyTypes]
  BY DEF Simple
<1>2. n \in 1..MaxType /\ n \in Nat
  BY NavigationAssumption DEF VocabularyTypes
<1>3. p \in Seq(VocabularyTypes)
  BY <1>1, <1>2, FunctionIsSeq
<1>4. Len(p) = n /\ DOMAIN p = 1..n
  BY <1>1, <1>2, FunctionIsSeq
<1>5. /\ p[1] = t /\ Cardinality(ToSet(p)) = Len(p)
      /\ \A i \in 1..Len(p) - 1 : p[i + 1] \in Parents(edges, p[i])
  BY DEF Simple
<1>6. ToSet(p) = {p[i] : i \in 1..n}
  BY <1>4 DEF ToSet
<1>7. ToSet(p) \subseteq 1..MaxType
  BY <1>1, <1>6 DEF VocabularyTypes
<1>8. IsFiniteSet(ToSet(p))
  <2>1. IsFiniteSet(1..MaxType)
    BY UpTo, NavigationAssumption
  <2> QED BY <1>7, <2>1, FS_Subset
<1>9. \A i, j \in 1..n : p[i] = p[j] => i = j
  BY <1>2, <1>4, <1>5, <1>6, CountedApart
<1> QED BY <1>2, <1>3, <1>4, <1>5, <1>6, <1>8, <1>9 DEF Last

(* Any path of distinct types along edges is one.                          *)
LEMMA IsSimple ==
  ASSUME NEW t, NEW n \in 1..MaxType, NEW p \in [1..n -> VocabularyTypes], p[1] = t,
         Cardinality(ToSet(p)) = n, \A i \in 1..n - 1 : p[i + 1] \in Parents(edges, p[i])
  PROVE  p \in Simple(t)
<1>1. n \in Nat
  BY NavigationAssumption
<1>2. p \in Seq(VocabularyTypes)
  BY <1>1, FunctionIsSeq
<1>3. Len(p) = n
  BY <1>1, FunctionIsSeq
<1>4. p \in UNION {[1..k -> VocabularyTypes] : k \in VocabularyTypes}
  BY DEF VocabularyTypes
<1> QED BY <1>3, <1>4 DEF Simple

(* A path of one type; and a path with a parent more that is not on it.    *)
LEMMA ShortestPath ==
  ASSUME NEW t \in VocabularyTypes
  PROVE  <<t>> \in Simple(t)
<1>1. /\ <<t>> \in [1..1 -> VocabularyTypes] /\ <<t>>[1] = t /\ ToSet(<<t>>) = {t}
  <2>1. <<t>> = [i \in 1..1 |-> t]
    OBVIOUS
  <2>2. ToSet(<<t>>) = {t}
    BY <2>1 DEF ToSet
  <2> QED BY <2>1, <2>2
<1>2. Cardinality({t}) = 1
  BY FS_Singleton
<1>3. 1 \in 1..MaxType /\ 1..1 - 1 = {}
  BY NavigationAssumption
<1> QED BY <1>1, <1>2, <1>3, IsSimple

LEMMA LongerPath ==
  ASSUME NEW t, NEW p \in Simple(t), NEW u \in Parents(edges, Last(p)) \ ToSet(p)
  PROVE  Append(p, u) \in Simple(t)
<1> DEFINE n == Len(p)
           q == Append(p, u)
<1>1. /\ p \in Seq(VocabularyTypes) /\ n \in 1..MaxType /\ DOMAIN p = 1..n
      /\ p[1] = t /\ Last(p) = p[n] /\ ToSet(p) = {p[i] : i \in 1..n}
      /\ IsFiniteSet(ToSet(p)) /\ Cardinality(ToSet(p)) = n
      /\ \A i \in 1..n - 1 : p[i + 1] \in Parents(edges, p[i])
  BY SimplePath
<1>2. u \in VocabularyTypes
  BY DEF Parents
<1>3. /\ q \in Seq(VocabularyTypes) /\ Len(q) = n + 1
      /\ \A i \in 1..n : q[i] = p[i]
      /\ q[n + 1] = u
  BY <1>1, <1>2, AppendProperties
<1> HIDE DEF q, n
<1>4. n \in Nat /\ n >= 1 /\ DOMAIN q = 1..n + 1
  BY <1>1, <1>3, LenProperties, NavigationAssumption
<1>5. ToSet(q) = ToSet(p) \cup {u}
  <2>1. ToSet(q) = {q[i] : i \in 1..n + 1}
    BY <1>4 DEF ToSet
  <2>2. 1..n + 1 = 1..n \cup {n + 1}
    BY <1>4
  <2> QED BY <1>1, <1>3, <2>1, <2>2
<1>6. Cardinality(ToSet(q)) = n + 1
  BY <1>1, <1>5, FS_AddElement
<1>7. n + 1 \in 1..MaxType
  <2>1. ToSet(q) \in SUBSET (1..MaxType)
    <3>1. \A i \in 1..n : p[i] \in VocabularyTypes
      BY <1>1, ElementOfSeq DEF n
    <3>2. ToSet(p) \subseteq VocabularyTypes
      BY <1>1, <3>1
    <3> QED BY <1>2, <1>5, <3>2 DEF VocabularyTypes
  <2>2. Cardinality(ToSet(q)) <= MaxType
    <3>1. IsFiniteSet(1..MaxType) /\ Cardinality(1..MaxType) = MaxType
      BY UpTo, NavigationAssumption
    <3> QED BY <2>1, <3>1, FS_Subset
  <2> QED BY <1>4, <1>6, <2>2, NavigationAssumption
<1>8. \A i \in 1..(n + 1) - 1 : q[i + 1] \in Parents(edges, q[i])
  <2> SUFFICES ASSUME NEW i \in 1..n PROVE q[i + 1] \in Parents(edges, q[i])
    BY <1>4
  <2>1. CASE i = n
    BY <1>1, <1>3, <2>1
  <2>2. CASE i # n
    <3>1. i \in 1..n - 1 /\ i + 1 \in 1..n
      BY <1>4, <2>2
    <3> QED BY <1>1, <1>3, <3>1
  <2> QED BY <2>1, <2>2
<1>9. q \in [1..n + 1 -> VocabularyTypes] /\ q[1] = t
  <2>1. 1 \in 1..n
    BY <1>4
  <2>2. \A i \in 1..n + 1 : q[i] \in VocabularyTypes
    BY <1>3, <1>4, ElementOfSeq
  <2>3. q = [i \in 1..n + 1 |-> q[i]]
    BY <1>3, <1>4, SeqDef
  <2> QED BY <1>1, <1>3, <2>1, <2>2, <2>3
<1> QED BY <1>6, <1>7, <1>8, <1>9, IsSimple DEF q

(* A path begins with another; and how it goes on after it.                *)
Begins(s, q) == Len(s) <= Len(q) /\ \A i \in 1..Len(s) : q[i] = s[i]

LEMMA GoesOn ==
  ASSUME NEW t, NEW p \in Simple(t), NEW q \in Simple(t), Begins(p, q), p # q
  PROVE  LET u == q[Len(p) + 1]
         IN  u \in Parents(edges, Last(p)) \ ToSet(p) /\ Begins(Append(p, u), q)
<1> DEFINE n == Len(p)
           u == q[n + 1]
<1>1. /\ p \in Seq(VocabularyTypes) /\ n \in Nat /\ n >= 1
      /\ Last(p) = p[n] /\ ToSet(p) = {p[i] : i \in 1..n}
  BY SimplePath, NavigationAssumption
<1>2. /\ q \in Seq(VocabularyTypes) /\ Len(q) \in Nat
      /\ \A i, j \in 1..Len(q) : q[i] = q[j] => i = j
      /\ \A i \in 1..Len(q) - 1 : q[i + 1] \in Parents(edges, q[i])
  BY SimplePath, NavigationAssumption
<1>3. n <= Len(q) /\ \A i \in 1..n : q[i] = p[i]
  BY DEF Begins
<1>4. n < Len(q)
  <2>1. CASE n = Len(q)
    <3>1. p = q
      BY <1>1, <1>2, <1>3, <2>1, SeqEqual
    <3> QED BY <3>1
  <2> QED BY <1>1, <1>2, <1>3, <2>1
<1>5. u \in Parents(edges, p[n])
  <2>1. n \in 1..Len(q) - 1 /\ n \in 1..n
    BY <1>1, <1>2, <1>4
  <2> QED BY <1>2, <1>3, <2>1
<1>6. u \notin ToSet(p)
  <2> SUFFICES ASSUME NEW i \in 1..n, u = p[i] PROVE FALSE
    BY <1>1
  <2>1. i \in 1..Len(q) /\ n + 1 \in 1..Len(q) /\ i # n + 1
    BY <1>1, <1>2, <1>4
  <2> QED BY <1>2, <1>3, <2>1
<1>7. Begins(Append(p, u), q)
  <2>1. u \in VocabularyTypes
    BY <1>5 DEF Parents
  <2>2. /\ Len(Append(p, u)) = n + 1
        /\ \A i \in 1..n : Append(p, u)[i] = p[i]
        /\ Append(p, u)[n + 1] = u
    BY <1>1, <2>1, AppendProperties
  <2>3. \A i \in 1..n + 1 : i \in 1..n \/ i = n + 1
    BY <1>1
  <2> HIDE DEF n
  <2>4. n + 1 <= Len(q)
    BY <1>1, <1>2, <1>4
  <2> QED BY <1>3, <2>2, <2>3, <2>4 DEF Begins
<1> QED BY <1>1, <1>5, <1>6, <1>7

(* What is known in each turn of the search: its paths are paths, and as   *)
(* long as it left nothing out, every path is still to come or was taken.  *)
Taken(t, p, q) ==
  /\ Parents(edges, Last(q)) \cap ToSet(q) = {}
  /\ Parents(edges, Last(q)) = {} => q \in ToSet(p.completed)

Searched(t, p) ==
  /\ p \in [stack : Seq(Simple(t)), completed : Seq(Simple(t)), truncated : BOOLEAN]
  /\ ~p.truncated =>
       /\ \A q \in ToSet(p.completed) : Parents(edges, Last(q)) = {}
       /\ \A q \in Simple(t) : (\E s \in ToSet(p.stack) : Begins(s, q)) \/ Taken(t, p, q)

LEMMA ElementsOf ==
  ASSUME NEW S, NEW s \in Seq(S)
  PROVE  ToSet(s) = {s[i] : i \in 1..Len(s)} /\ ToSet(s) \subseteq S
<1>1. DOMAIN s = 1..Len(s) /\ \A i \in 1..Len(s) : s[i] \in S
  BY LenProperties, ElementOfSeq
<1> QED BY <1>1 DEF ToSet

(* The last of a sequence, and the others.                                 *)
LEMMA LastAndFront ==
  ASSUME NEW S, NEW s \in Seq(S), s # <<>>
  PROVE  Front(s) \in Seq(S) /\ Last(s) \in S /\ ToSet(s) = ToSet(Front(s)) \cup {Last(s)}
<1> DEFINE n == Len(s)
           f == Front(s)
<1>1. n \in Nat /\ n >= 1 /\ \A i \in 1..n : s[i] \in S
  BY LenProperties, EmptySeq, ElementOfSeq
<1>2. f = SubSeq(s, 1, n - 1) /\ Last(s) = s[n]
  BY DEF Front, Last
<1>3. f \in Seq(S) /\ Len(f) = n - 1 /\ \A i \in 1..n - 1 : f[i] = s[i]
  <2> HIDE DEF n, f
  <2>1. \A i \in 1..n - 1 : s[i] \in S
    BY <1>1
  <2>2. /\ SubSeq(s, 1, n - 1) \in Seq(S)
        /\ Len(SubSeq(s, 1, n - 1)) = IF 1 <= n - 1 THEN (n - 1) - 1 + 1 ELSE 0
        /\ \A i \in 1..(n - 1) - 1 + 1 : SubSeq(s, 1, n - 1)[i] = s[1 + i - 1]
    BY <1>1, <2>1, SubSeqProperties
  <2>3. \A i \in 1..n - 1 : 1 + i - 1 = i /\ i \in 1..(n - 1) - 1 + 1
    BY <1>1
  <2> QED BY <1>1, <1>2, <2>2, <2>3
<1>4. ToSet(s) = {s[i] : i \in 1..n} /\ ToSet(f) = {f[i] : i \in 1..n - 1}
  BY <1>3, ElementsOf
<1>5. 1..n = 1..n - 1 \cup {n}
  BY <1>1
<1> HIDE DEF n, f
<1>6. ToSet(s) = ToSet(f) \cup {s[n]}
  BY <1>3, <1>4, <1>5
<1> QED BY <1>1, <1>2, <1>3, <1>6 DEF f

(* What is put on the stack for the parents of a path.                     *)
Longer(path, valid) ==
  [i \in 1..Cardinality(valid) |-> Append(path, Reverse(Sorted(valid))[i])]

LEMMA Pushed ==
  ASSUME NEW t, NEW path \in Simple(t), NEW rest \in Seq(Simple(t)),
         NEW valid, valid = Parents(edges, Last(path)) \ ToSet(path)
  PROVE  /\ rest \o Longer(path, valid) \in Seq(Simple(t))
         /\ ToSet(rest \o Longer(path, valid)) = ToSet(rest) \cup {Append(path, u) : u \in valid}
<1> DEFINE k == Cardinality(valid)
           new == [i \in 1..k |-> Append(path, Reverse(Sorted(valid))[i])]
<1>1. valid \in SUBSET (1..MaxType) /\ MaxType \in Nat
  BY NavigationAssumption DEF Parents, VocabularyTypes
<1>2. k \in Nat /\ \A u \in valid : Place(valid, u) \in 1..k
  BY <1>1, PlaceCounts
<1>3. /\ Sorted(valid) \in [1..k -> valid]
      /\ \A u \in valid : Sorted(valid)[Place(valid, u)] = u
  BY <1>1, SortedByPlace
<1> HIDE DEF k
<1>4. Len(Sorted(valid)) = k
  BY <1>2, <1>3, FunctionIsSeq
<1>5. \A i \in 1..k : Reverse(Sorted(valid))[i] = Sorted(valid)[(k - i) + 1] /\ (k - i) + 1 \in 1..k
  BY <1>2, <1>4 DEF Reverse
<1>6. \A i \in 1..k : Reverse(Sorted(valid))[i] \in valid
  BY <1>3, <1>5
<1>7. \A u \in valid : \E i \in 1..k : Reverse(Sorted(valid))[i] = u
  <2> SUFFICES ASSUME NEW u \in valid PROVE \E i \in 1..k : Reverse(Sorted(valid))[i] = u
    OBVIOUS
  <2>1. Place(valid, u) \in 1..k /\ Sorted(valid)[Place(valid, u)] = u
    BY <1>2, <1>3
  <2>2. (k - Place(valid, u)) + 1 \in 1..k
        /\ (k - ((k - Place(valid, u)) + 1)) + 1 = Place(valid, u)
    BY <1>2, <2>1
  <2> QED BY <1>5, <2>1, <2>2
<1>8. \A u \in valid : Append(path, u) \in Simple(t)
  BY LongerPath
<1>9. new \in [1..k -> Simple(t)]
  BY <1>6, <1>8
<1>10. new \in Seq(Simple(t)) /\ Len(new) = k
  BY <1>2, <1>9, FunctionIsSeq
<1>11. \A i \in 1..k : new[i] = Append(path, Reverse(Sorted(valid))[i])
  OBVIOUS
<1> HIDE DEF new
<1>12. ToSet(new) = {new[i] : i \in 1..k}
  BY <1>10, ElementsOf
<1>13. ToSet(new) \subseteq {Append(path, u) : u \in valid}
  BY <1>6, <1>11, <1>12
<1>14. ASSUME NEW u \in valid PROVE Append(path, u) \in ToSet(new)
  <2>1. PICK i \in 1..k : Reverse(Sorted(valid))[i] = u
    BY <1>7
  <2>2. new[i] = Append(path, u)
    BY <1>11, <2>1
  <2> QED BY <1>12, <2>2
<1>15. /\ rest \o new \in Seq(Simple(t))
       /\ ToSet(rest \o new) = ToSet(rest) \cup ToSet(new)
  <2> DEFINE a == Len(rest)
             b == Len(new)
             s == rest \o new
  <2>1. /\ s \in Seq(Simple(t)) /\ Len(s) = a + b
        /\ \A i \in 1..a + b : s[i] = IF i <= a THEN rest[i] ELSE new[i - a]
    BY <1>10, ConcatProperties
  <2>2. a \in Nat /\ b \in Nat
    BY <1>10, LenProperties
  <2>3. /\ ToSet(s) = {s[i] : i \in 1..a + b} /\ ToSet(rest) = {rest[i] : i \in 1..a}
        /\ ToSet(new) = {new[i] : i \in 1..b}
    BY <1>10, <2>1, ElementsOf
  <2> HIDE DEF a, b, s
  <2>4. \A i \in 1..a : i \in 1..a + b /\ s[i] = rest[i]
    BY <2>1, <2>2
  <2>5. \A i \in 1..b : a + i \in 1..a + b /\ s[a + i] = new[i]
    <3> SUFFICES ASSUME NEW i \in 1..b PROVE a + i \in 1..a + b /\ s[a + i] = new[i]
      OBVIOUS
    <3>1. a + i \in 1..a + b /\ ~(a + i <= a) /\ (a + i) - a = i
      BY <2>2
    <3> QED BY <2>1, <3>1
  <2>6. \A i \in 1..a + b : i \in 1..a \/ (i - a \in 1..b /\ s[i] = new[i - a])
    BY <2>1, <2>2
  <2>7. ToSet(s) = ToSet(rest) \cup ToSet(new)
    BY <2>3, <2>4, <2>5, <2>6
  <2> QED BY <2>1, <2>7 DEF s
<1>16. ToSet(new) = {Append(path, u) : u \in valid}
  BY <1>13, <1>14
<1> QED BY <1>15, <1>16 DEF new, k, Longer

(* The paths of distinct types are finitely many.                          *)
LEMMA SimpleIsFinite ==
  ASSUME NEW t
  PROVE  Cardinality(Simple(t)) \in Nat
<1> DEFINE P == Simple(t)
           Steps == (1..MaxType) \X (1..MaxType)
           Graph(p) == {<<i, p[i]>> : i \in DOMAIN p}
           g == [p \in P |-> Graph(p)]
<1>1. MaxType \in Nat
  BY NavigationAssumption
<1>2. IsFiniteSet(SUBSET Steps)
  BY <1>1, UpTo, FS_Product, FS_SUBSET
<1>3. \A p \in P : /\ Len(p) \in Nat /\ DOMAIN p = 1..Len(p) /\ p \in Seq(VocabularyTypes)
                   /\ Graph(p) \subseteq Steps
  <2> SUFFICES ASSUME NEW p \in P
               PROVE  /\ Len(p) \in Nat /\ DOMAIN p = 1..Len(p) /\ p \in Seq(VocabularyTypes)
                      /\ Graph(p) \subseteq Steps
    OBVIOUS
  <2>1. p \in Seq(VocabularyTypes) /\ Len(p) \in 1..MaxType /\ DOMAIN p = 1..Len(p)
    BY SimplePath
  <2>2. \A i \in 1..Len(p) : p[i] \in 1..MaxType /\ i \in 1..MaxType
    <3>1. \A i \in 1..Len(p) : p[i] \in VocabularyTypes
      BY <2>1, ElementOfSeq
    <3> QED BY <1>1, <2>1, <3>1 DEF VocabularyTypes
  <2> QED BY <1>1, <2>1, <2>2
<1>4. \A p, q \in P : Graph(p) = Graph(q) => p = q
  <2> SUFFICES ASSUME NEW p \in P, NEW q \in P, Graph(p) = Graph(q) PROVE p = q
    OBVIOUS
  <2>1. ASSUME NEW i \in DOMAIN p PROVE i \in DOMAIN q /\ q[i] = p[i]
    <3>1. <<i, p[i]>> \in Graph(q)
      OBVIOUS
    <3> QED BY <3>1
  <2>2. \A i \in DOMAIN q : i \in DOMAIN p
    <3> SUFFICES ASSUME NEW i \in DOMAIN q PROVE i \in DOMAIN p
      OBVIOUS
    <3>1. <<i, q[i]>> \in Graph(p)
      OBVIOUS
    <3> QED BY <3>1
  <2>3. DOMAIN p = DOMAIN q
    BY <2>1, <2>2
  <2>4. p = [i \in DOMAIN p |-> p[i]] /\ q = [i \in DOMAIN q |-> q[i]]
    <3>1. /\ p \in Seq(VocabularyTypes) /\ DOMAIN p = 1..Len(p)
          /\ q \in Seq(VocabularyTypes) /\ DOMAIN q = 1..Len(q)
      BY <1>3
    <3> QED BY <3>1, SeqDef
  <2> HIDE DEF Graph
  <2> QED BY <2>1, <2>3, <2>4
<1>5. g \in Injection(P, SUBSET Steps)
  <2> HIDE DEF Graph, P, Steps
  <2> QED BY <1>3, <1>4 DEF Injection, IsInjective
<1>6. IsFiniteSet(P)
  <2> HIDE DEF g, P, Steps
  <2> QED BY <1>2, <1>5, FS_Injection
<1> QED BY <1>6, FS_CardinalityType

(* A turn keeps what is known of the search.                               *)
LEMMA StepKept ==
  ASSUME NEW t, NEW p, Searched(t, p), p.stack # <<>>,
         NEW depth
  PROVE  Searched(t, Step(p, depth))
<1> DEFINE path == Last(p.stack)
           parents == Parents(edges, Last(path))
           valid == parents \ ToSet(path)
           rest == Front(p.stack)
           longer == Append(p.completed, path)
<1>1. /\ rest \in Seq(Simple(t)) /\ path \in Simple(t)
      /\ ToSet(p.stack) = ToSet(rest) \cup {path}
      /\ p.completed \in Seq(Simple(t)) /\ p.truncated \in BOOLEAN
  BY LastAndFront DEF Searched
<1>2. longer \in Seq(Simple(t)) /\ ToSet(longer) = ToSet(p.completed) \cup {path}
  <2> DEFINE n == Len(p.completed)
  <2> HIDE DEF path
  <2>1. /\ longer \in Seq(Simple(t)) /\ Len(longer) = n + 1
        /\ \A i \in 1..n : longer[i] = p.completed[i]
        /\ longer[n + 1] = path
    BY <1>1, AppendProperties
  <2>2. n \in Nat /\ ToSet(p.completed) = {p.completed[i] : i \in 1..n}
    BY <1>1, LenProperties, ElementsOf
  <2>3. ToSet(longer) = {longer[i] : i \in 1..n + 1}
    BY <2>1, ElementsOf
  <2> HIDE DEF n, longer
  <2>4. 1..n + 1 = 1..n \cup {n + 1}
    BY <2>2
  <2> QED BY <2>1, <2>2, <2>3, <2>4
<1>3. \A q \in Simple(t) : Begins(path, q) /\ path # q =>
        \E u \in valid : Begins(Append(path, u), q)
  <2> SUFFICES ASSUME NEW q \in Simple(t), Begins(path, q), path # q
               PROVE  \E u \in valid : Begins(Append(path, u), q)
    OBVIOUS
  <2> HIDE DEF path
  <2>1. LET u == q[Len(path) + 1]
        IN  u \in Parents(edges, Last(path)) \ ToSet(path) /\ Begins(Append(path, u), q)
    BY <1>1, GoesOn
  <2> QED BY <2>1
<1>4. ~p.truncated =>
        /\ \A q \in ToSet(p.completed) : Parents(edges, Last(q)) = {}
        /\ \A q \in Simple(t) : \/ \E s \in ToSet(rest) : Begins(s, q)
                                \/ Begins(path, q)
                                \/ Taken(t, p, q)
  BY <1>1 DEF Searched
<1> HIDE DEF path, rest, longer
<1>5. CASE Len(path) >= depth
  <2>1. Step(p, depth) = [stack |-> rest, completed |-> longer, truncated |-> TRUE]
    BY <1>5 DEF Step, path, rest, longer
  <2> QED BY <1>1, <1>2, <2>1 DEF Searched
<1>6. CASE ~(Len(path) >= depth) /\ parents = {}
  <2> DEFINE q == Step(p, depth)
  <2>1. /\ q \in [stack : Seq(Simple(t)), completed : Seq(Simple(t)), truncated : BOOLEAN]
        /\ q.stack = rest /\ q.completed = longer /\ q.truncated = p.truncated
    <3>1. q = [p EXCEPT !.stack = rest, !.completed = longer]
      BY <1>6 DEF Step, path, rest, longer
    <3>2. p \in [stack : Seq(Simple(t)), completed : Seq(Simple(t)), truncated : BOOLEAN]
      BY DEF Searched
    <3> QED BY <1>1, <1>2, <3>1, <3>2
  <2> HIDE DEF q
  <2>2. ASSUME ~p.truncated, NEW r \in Simple(t)
        PROVE  (\E s \in ToSet(rest) : Begins(s, r)) \/ Taken(t, q, r)
    <3>1. CASE Taken(t, p, r)
      BY <1>2, <2>1, <3>1 DEF Taken
    <3>2. CASE Begins(path, r)
      <4>1. path = r
        BY <1>3, <1>6, <3>2
      <4> QED BY <1>2, <1>6, <2>1, <4>1 DEF Taken
    <3> QED BY <1>4, <2>2, <3>1, <3>2
  <2>3. ~p.truncated => \A r \in ToSet(longer) : Parents(edges, Last(r)) = {}
    BY <1>2, <1>4, <1>6
  <2>4. Searched(t, q)
    BY <1>1, <1>2, <2>1, <2>2, <2>3 DEF Searched
  <2> QED BY <2>4 DEF q
<1>7. CASE ~(Len(path) >= depth) /\ parents # {}
  <2> DEFINE stack == rest \o Longer(path, valid)
             cut == p.truncated \/ valid # parents
             q == [stack |-> stack, completed |-> p.completed, truncated |-> cut]
  <2>1. Step(p, depth) = q
    BY <1>7 DEF Step, path, rest, Longer
  <2>2. /\ stack \in Seq(Simple(t))
        /\ ToSet(stack) = ToSet(rest) \cup {Append(path, u) : u \in valid}
    BY <1>1, Pushed
  <2> HIDE DEF stack
  <2>3. cut \in BOOLEAN
    BY <1>1
  <2>4. ASSUME ~cut, NEW r \in Simple(t)
        PROVE  (\E s \in ToSet(stack) : Begins(s, r)) \/ Taken(t, q, r)
    <3>1. CASE Taken(t, p, r)
      BY <3>1 DEF Taken
    <3>2. CASE \E s \in ToSet(rest) : Begins(s, r)
      BY <2>2, <3>2
    <3>3. CASE Begins(path, r) /\ path # r
      <4>1. PICK u \in valid : Begins(Append(path, u), r)
        BY <1>3, <3>3
      <4>2. Append(path, u) \in ToSet(stack)
        BY <2>2
      <4> QED BY <4>1, <4>2
    <3>4. CASE path = r
      BY <1>7, <2>4, <3>4 DEF Taken
    <3> QED BY <1>4, <2>4, <3>1, <3>2, <3>3, <3>4
  <2>5. ~cut => \A r \in ToSet(p.completed) : Parents(edges, Last(r)) = {}
    BY <1>4
  <2> HIDE DEF cut, valid
  <2> QED BY <1>1, <2>1, <2>2, <2>3, <2>4, <2>5 DEF Searched
<1> QED BY <1>5, <1>6, <1>7

(* What is known when the search ends.                                     *)
LEMMA PathsSearched ==
  ASSUME NEW t \in VocabularyTypes, NEW depth, NEW limit
  PROVE  \E p : /\ Searched(t, p)
               /\ Paths(t, depth, limit) =
                    [type |-> t, found |-> ToSet(p.completed),
                     truncated |-> p.truncated \/ p.stack # <<>>]
<1> DEFINE turns == Cardinality(Simple(t)) + 1
           begin == [stack |-> <<<<t>>>>, completed |-> <<>>, truncated |-> FALSE]
           Turn(p) == IF p.stack = <<>> \/ Len(p.completed) >= limit THEN p ELSE Step(p, depth)
           Solves(f, m) == f = [n \in 0..m |-> IF n = 0 THEN begin ELSE Turn(f[n - 1])]
           at == CHOOSE f : Solves(f, turns)
<1>1. turns \in Nat
  BY SimpleIsFinite
<1>2. Paths(t, depth, limit) =
        [type |-> t, found |-> ToSet(at[turns].completed),
         truncated |-> at[turns].truncated \/ at[turns].stack # <<>>]
  BY DEF Paths
<1>3. Searched(t, begin)
  <2>1. <<t>> \in Simple(t)
    BY ShortestPath
  <2>2. <<<<t>>>> \in Seq(Simple(t)) /\ <<>> \in Seq(Simple(t)) /\ ToSet(<<<<t>>>>) = {<<t>>}
    BY <2>1 DEF ToSet
  <2>3. ToSet(<<>>) = {}
    BY DEF ToSet
  <2>4. \A q \in Simple(t) : Begins(<<t>>, q)
    <3> SUFFICES ASSUME NEW q \in Simple(t) PROVE Begins(<<t>>, q)
      OBVIOUS
    <3>1. Len(q) \in 1..MaxType /\ q[1] = t /\ Len(<<t>>) = 1 /\ <<t>>[1] = t /\ 1..1 = {1}
      BY SimplePath
    <3> QED BY <3>1, NavigationAssumption DEF Begins
  <2> QED BY <2>2, <2>3, <2>4 DEF Searched
<1>4. ASSUME NEW p, Searched(t, p) PROVE Searched(t, Turn(p))
  BY <1>4, StepKept
<1> HIDE DEF turns, begin, Turn
<1>5. \E f : Solves(f, turns)
  <2> DEFINE S == {m \in Nat : \E f : Solves(f, m)}
  <2>1. 0 \in S
    <3>1. Solves([n \in 0..0 |-> begin], 0)
      OBVIOUS
    <3> QED BY <3>1
  <2>2. ASSUME NEW m \in Nat, m \in S PROVE m + 1 \in S
    <3>1. PICK f : Solves(f, m)
      BY <2>2
    <3> DEFINE g == [n \in 0..m + 1 |-> IF n <= m THEN f[n] ELSE Turn(f[m])]
    <3>2. ASSUME NEW n \in 0..m + 1
          PROVE  g[n] = IF n = 0 THEN begin ELSE Turn(g[n - 1])
      <4>1. CASE n = 0
        <5>1. f[0] = begin
          BY <3>1
        <5> QED BY <4>1, <5>1
      <4>2. CASE n \in 1..m
        <5>1. f[n] = Turn(f[n - 1]) /\ n - 1 \in 0..m /\ n - 1 <= m /\ n - 1 \in 0..m + 1
          BY <3>1, <4>2
        <5> QED BY <4>2, <5>1
      <4>3. CASE n = m + 1
        <5>1. ~(n <= m) /\ n - 1 = m /\ n # 0 /\ m \in 0..m + 1 /\ m <= m
          BY <4>3
        <5>2. g[n] = Turn(f[m]) /\ g[m] = f[m]
          BY <5>1
        <5> QED BY <5>1, <5>2
      <4> QED BY <4>1, <4>2, <4>3
    <3>3. g = [n \in 0..m + 1 |-> g[n]]
      OBVIOUS
    <3> HIDE DEF g
    <3>4. Solves(g, m + 1)
      BY <3>2, <3>3
    <3> QED BY <3>4
  <2> HIDE DEF S
  <2>3. turns \in S
    BY <1>1, <2>1, <2>2, NatSet
  <2> QED BY <2>3 DEF S
<1>6. Solves(at, turns)
  <2> HIDE DEF Solves
  <2> QED BY <1>5
<1> HIDE DEF at
<1>7. Searched(t, at[turns])
  <2> DEFINE S == {m \in Nat : m <= turns => Searched(t, at[m])}
  <2>1. 0 \in S
    BY <1>1, <1>3, <1>6
  <2>2. ASSUME NEW m \in Nat, m \in S PROVE m + 1 \in S
    <3> SUFFICES ASSUME m + 1 <= turns PROVE Searched(t, at[m + 1])
      OBVIOUS
    <3>1. m <= turns /\ m + 1 \in 0..turns /\ m + 1 # 0 /\ (m + 1) - 1 = m
      BY <1>1
    <3>2. at[m + 1] = Turn(at[m])
      BY <1>6, <3>1
    <3> QED BY <1>4, <2>2, <3>1, <3>2
  <2> HIDE DEF S
  <2>3. turns \in S
    BY <1>1, <2>1, <2>2, NatSet
  <2> QED BY <1>1, <2>3 DEF S
<1> QED BY <1>2, <1>7

AnswerTypes ==
  /\ answer.type \in Lists /\ answer.found \subseteq Seq(VocabularyTypes)
  /\ answer.truncated \in BOOLEAN

(* The answer to a client that asks for paths.                             *)
LEMMA PathsFound ==
  ASSUME FindPaths
  PROVE  AnswerTypes' /\ PathsComplete'
<1>1. PICK t \in VocabularyTypes, depth \in 1..MaxType + 1, limit \in 1..2 :
        answer' = Paths(t, depth, limit)
  BY DEF FindPaths
<1>2. PICK p : /\ Searched(t, p)
               /\ answer' = [type |-> t, found |-> ToSet(p.completed),
                             truncated |-> p.truncated \/ p.stack # <<>>]
  BY <1>1, PathsSearched
<1>3. /\ p.stack \in Seq(Simple(t)) /\ p.completed \in Seq(Simple(t)) /\ p.truncated \in BOOLEAN
      /\ ToSet(p.completed) \subseteq Simple(t)
  BY <1>2, ElementsOf DEF Searched
<1>4. /\ answer'.type = t /\ answer'.found = ToSet(p.completed)
      /\ answer'.truncated = (p.truncated \/ p.stack # <<>>)
  BY <1>2
<1>5. AnswerTypes'
  <2>1. t \in Lists
    BY DEF Lists
  <2>2. \A q \in Simple(t) : q \in Seq(VocabularyTypes)
    BY SimplePath
  <2>3. answer'.truncated \in BOOLEAN
    BY <1>3, <1>4
  <2> QED BY <1>3, <1>4, <2>1, <2>2, <2>3 DEF AnswerTypes
<1>6. edges' = edges
  BY DEF FindPaths
<1>7. Simple(t)' = Simple(t) /\ \A u : Parents(edges', u) = Parents(edges, u)
  BY <1>6 DEF Simple, Parents
<1>8. ASSUME ~answer'.truncated
      PROVE  /\ ToSet(p.completed) = {q \in Simple(t) : Parents(edges, Last(q)) = {}}
             /\ \A q \in Simple(t) : Parents(edges, Last(q)) \cap ToSet(q) = {}
  <2>1. ~p.truncated /\ p.stack = <<>>
    BY <1>4, <1>8
  <2>2. ToSet(p.stack) = {}
    BY <2>1 DEF ToSet
  <2>3. \A q \in Simple(t) : Taken(t, p, q)
    BY <1>2, <2>1, <2>2 DEF Searched
  <2>4. \A q \in ToSet(p.completed) : Parents(edges, Last(q)) = {}
    BY <1>2, <2>1 DEF Searched
  <2> QED BY <1>3, <2>3, <2>4 DEF Taken
<1>9. PathsComplete'
  <2>1. Simple(answer.type)' = Simple(t)
    BY <1>4, <1>7 DEF Simple, Parents
  <2> QED BY <1>3, <1>4, <1>7, <1>8, <2>1 DEF PathsComplete
<1> QED BY <1>5, <1>9

(* An answer stays as long as the edges do: no one pages then.             *)
LEMMA PathsKept ==
  ASSUME AnswerTypes, PathsComplete, OneAsks, [NaNext]_naVars
  PROVE  AnswerTypes' /\ PathsComplete'
<1>1. ASSUME UNCHANGED <<edges, answer>> PROVE AnswerTypes' /\ PathsComplete'
  BY <1>1 DEF AnswerTypes, PathsComplete, Simple, Parents, Unasked
<1>2. CASE EdgeChanged
  <2>1. reader.cursor > 0 /\ answer' = answer
    BY <1>2 DEF EdgeChanged
  <2>2. answer = Unasked
    BY <2>1 DEF OneAsks, Away
  <2> QED BY <2>1, <2>2 DEF AnswerTypes, PathsComplete, Unasked
<1>3. CASE FirstPage \/ NextPage \/ UNCHANGED naVars
  BY <1>1, <1>3 DEF FirstPage, NextPage, naVars
<1> QED BY <1>2, <1>3, PathsFound DEF NaNext

NaInv == ReadTypes /\ PagesAhead /\ PagesComplete /\ OneAsks /\ AnswerTypes /\ PathsComplete

LEMMA NavigationInvariant == NaSpec => []NaInv
<1>1. NaInit => NaInv
  <2> SUFFICES ASSUME NaInit PROVE NaInv
    OBVIOUS
  <2>1. answer = Unasked
    BY DEF NaInit
  <2>2. AnswerTypes /\ PathsComplete /\ OneAsks
    BY <2>1 DEF AnswerTypes, PathsComplete, OneAsks, Unasked, Lists
  <2> QED BY <2>2, InitPages DEF NaInv
<1>2. NaInv /\ [NaNext]_naVars => NaInv'
  BY NavigationStep, PathsKept DEF NaInv
<1> QED BY <1>1, <1>2, PTL DEF NaSpec

(* Every variable of the navigation holds what it is declared to hold.     *)
THEOREM NavigationTypes == NaSpec => []NaTypeOK
<1>1. NaInv => NaTypeOK
  BY DEF NaInv, ReadTypes, AnswerTypes, NaTypeOK
<1> QED BY <1>1, NavigationInvariant, PTL

(* Whatever edges others insert and retire between two pages, a client     *)
(* that pages to the end misses an entry that was listed all the while     *)
(* only if one before it has left the list.                                *)
THEOREM PagedWhole == NaSpec => []PagesComplete
<1>1. NaInv => PagesComplete
  BY DEF NaInv
<1> QED BY <1>1, NavigationInvariant, PTL

(* The search for paths gives chains of edges only and, when it does not   *)
(* say that it left something out, all that lead to a type without parent. *)
THEOREM PathsAllFound == NaSpec => []PathsComplete
<1>1. NaInv => PathsComplete
  BY DEF NaInv
<1> QED BY <1>1, NavigationInvariant, PTL

-----------------------------------------------------------------------------
(* RecipeImport: rows that are chosen, bundled and loaded.                 *)

LEMMA FirstPosition ==
  ASSUME NEW I \in SUBSET Nat, I # {}
  PROVE  \E x \in I : \A y \in I : x <= y
<1>1. PICK x \in I : \A y \in I : <<y, x>> \notin OpToRel(<, Nat)
  BY NatLessThanWellFounded, WFMin
<1>2. \A y \in I : ~(y < x)
  BY <1>1 DEF OpToRel
<1>3. x \in Nat /\ \A y \in I : y \in Nat
  OBVIOUS
<1>4. \A y \in I : x <= y
  BY <1>2, <1>3
<1> QED BY <1>4

(* The recipes a dataset is about, those that begin before another one,    *)
(* and the rows that a choice of so many recipes and rows is to hold.      *)
RecipesThere == {RecipeOf(i) : i \in Rows}
Before(r) == {q \in RecipesThere : FirstAbout(q) < FirstAbout(r)}
Wanted(i, most, each) ==
  /\ Cardinality(Before(RecipeOf(i))) < most
  /\ Cardinality(RowsAbout(RecipeOf(i), 1..i - 1)) < each

LEMMA RowsThere ==
  ASSUME dataset \in Seq(DataRow)
  PROVE  /\ Len(dataset) \in Nat /\ Rows = 1..Len(dataset) /\ Rows \subseteq Nat /\ IsFiniteSet(Rows)
         /\ \A i \in Rows : RecipeOf(i) \in Recipes /\ dataset[i] \in DataRow
         /\ IsFiniteSet(RecipesThere)
         /\ \A r : Cardinality(Before(r)) \in Nat /\ IsFiniteSet(Before(r))
<1>1. Len(dataset) \in Nat /\ Rows = 1..Len(dataset)
  BY LenProperties DEF Rows
<1>2. IsFiniteSet(Rows) /\ Rows \subseteq Nat
  BY <1>1, UpTo
<1>3. \A i \in Rows : dataset[i] \in DataRow
  BY <1>1, ElementOfSeq
<1>4. \A i \in Rows : RecipeOf(i) \in Recipes
  BY <1>3 DEF DataRow, RecipeOf
<1>5. IsFiniteSet(RecipesThere)
  <2> DEFINE f == [i \in Rows |-> RecipeOf(i)]
  <2>1. f \in Surjection(Rows, RecipesThere)
    BY DEF Surjection, RecipesThere
  <2> QED BY <1>2, <2>1, FS_Surjection
<1>6. \A r : IsFiniteSet(Before(r)) /\ Cardinality(Before(r)) \in Nat
  <2> TAKE r
  <2>1. Before(r) \in SUBSET RecipesThere
    BY DEF Before
  <2> QED BY <1>5, <2>1, FS_Subset, FS_CardinalityType
<1> QED BY <1>1, <1>2, <1>3, <1>4, <1>5, <1>6

(* Where a recipe begins.                                                  *)
LEMMA BeginsThere ==
  ASSUME dataset \in Seq(DataRow), NEW r \in RecipesThere
  PROVE  /\ FirstAbout(r) \in Rows /\ RecipeOf(FirstAbout(r)) = r
         /\ \A j \in Rows : RecipeOf(j) = r => FirstAbout(r) <= j
<1> DEFINE I == RowsAbout(r, Rows)
<1>1. I \in SUBSET Nat /\ I # {}
  BY RowsThere DEF RowsAbout, RecipesThere
<1>2. \E x \in I : \A y \in I : x <= y
  <2> HIDE DEF I
  <2> QED BY <1>1, FirstPosition
<1>3. FirstAbout(r) \in I /\ \A y \in I : FirstAbout(r) <= y
  BY <1>2 DEF FirstAbout
<1> QED BY <1>3 DEF RowsAbout

(* Rows of a recipe before a row are fewer for an earlier row.             *)
LEMMA RowsBefore ==
  ASSUME dataset \in Seq(DataRow), NEW r, NEW i \in Rows
  PROVE  /\ IsFiniteSet(RowsAbout(r, 1..i - 1)) /\ Cardinality(RowsAbout(r, 1..i - 1)) \in Nat
         /\ \A j \in 1..i : /\ RowsAbout(r, 1..j - 1) \subseteq RowsAbout(r, 1..i - 1)
                            /\ Cardinality(RowsAbout(r, 1..j - 1)) <= Cardinality(RowsAbout(r, 1..i - 1))
                            /\ Cardinality(RowsAbout(r, 1..j - 1)) \in Nat
<1>1. i \in Nat /\ i >= 1 /\ i - 1 \in Nat
  BY RowsThere
<1>2. IsFiniteSet(1..i - 1)
  BY <1>1, UpTo
<1> DEFINE A == RowsAbout(r, 1..i - 1)
<1>3. IsFiniteSet(A) /\ Cardinality(A) \in Nat
  <2>1. A \in SUBSET (1..i - 1)
    BY DEF RowsAbout
  <2> QED BY <1>2, <2>1, FS_Subset, FS_CardinalityType
<1>4. ASSUME NEW j \in 1..i
      PROVE  /\ RowsAbout(r, 1..j - 1) \subseteq A
             /\ Cardinality(RowsAbout(r, 1..j - 1)) <= Cardinality(A)
             /\ Cardinality(RowsAbout(r, 1..j - 1)) \in Nat
  <2>1. 1..j - 1 \subseteq 1..i - 1
    BY <1>1
  <2>2. RowsAbout(r, 1..j - 1) \in SUBSET A
    BY <2>1 DEF RowsAbout
  <2> QED BY <1>3, <2>2, FS_Subset, FS_CardinalityType
<1> QED BY <1>3, <1>4

(* choose_rows turns a row down.                                           *)
TurnedDown(chosen, i, most, each) ==
  LET same == {j \in chosen : RecipeOf(j) = RecipeOf(i)}
  IN  \/ same = {} /\ Cardinality({RecipeOf(j) : j \in chosen}) >= most
      \/ Cardinality(same) >= each

(* Of the rows before one, those that are wanted were chosen: then the row *)
(* is turned down exactly if it is not wanted.                             *)
LEMMA ChoiceKept ==
  ASSUME dataset \in Seq(DataRow), NEW i \in Rows, NEW most \in Nat, NEW each \in Nat \ {0},
         NEW chosen, chosen = {j \in 1..i - 1 : Wanted(j, most, each)}
  PROVE  TurnedDown(chosen, i, most, each) <=> ~Wanted(i, most, each)
<1> DEFINE r == RecipeOf(i)
           same == {j \in chosen : RecipeOf(j) = r}
           about == {RecipeOf(j) : j \in chosen}
           A(j) == RowsAbout(r, 1..j - 1)
<1>1. /\ Rows \subseteq Nat /\ i \in Nat /\ i >= 1 /\ \A j \in 1..i : j \in Rows
      /\ chosen \subseteq 1..i - 1 /\ r \in RecipesThere
  BY RowsThere DEF RecipesThere
<1>2. /\ IsFiniteSet(RecipesThere) /\ IsFiniteSet(Rows)
      /\ \A q : Cardinality(Before(q)) \in Nat /\ IsFiniteSet(Before(q))
  BY RowsThere
<1>3. /\ IsFiniteSet(same) /\ Cardinality(same) \in Nat
      /\ IsFiniteSet(about) /\ Cardinality(about) \in Nat
  <2>1. same \in SUBSET Rows /\ about \in SUBSET RecipesThere
    BY <1>1 DEF RecipesThere
  <2> QED BY <1>2, <2>1, FS_Subset, FS_CardinalityType
<1>4. \A q \in RecipesThere :
        FirstAbout(q) < i /\ Cardinality(Before(q)) < most => q \in about
  <2> SUFFICES ASSUME NEW q \in RecipesThere, FirstAbout(q) < i, Cardinality(Before(q)) < most
               PROVE  q \in about
    OBVIOUS
  <2> DEFINE f == FirstAbout(q)
  <2>1. f \in Rows /\ RecipeOf(f) = q /\ \A j \in Rows : RecipeOf(j) = q => f <= j
    BY BeginsThere
  <2>2. RowsAbout(q, 1..f - 1) = {}
    <3> SUFFICES ASSUME NEW j \in 1..f - 1, RecipeOf(j) = q PROVE FALSE
      BY DEF RowsAbout
    <3> HIDE DEF f
    <3>1. f \in Nat
      BY <1>1, <2>1
    <3>2. j \in 1..i /\ ~(f <= j)
      BY <1>1, <3>1 DEF f
    <3> QED BY <1>1, <2>1, <3>2
  <2>3. Wanted(f, most, each)
    <3>1. Cardinality({}) = 0
      BY FS_EmptySet
    <3> HIDE DEF f
    <3>2. RecipeOf(f) = q /\ 0 < each
      BY <2>1
    <3> QED BY <2>2, <3>1, <3>2 DEF Wanted
  <2>4. f \in 1..i - 1
    <3>1. f < i
      OBVIOUS
    <3> HIDE DEF f
    <3>2. f \in Nat /\ f >= 1
      BY <2>1, RowsThere
    <3> QED BY <1>1, <3>1, <3>2
  <2> HIDE DEF f
  <2> QED BY <2>1, <2>3, <2>4
<1>5. CASE ~(Cardinality(Before(r)) < most)
  <2>1. same = {}
    BY <1>5 DEF Wanted
  <2>2. Cardinality(about) >= most
    <3> DEFINE I == {FirstAbout(q) : q \in {p \in RecipesThere : ~(Cardinality(Before(p)) < most)}}
    <3>1. I \in SUBSET Nat
      BY <1>1, BeginsThere
    <3>2. FirstAbout(r) \in I
      BY <1>1, <1>5
    <3> HIDE DEF I
    <3>3. PICK x \in I : \A y \in I : x <= y
      BY <3>1, <3>2, FirstPosition
    <3>4. PICK p \in RecipesThere : x = FirstAbout(p) /\ ~(Cardinality(Before(p)) < most)
      BY DEF I
    <3>5. x <= FirstAbout(r) /\ FirstAbout(r) <= i
      BY <1>1, <3>2, <3>3, BeginsThere
    <3>6. ASSUME NEW q \in Before(p) PROVE q \in about
      <4>1. q \in RecipesThere /\ FirstAbout(q) < x
        BY <3>4 DEF Before
      <4>2. FirstAbout(q) \in Nat /\ x \in Nat /\ FirstAbout(r) \in Nat
        BY <1>1, <3>1, <4>1, BeginsThere
      <4>3. FirstAbout(q) \notin I
        BY <3>3, <4>1, <4>2
      <4>4. Cardinality(Before(q)) < most
        BY <4>1, <4>3 DEF I
      <4>5. FirstAbout(q) < i
        BY <1>1, <3>5, <4>1, <4>2
      <4> QED BY <1>4, <4>1, <4>4, <4>5
    <3>7. Cardinality(Before(p)) <= Cardinality(about)
      <4>1. Before(p) \in SUBSET about
        BY <3>6
      <4> HIDE DEF about
      <4> QED BY <1>3, <4>1, FS_Subset
    <3> HIDE DEF about
    <3> QED BY <1>2, <1>3, <3>4, <3>7
  <2> QED BY <1>5, <2>1, <2>2 DEF TurnedDown, Wanted
<1>6. CASE Cardinality(Before(r)) < most /\ Cardinality(A(i)) < each
  <2>1. \A j \in A(i) : j \in 1..i /\ j \in 1..i - 1 /\ RecipeOf(j) = r
    BY <1>1 DEF RowsAbout
  <2>2. \A j \in A(i) : Wanted(j, most, each)
    <3> SUFFICES ASSUME NEW j \in A(i) PROVE Wanted(j, most, each)
      OBVIOUS
    <3>1. Cardinality(A(j)) <= Cardinality(A(i)) /\ Cardinality(A(j)) \in Nat /\ Cardinality(A(i)) \in Nat
      BY <2>1, RowsBefore
    <3>2. Cardinality(A(j)) < each
      <4> HIDE DEF A
      <4> QED BY <1>6, <3>1
    <3> QED BY <1>6, <2>1, <3>2 DEF Wanted
  <2>3. same = A(i)
    BY <2>1, <2>2 DEF RowsAbout
  <2>4. ~(Cardinality(same) >= each)
    <3>1. Cardinality(A(i)) \in Nat
      BY <1>1, RowsBefore
    <3> HIDE DEF A, same
    <3> QED BY <1>6, <2>3, <3>1
  <2>5. ASSUME same = {} PROVE ~(Cardinality(about) >= most)
    <3>1. ASSUME NEW j \in chosen PROVE RecipeOf(j) \in Before(r)
      <4>1. j \in Rows /\ j < i /\ j \in Nat /\ RecipeOf(j) \in RecipesThere
        BY <1>1 DEF RecipesThere
      <4>2. /\ FirstAbout(RecipeOf(j)) \in Rows /\ FirstAbout(RecipeOf(j)) <= j
        BY <4>1, BeginsThere
      <4>3. FirstAbout(r) \in Rows /\ RecipeOf(FirstAbout(r)) = r /\ FirstAbout(r) <= i
        BY <1>1, BeginsThere
      <4>4. FirstAbout(r) = i
        <5>1. ASSUME FirstAbout(r) < i PROVE FALSE
          <6>1. FirstAbout(r) \in 1..i - 1
            BY <1>1, <4>3, <5>1, RowsThere
          <6>2. FirstAbout(r) \in A(i)
            BY <4>3, <6>1 DEF RowsAbout
          <6> QED BY <2>3, <2>5, <6>2
        <5>2. FirstAbout(r) \in Nat
          BY <1>1, <4>3
        <5> HIDE DEF r
        <5> QED BY <1>1, <4>3, <5>1, <5>2
      <4>5. FirstAbout(RecipeOf(j)) \in Nat /\ FirstAbout(RecipeOf(j)) < i
        <5>1. FirstAbout(RecipeOf(j)) \in Nat
          BY <1>1, <4>2
        <5> QED BY <1>1, <4>1, <4>2, <5>1
      <4> QED BY <4>1, <4>4, <4>5 DEF Before
    <3>2. about \in SUBSET Before(r)
      BY <3>1
    <3>3. Cardinality(about) <= Cardinality(Before(r))
      <4> HIDE DEF about
      <4> QED BY <1>2, <3>2, FS_Subset
    <3> HIDE DEF about
    <3> QED BY <1>2, <1>3, <1>6, <3>3
  <2> QED BY <1>6, <2>4, <2>5 DEF TurnedDown, Wanted
<1>7. CASE Cardinality(Before(r)) < most /\ ~(Cardinality(A(i)) < each)
  <2> DEFINE I == {j \in 1..i : ~(Cardinality(A(j)) < each)}
  <2>1. I \in SUBSET Nat /\ i \in I
    BY <1>1, <1>7
  <2> HIDE DEF I
  <2>2. PICK x \in I : \A y \in I : x <= y
    BY <2>1, FirstPosition
  <2>3. x \in 1..i /\ ~(Cardinality(A(x)) < each) /\ x \in Nat
    BY <2>1 DEF I
  <2>4. ASSUME NEW j \in A(x) PROVE j \in same
    <3>1. j \in 1..x - 1 /\ RecipeOf(j) = r
      BY DEF RowsAbout
    <3>2. j \in 1..i /\ j \in 1..i - 1 /\ ~(x <= j)
      BY <1>1, <2>3, <3>1
    <3>3. Cardinality(A(j)) < each
      BY <2>2, <3>2 DEF I
    <3> QED BY <1>7, <3>1, <3>2, <3>3 DEF Wanted
  <2>5. Cardinality(A(x)) <= Cardinality(same) /\ Cardinality(A(x)) \in Nat
    <3>1. A(x) \in SUBSET same
      BY <2>4
    <3>2. Cardinality(A(x)) \in Nat
      BY <2>3, RowsBefore
    <3> HIDE DEF A, same
    <3> QED BY <1>3, <3>1, <3>2, FS_Subset
  <2>6. Cardinality(same) >= each
    <3> HIDE DEF A, same
    <3> QED BY <1>3, <2>3, <2>5
  <2> QED BY <1>7, <2>6 DEF TurnedDown, Wanted
<1> QED BY <1>5, <1>6, <1>7

LEMMA LastRow ==
  ASSUME NEW n \in Nat
  PROVE  n > 0 => Max(1..n) = n /\ (1..n) \ {n} = 1..n - 1
<1> SUFFICES ASSUME n > 0 PROVE Max(1..n) = n /\ (1..n) \ {n} = 1..n - 1
  OBVIOUS
<1>1. 1..n \in SUBSET (1..n) /\ n \in 1..n /\ \A y \in 1..n : y <= n
  OBVIOUS
<1>2. Max(1..n) = n
  BY <1>1, OneIsLast
<1> QED BY <1>2

(* choose_rows goes through the rows and chooses those that are wanted.    *)
LEMMA RowsChosen ==
  ASSUME dataset \in Seq(DataRow), NEW most \in Nat, NEW each \in Nat \ {0}
  PROVE  ChosenRows(most, each) = {i \in Rows : Wanted(i, most, each)}
<1> DEFINE seq == [i \in Rows |-> i]
           D == DOMAIN seq
           Op(chosen, i) ==
             LET same == {j \in chosen : RecipeOf(j) = RecipeOf(i)}
             IN  IF \/ same = {} /\ Cardinality({RecipeOf(j) : j \in chosen}) >= most
                    \/ Cardinality(same) >= each
                 THEN chosen ELSE chosen \cup {i}
           Solves(f) == f = [S \in SUBSET D |->
                               IF S = {} THEN {}
                               ELSE LET x == Max(S) IN Op(f[S \ {x}], seq[x])]
           it == CHOOSE f : Solves(f)
           n == Len(dataset)
<1>1. n \in Nat /\ Rows = 1..n /\ D = 1..n
  BY RowsThere
<1>2. ChosenRows(most, each) = it[D]
  BY DEF ChosenRows, FoldLeft, MapThenFoldSet
<1>3. \A S \in SUBSET D : S # {} => Max(S) \in S /\ \A y \in S : y <= Max(S)
  BY <1>1, LastPosition
<1>4. ASSUME NEW chosen, NEW i
      PROVE  Op(chosen, i) = IF TurnedDown(chosen, i, most, each) THEN chosen ELSE chosen \cup {i}
  BY DEF TurnedDown
<1>5. \A i \in 1..n : seq[i] = i
  BY <1>1
<1> HIDE DEF Op, seq, n
<1>6. \E f : Solves(f)
  <2> DEFINE Fits(f, k) == f = [S \in (SUBSET (1..k)) |->
                                IF S = {} THEN {}
                                ELSE LET x == Max(S) IN Op(f[S \ {x}], seq[x])]
             T == {k \in Nat : k <= n => \E f : Fits(f, k)}
  <2>1. 0 \in T
    <3>1. SUBSET (1..0) = {{}}
      OBVIOUS
    <3>2. Fits([S \in SUBSET (1..0) |-> {}], 0)
      BY <3>1
    <3> HIDE DEF Fits
    <3> QED BY <3>2
  <2>2. ASSUME NEW k \in Nat, k \in T PROVE k + 1 \in T
    <3> HIDE DEF Fits
    <3> SUFFICES ASSUME k + 1 <= n PROVE \E f : Fits(f, k + 1)
      OBVIOUS
    <3>1. PICK f : Fits(f, k)
      <4>1. k <= n
        BY <1>1
      <4> QED BY <2>2, <4>1
    <3> USE DEF Fits
    <3>2. \A S \in SUBSET (1..k + 1) : S # {} => /\ Max(S) \in S /\ S \ {Max(S)} \in SUBSET (1..k)
                                              /\ Max(S) \in Nat
      <4> SUFFICES ASSUME NEW S \in SUBSET (1..k + 1), S # {}
                   PROVE  Max(S) \in S /\ S \ {Max(S)} \in SUBSET (1..k) /\ Max(S) \in Nat
        OBVIOUS
      <4>1. S \in SUBSET D
        BY <1>1
      <4>2. Max(S) \in S /\ \A y \in S : y <= Max(S)
        BY <1>3, <4>1
      <4> DEFINE m == Max(S)
      <4> HIDE DEF m
      <4>3. m \in 1..k + 1 /\ \A y \in S : y \in 1..k + 1 /\ y <= m
        BY <4>2 DEF m
      <4>4. S \ {m} \in SUBSET (1..k)
        BY <4>3
      <4> QED BY <4>2, <4>3, <4>4 DEF m
    <3> DEFINE g == [S \in SUBSET (1..k + 1) |->
                       IF S \in SUBSET (1..k) THEN f[S] ELSE Op(f[S \ {Max(S)}], seq[Max(S)])]
    <3>3. ASSUME NEW S \in SUBSET (1..k + 1)
          PROVE  g[S] = IF S = {} THEN {} ELSE Op(g[S \ {Max(S)}], seq[Max(S)])
      <4>1. CASE S = {}
        <5>1. S \in SUBSET (1..k)
          BY <4>1
        <5> QED BY <3>1, <4>1, <5>1
      <4>2. CASE S # {}
        <5>1. /\ S \ {Max(S)} \in SUBSET (1..k) /\ S \ {Max(S)} \in SUBSET (1..k + 1)
          BY <3>2, <4>2
        <5>2. g[S \ {Max(S)}] = f[S \ {Max(S)}]
          BY <5>1
        <5>3. CASE S \in SUBSET (1..k)
          <6>1. f[S] = Op(f[S \ {Max(S)}], seq[Max(S)])
            BY <3>1, <4>2, <5>3
          <6>2. g[S] = f[S]
            BY <5>3
          <6> HIDE DEF g
          <6> QED BY <4>2, <5>2, <6>1, <6>2
        <5>4. CASE S \notin SUBSET (1..k)
          <6>1. g[S] = Op(f[S \ {Max(S)}], seq[Max(S)])
            BY <5>4
          <6> HIDE DEF g
          <6> QED BY <4>2, <5>2, <6>1
        <5> QED BY <5>3, <5>4
      <4> QED BY <4>1, <4>2
    <3>4. g = [S \in SUBSET (1..k + 1) |-> g[S]]
      OBVIOUS
    <3> HIDE DEF g
    <3>5. g = [S \in SUBSET (1..k + 1) |->
                IF S = {} THEN {} ELSE LET x == Max(S) IN Op(g[S \ {x}], seq[x])]
      BY <3>3, <3>4
    <3>6. Fits(g, k + 1)
      BY <3>5
    <3> HIDE DEF Fits
    <3> QED BY <3>6
  <2> HIDE DEF T
  <2>3. n \in T
    BY <1>1, <2>1, <2>2, NatSet
  <2>4. \E f : Fits(f, n)
    <3> HIDE DEF Fits
    <3> QED BY <1>1, <2>3 DEF T
  <2> QED BY <1>1, <2>4
<1>7. Solves(it)
  <2> HIDE DEF Solves
  <2> QED BY <1>6
<1> HIDE DEF it
<1> DEFINE So(m) == {i \in 1..m : Wanted(i, most, each)}
           T == {m \in Nat : m <= n => it[1..m] = So(m)}
<1>8. 0 \in T
  <2>1. 1..0 = {} /\ So(0) = {}
    OBVIOUS
  <2> QED BY <1>1, <1>7, <2>1
<1>9. ASSUME NEW m \in Nat, m \in T PROVE m + 1 \in T
  <2> SUFFICES ASSUME m + 1 <= n PROVE it[1..m + 1] = So(m + 1)
    OBVIOUS
  <2> DEFINE k == m + 1
  <2>1. k \in Nat /\ k > 0 /\ k - 1 = m /\ 1..k \in SUBSET D /\ 1..k # {} /\ k \in Rows
    <3>1. k \in Nat /\ k > 0 /\ k - 1 = m /\ 1..k # {}
      OBVIOUS
    <3>2. k \in 1..n /\ 1..k \subseteq 1..n
      BY <1>1
    <3> QED BY <1>1, <3>1, <3>2
  <2>2. it[1..m] = So(m)
    BY <1>1, <1>9
  <2> HIDE DEF k
  <2>3. Max(1..k) = k /\ (1..k) \ {k} = 1..m
    BY <2>1, LastRow
  <2>4. it[1..k] = Op(it[1..m], k)
    <3>1. it[1..k] = Op(it[(1..k) \ {Max(1..k)}], seq[Max(1..k)])
      BY <1>7, <2>1
    <3>2. seq[k] = k
      BY <1>1, <1>5, <2>1
    <3> QED BY <2>3, <3>1, <3>2
  <2>5. it[1..k] = IF TurnedDown(So(m), k, most, each) THEN So(m) ELSE So(m) \cup {k}
    BY <1>4, <2>2, <2>4
  <2>6. TurnedDown(So(m), k, most, each) <=> ~Wanted(k, most, each)
    BY <2>1, ChoiceKept
  <2>7. 1..k = 1..m \cup {k}
    BY <2>1, <2>3
  <2>8. So(k) = IF Wanted(k, most, each) THEN So(m) \cup {k} ELSE So(m)
    BY <2>7
  <2> HIDE DEF So
  <2> QED BY <2>5, <2>6, <2>8 DEF k
<1> HIDE DEF T
<1>10. n \in T
  BY <1>1, <1>8, <1>9, NatSet
<1>11. it[1..n] = So(n)
  BY <1>1, <1>10 DEF T
<1> QED BY <1>1, <1>2, <1>11

(* A bundle holds the rows it should.                                      *)
HoldsChosen(b) ==
  \A i \in Rows :
    i \in b.rows <=>
      /\ Cardinality(Earlier(RecipeOf(i), b)) < b.recipes
      /\ IF b.best THEN Best(i)
         ELSE Cardinality(RowsAbout(RecipeOf(i), 1..i - 1)) < b.each

(* What a process that loads has read is in its bundle, and what it does   *)
(* not add is there.                                                       *)
Knows(j) ==
  /\ j.bundle \in DOMAIN bundles
  /\ j.reviews \subseteq bundles[j.bundle].rows
  /\ \A i \in bundles[j.bundle].rows : dataset[i].author \in users \cup j.users
  /\ j.next = "commit" => bundles[j.bundle].rows \subseteq imported \cup j.reviews

ImInv ==
  /\ ImTypeOK
  /\ \A n \in DOMAIN bundles : bundles[n].rows \subseteq Rows /\ HoldsChosen(bundles[n])
  /\ \A l \in Loaders : loader[l] # Resting => Knows(loader[l])
  /\ \A b \in loaded : bundles[b].rows \subseteq imported
  /\ \A i \in imported : dataset[i].author \in users /\ recipes[RecipeOf(i)] = "imported"

LEMMA ImportTyped ==
  ASSUME ImTypeOK
  PROVE  /\ dataset \in Seq(DataRow) /\ Rows \subseteq 1..MaxRows
         /\ Len(bundles) \in Nat /\ DOMAIN bundles = 1..Len(bundles)
         /\ DOMAIN bundles \subseteq 1..MaxBundles
         /\ \A n \in DOMAIN bundles : bundles[n] \in Bundle
         /\ MaxRows \in Nat /\ MaxBundles \in Nat
<1>1. dataset \in Seq(DataRow) /\ Len(dataset) \in 1..MaxRows
  BY RecipeImportAssumption DEF ImTypeOK
<1>2. MaxRows \in Nat /\ MaxBundles \in Nat
  BY RecipeImportAssumption
<1>3. Rows \subseteq 1..MaxRows
  BY <1>1, <1>2, RowsThere
<1>4. Len(bundles) \in Nat /\ DOMAIN bundles = 1..Len(bundles) /\ Len(bundles) <= MaxBundles
  BY LenProperties DEF ImTypeOK
<1>5. \A n \in 1..Len(bundles) : bundles[n] \in Bundle
  BY ElementOfSeq DEF ImTypeOK
<1>6. 1..Len(bundles) \subseteq 1..MaxBundles
  BY <1>2, <1>4
<1> QED BY <1>1, <1>2, <1>3, <1>4, <1>5, <1>6

(* build_bundle.                                                           *)
LEMMA BundleBuilt ==
  ASSUME ImTypeOK, NEW best \in BOOLEAN, NEW most \in 1..2, NEW each \in 1..2
  PROVE  LET b == [rows |-> IF best THEN RepresentativeRows(most) ELSE ChosenRows(most, each),
                   best |-> best, recipes |-> most, each |-> each]
         IN  b \in Bundle /\ b.rows \subseteq Rows /\ HoldsChosen(b)
<1> DEFINE b == [rows |-> IF best THEN RepresentativeRows(most) ELSE ChosenRows(most, each),
                 best |-> best, recipes |-> most, each |-> each]
<1>1. /\ b.rows = IF best THEN RepresentativeRows(most) ELSE ChosenRows(most, each)
      /\ b.best = best /\ b.recipes = most /\ b.each = each
  OBVIOUS
<1>2. dataset \in Seq(DataRow) /\ Rows \subseteq 1..MaxRows
  BY ImportTyped
<1>3. most \in Nat /\ each \in Nat \ {0}
  OBVIOUS
<1>4. ChosenRows(most, each) = {i \in Rows : Wanted(i, most, each)}
  BY <1>2, <1>3, RowsChosen
<1>5. b.rows \subseteq Rows
  BY <1>1, <1>4 DEF RepresentativeRows
<1>6. b \in Bundle
  BY <1>1, <1>2, <1>5 DEF Bundle
<1> HIDE DEF b
<1>7. ASSUME NEW i \in Rows
      PROVE  i \in b.rows <=>
               /\ Cardinality(Earlier(RecipeOf(i), b)) < b.recipes
               /\ IF b.best THEN Best(i)
                  ELSE Cardinality(RowsAbout(RecipeOf(i), 1..i - 1)) < b.each
  <2>1. CASE best
    <3>1. Earlier(RecipeOf(i), b) = {r \in {RecipeOf(j) : j \in Rows} : r < RecipeOf(i)}
      BY <1>1, <2>1 DEF Earlier
    <3>2. i \in b.rows <=>
            Best(i) /\ Cardinality({r \in {RecipeOf(j) : j \in Rows} : r < RecipeOf(i)}) < most
      BY <1>1, <2>1 DEF RepresentativeRows
    <3> QED BY <1>1, <2>1, <3>1, <3>2
  <2>2. CASE ~best
    <3>1. Earlier(RecipeOf(i), b) = Before(RecipeOf(i))
      BY <1>1, <2>2 DEF Earlier, Before, RecipesThere
    <3>2. i \in b.rows <=> Wanted(i, most, each)
      BY <1>1, <1>4, <2>2
    <3> QED BY <1>1, <2>2, <3>1, <3>2 DEF Wanted
  <2> QED BY <2>1, <2>2
<1> QED BY <1>5, <1>6, <1>7 DEF HoldsChosen, b

LEMMA InitImport == ImInit => ImInv
<1> SUFFICES ASSUME ImInit PROVE ImInv
  OBVIOUS
<1>1. bundles \in Seq(Bundle) /\ Len(bundles) = 0 /\ DOMAIN bundles = {}
  BY EmptySeq DEF ImInit
<1>2. loader \in [Loaders -> Loading \cup {Resting}] /\ \A l \in Loaders : loader[l] = Resting
  BY DEF ImInit
<1>3. recipes \in [Recipes -> SubjectRows]
  BY DEF ImInit, SubjectRows
<1>4. ImTypeOK
  BY <1>1, <1>2, <1>3, RecipeImportAssumption DEF ImInit, ImTypeOK
<1> QED BY <1>1, <1>2, <1>4 DEF ImInit, ImInv

(* What a bundle should hold depends on the dataset alone, which stays.    *)
LEMMA ChoiceStays ==
  ASSUME dataset' = dataset, NEW n, HoldsChosen(bundles'[n])
  PROVE  /\ Rows' = Rows /\ (\A i : RecipeOf(i)' = RecipeOf(i))
         /\ HoldsChosen(bundles[n])'
<1>1. Rows' = Rows /\ \A i : RecipeOf(i)' = RecipeOf(i)
  BY DEF Rows, RecipeOf
<1>2. \A r, S : RowsAbout(r, S)' = RowsAbout(r, S)
  BY <1>1 DEF RowsAbout
<1>3. \A r : FirstAbout(r)' = FirstAbout(r)
  BY <1>1, <1>2 DEF FirstAbout
<1>4. \A r : Earlier(r, bundles[n])' = Earlier(r, bundles'[n])
  BY <1>1, <1>3 DEF Earlier
<1>5. \A i : Best(i)' = Best(i)
  BY <1>1 DEF Best
<1>6. ASSUME NEW i \in Rows
      PROVE  i \in bundles'[n].rows <=>
               /\ Cardinality(Earlier(RecipeOf(i), bundles[n])') < bundles'[n].recipes
               /\ IF bundles'[n].best THEN Best(i)'
                  ELSE Cardinality(RowsAbout(RecipeOf(i), 1..i - 1)') < bundles'[n].each
  BY <1>1, <1>2, <1>4, <1>5 DEF HoldsChosen
<1> QED BY <1>1, <1>6 DEF HoldsChosen

(* Bundles change in WriteBundle only, the dataset never.                  *)
LEMMA BundlesKept ==
  ASSUME ImInv, UNCHANGED <<dataset, bundles>>
  PROVE  /\ Rows' = Rows /\ (\A i : RecipeOf(i)' = RecipeOf(i))
         /\ \A n \in DOMAIN bundles' : bundles'[n].rows \subseteq Rows' /\ HoldsChosen(bundles[n])'
<1>1. Rows' = Rows /\ \A i : RecipeOf(i)' = RecipeOf(i)
  BY DEF Rows, RecipeOf
<1>2. ASSUME NEW n \in DOMAIN bundles'
      PROVE  bundles'[n].rows \subseteq Rows' /\ HoldsChosen(bundles[n])'
  <2>1. bundles'[n].rows \subseteq Rows /\ HoldsChosen(bundles'[n])
    BY DEF ImInv
  <2> QED BY <1>1, <2>1, ChoiceStays
<1> QED BY <1>1, <1>2

LEMMA BundleWritten ==
  ASSUME ImInv, WriteBundle
  PROVE  ImInv'
<1>1. PICK best \in BOOLEAN, most \in 1..2, each \in 1..2 :
        bundles' = Append(bundles,
          [rows |-> IF best THEN RepresentativeRows(most) ELSE ChosenRows(most, each),
           best |-> best, recipes |-> most, each |-> each])
  BY DEF WriteBundle
<1> DEFINE b == [rows |-> IF best THEN RepresentativeRows(most) ELSE ChosenRows(most, each),
                 best |-> best, recipes |-> most, each |-> each]
           n == Len(bundles)
<1>2. b \in Bundle /\ b.rows \subseteq Rows /\ HoldsChosen(b)
  BY BundleBuilt DEF ImInv
<1> HIDE DEF b
<1>3. /\ bundles \in Seq(Bundle) /\ n \in Nat /\ n < MaxBundles /\ bundles' = Append(bundles, b)
      /\ UNCHANGED <<dataset, users, recipes, imported, loaded, loader>>
      /\ DOMAIN bundles = 1..n
  BY <1>1, ImportTyped DEF b, ImInv, ImTypeOK, WriteBundle
<1>4. /\ bundles' \in Seq(Bundle) /\ Len(bundles') = n + 1
      /\ \A m \in 1..n : bundles'[m] = bundles[m]
      /\ bundles'[n + 1] = b
  BY <1>2, <1>3, AppendProperties
<1>5. DOMAIN bundles' = 1..n + 1 /\ \A m \in 1..n + 1 : m \in 1..n \/ m = n + 1
  BY <1>3, <1>4, LenProperties
<1>6. n + 1 <= MaxBundles
  BY <1>3, ImportTyped DEF ImInv
<1> HIDE DEF n
<1>7. Rows' = Rows /\ \A i : RecipeOf(i)' = RecipeOf(i)
  BY <1>3 DEF Rows, RecipeOf
<1>8. 1..n \subseteq 1..n + 1
  BY <1>3
<1>9. ImTypeOK'
  BY <1>3, <1>4, <1>5, <1>6, <1>7, <1>8 DEF ImInv, ImTypeOK
<1>10. ASSUME NEW m \in DOMAIN bundles'
       PROVE  bundles'[m].rows \subseteq Rows' /\ HoldsChosen(bundles[m])'
  <2>1. bundles'[m].rows \subseteq Rows /\ HoldsChosen(bundles'[m])
    BY <1>2, <1>3, <1>4, <1>5 DEF ImInv
  <2> QED BY <1>3, <1>7, <2>1, ChoiceStays
<1>11. ASSUME NEW l \in Loaders, loader'[l] # Resting PROVE Knows(loader[l])'
  <2>1. Knows(loader[l])
    BY <1>3, <1>11 DEF ImInv
  <2> QED BY <1>3, <1>4, <1>5, <1>8, <2>1 DEF Knows
<1>12. \A m \in loaded' : bundles'[m].rows \subseteq imported'
  BY <1>3, <1>4 DEF ImInv, ImTypeOK
<1> QED BY <1>3, <1>7, <1>9, <1>10, <1>11, <1>12 DEF ImInv

(* Steps of a process that loads, other than its commit, add nothing.      *)
LEMMA LoaderMoved ==
  ASSUME ImInv, UNCHANGED <<dataset, bundles, users, recipes, imported, loaded>>,
         NEW l \in Loaders, NEW k, loader' = [loader EXCEPT ![l] = k],
         k = Resting \/ (k \in Loading /\ Knows(k))
  PROVE  ImInv'
<1>1. /\ loader \in [Loaders -> Loading \cup {Resting}]
      /\ loader' \in [Loaders -> Loading \cup {Resting}]
      /\ loader'[l] = k /\ \A m \in Loaders : m # l => loader'[m] = loader[m]
  BY DEF ImInv, ImTypeOK
<1>2. ImTypeOK'
  BY <1>1 DEF ImInv, ImTypeOK, Rows
<1>3. ASSUME NEW m \in Loaders, loader'[m] # Resting PROVE Knows(loader[m])'
  <2>1. Knows(loader'[m])
    BY <1>1, <1>3 DEF ImInv
  <2> QED BY <2>1 DEF Knows
<1>4. /\ \A b \in loaded' : bundles'[b].rows \subseteq imported'
      /\ \A i \in imported' : dataset'[i].author \in users' /\ recipes'[RecipeOf(i)'] = "imported"
  BY BundlesKept DEF ImInv
<1> QED BY <1>2, <1>3, <1>4, BundlesKept DEF ImInv

LEMMA BundleRead ==
  ASSUME ImInv, NEW l \in Loaders, NEW b \in DOMAIN bundles, ReadBundle(l, b)
  PROVE  ImInv'
<1> DEFINE k == [bundle |-> b, next |-> "recipes",
                 users |-> {dataset[i].author : i \in bundles[b].rows} \ users,
                 recipes |-> {}, reviews |-> {}]
<1>1. loader' = [loader EXCEPT ![l] = k]
      /\ UNCHANGED <<dataset, bundles, users, recipes, imported, loaded>>
  BY DEF ReadBundle
<1>2. b \in 1..MaxBundles /\ bundles[b].rows \subseteq Rows /\ dataset \in Seq(DataRow)
  BY ImportTyped DEF ImInv
<1>3. \A i \in Rows : dataset[i].author \in Authors
  BY <1>2, RowsThere DEF DataRow
<1>4. k \in Loading
  <2>1. {dataset[i].author : i \in bundles[b].rows} \ users \in SUBSET Authors
    BY <1>2, <1>3
  <2> QED BY <1>2, <2>1 DEF Loading
<1>5. Knows(k)
  BY DEF Knows
<1> HIDE DEF k
<1> QED BY <1>1, <1>4, <1>5, LoaderMoved

LEMMA RecipesRead ==
  ASSUME ImInv, NEW l \in Loaders, ReadRecipes(l)
  PROVE  ImInv'
<1> DEFINE j == loader[l]
           some == {r \in {RecipeOf(i) : i \in bundles[j.bundle].rows} : recipes[r] = "none"}
           k == [j EXCEPT !.next = "reviews", !.recipes = some]
<1>1. /\ j # Resting /\ j.next = "recipes"
      /\ UNCHANGED <<dataset, bundles, users, recipes, imported, loaded>>
  BY DEF ReadRecipes
<1>2. loader \in [Loaders -> Loading \cup {Resting}] /\ j \in Loading
  BY <1>1 DEF ImInv, ImTypeOK
<1>3. loader' = [loader EXCEPT ![l] = k]
  BY <1>2 DEF ReadRecipes
<1>4. Knows(j)
  BY <1>1 DEF ImInv
<1>5. some \in SUBSET Recipes
  <2>1. bundles[j.bundle].rows \subseteq Rows /\ dataset \in Seq(DataRow)
    BY <1>4, ImportTyped DEF ImInv, Knows
  <2> QED BY <2>1, RowsThere
<1> HIDE DEF some, j
<1>6. k \in Loading /\ k.bundle = j.bundle /\ k.users = j.users /\ k.reviews = j.reviews
      /\ k.next = "reviews"
  BY <1>2, <1>5 DEF Loading
<1> HIDE DEF k
<1>7. Knows(k)
  BY <1>4, <1>6 DEF Knows
<1> QED BY <1>1, <1>3, <1>6, <1>7, LoaderMoved

LEMMA ReviewsRead ==
  ASSUME ImInv, NEW l \in Loaders, ReadReviews(l)
  PROVE  ImInv'
<1> DEFINE j == loader[l]
           some == bundles[j.bundle].rows \ imported
           k == [j EXCEPT !.next = "commit", !.reviews = some]
<1>1. /\ j # Resting /\ j.next = "reviews"
      /\ UNCHANGED <<dataset, bundles, users, recipes, imported, loaded>>
  BY DEF ReadReviews
<1>2. loader \in [Loaders -> Loading \cup {Resting}] /\ j \in Loading
  BY <1>1 DEF ImInv, ImTypeOK
<1>3. loader' = [loader EXCEPT ![l] = k]
  BY <1>2 DEF ReadReviews
<1>4. Knows(j)
  BY <1>1 DEF ImInv
<1>5. some \in SUBSET (1..MaxRows)
  BY <1>4, ImportTyped DEF ImInv, Knows
<1>6. some \subseteq bundles[j.bundle].rows /\ bundles[j.bundle].rows \subseteq imported \cup some
  OBVIOUS
<1> HIDE DEF some, j
<1>7. k \in Loading /\ k.bundle = j.bundle /\ k.users = j.users /\ k.reviews = some
  BY <1>2, <1>5 DEF Loading
<1> HIDE DEF k
<1>8. Knows(k)
  BY <1>4, <1>6, <1>7 DEF Knows
<1> QED BY <1>1, <1>3, <1>7, <1>8, LoaderMoved

LEMMA BundleCommitted ==
  ASSUME ImInv, NEW l \in Loaders, CommitBundle(l)
  PROVE  ImInv'
<1> DEFINE j == loader[l]
<1>1. /\ j # Resting /\ j.next = "commit" /\ UNCHANGED <<dataset, bundles>>
      /\ loader' = [loader EXCEPT ![l] = Resting]
  BY DEF CommitBundle
<1>2. loader \in [Loaders -> Loading \cup {Resting}] /\ j \in Loading /\ Knows(j)
  BY <1>1 DEF ImInv, ImTypeOK
<1>3. CASE ~Consistent(j)
  <2>1. UNCHANGED <<dataset, bundles, users, recipes, imported, loaded>>
    BY <1>1, <1>3 DEF CommitBundle
  <2> HIDE DEF j
  <2> QED BY <1>1, <2>1, LoaderMoved
<1>4. CASE Consistent(j)
  <2> DEFINE rows == bundles[j.bundle].rows
  <2>1. /\ users' = users \cup j.users
        /\ recipes' = [r \in Recipes |-> IF r \in j.recipes THEN "imported" ELSE recipes[r]]
        /\ imported' = imported \cup j.reviews
        /\ loaded' = loaded \cup {j.bundle}
    BY <1>1, <1>4 DEF CommitBundle
  <2>2. /\ j.bundle \in DOMAIN bundles /\ j.reviews \subseteq rows /\ rows \subseteq Rows
        /\ \A i \in rows : dataset[i].author \in users'
        /\ rows \subseteq imported'
    BY <1>1, <1>2, <2>1 DEF ImInv, Knows
  <2>3. j.users \subseteq Authors
    BY <1>2 DEF Loading
  <2> HIDE DEF j, rows
  <2>4. loader' \in [Loaders -> Loading \cup {Resting}] /\ loader'[l] = Resting
        /\ \A m \in Loaders : m # l => loader'[m] = loader[m]
    BY <1>1, <1>2
  <2>5. dataset \in Seq(DataRow) /\ \A i \in Rows : RecipeOf(i) \in Recipes
    BY ImportTyped, RowsThere DEF ImInv
  <2>6. ImTypeOK'
    <3>1. recipes' \in [Recipes -> SubjectRows]
      BY <2>1 DEF ImInv, ImTypeOK, SubjectRows
    <3> QED BY <1>1, <2>1, <2>2, <2>3, <2>4, <3>1 DEF ImInv, ImTypeOK, Rows
  <2>7. ASSUME NEW m \in Loaders, loader'[m] # Resting PROVE Knows(loader[m])'
    <3>1. Knows(loader'[m])
      BY <2>4, <2>7 DEF ImInv
    <3>2. UNCHANGED <<dataset, bundles>> /\ users \subseteq users' /\ imported \subseteq imported'
      BY <1>1, <2>1
    <3> QED BY <3>1, <3>2 DEF Knows
  <2>8. ASSUME NEW b \in loaded' PROVE bundles'[b].rows \subseteq imported'
    BY <1>1, <2>1, <2>2 DEF ImInv, rows
  <2>9. ASSUME NEW i \in imported'
        PROVE  dataset'[i].author \in users' /\ recipes'[RecipeOf(i)] = "imported"
    <3>1. i \in Rows
      BY <2>1, <2>2 DEF ImInv, ImTypeOK
    <3>2. CASE i \in imported
      BY <1>1, <2>1, <2>5, <3>1, <3>2 DEF ImInv
    <3>3. CASE i \in j.reviews
      BY <1>1, <1>4, <2>1, <2>2, <2>5, <3>1, <3>3 DEF Consistent
    <3> QED BY <2>1, <3>2, <3>3
  <2>10. \A i \in imported' : dataset'[i].author \in users' /\ recipes'[RecipeOf(i)'] = "imported"
    BY <1>1, <2>9, BundlesKept
  <2> QED BY <1>1, <2>6, <2>7, <2>8, <2>10, BundlesKept DEF ImInv
<1> QED BY <1>3, <1>4

LEMMA RecipeCreated ==
  ASSUME ImInv, NEW r \in Recipes, CreateRecipe(r)
  PROVE  ImInv'
<1>1. /\ recipes[r] = "none" /\ recipes' = [recipes EXCEPT ![r] = "foreign"]
      /\ UNCHANGED <<dataset, bundles, users, imported, loaded, loader>>
  BY DEF CreateRecipe
<1>2. recipes \in [Recipes -> SubjectRows]
  BY DEF ImInv, ImTypeOK
<1>3. recipes' \in [Recipes -> SubjectRows] /\ \A q \in Recipes : q # r => recipes'[q] = recipes[q]
  BY <1>1, <1>2 DEF SubjectRows
<1>4. ImTypeOK'
  BY <1>1, <1>3 DEF ImInv, ImTypeOK, Rows
<1>5. dataset \in Seq(DataRow) /\ \A i \in Rows : RecipeOf(i) \in Recipes
  BY ImportTyped, RowsThere DEF ImInv
<1>6. \A i \in imported : recipes'[RecipeOf(i)] = "imported"
  BY <1>1, <1>3, <1>5 DEF ImInv, ImTypeOK
<1>7. ASSUME NEW m \in Loaders, loader'[m] # Resting PROVE Knows(loader[m])'
  BY <1>1, <1>7 DEF ImInv, Knows
<1>8. \A i \in imported' : dataset'[i].author \in users' /\ recipes'[RecipeOf(i)'] = "imported"
  BY <1>1, <1>6, BundlesKept DEF ImInv
<1>9. \A b \in loaded' : bundles'[b].rows \subseteq imported'
  BY <1>1 DEF ImInv
<1> QED BY <1>1, <1>4, <1>7, <1>8, <1>9, BundlesKept DEF ImInv

LEMMA ImportStep == ImInv /\ [ImNext]_imVars => ImInv'
<1> SUFFICES ASSUME ImInv, [ImNext]_imVars PROVE ImInv'
  OBVIOUS
<1>1. ASSUME NEW l \in Loaders, LoaderEnds(l) PROVE ImInv'
  BY <1>1, LoaderMoved DEF LoaderEnds
<1>2. CASE UNCHANGED imVars
  <2>1. UNCHANGED <<dataset, bundles, users, recipes, imported, loaded, loader>>
    BY <1>2 DEF imVars
  <2>2. ImTypeOK'
    BY <2>1 DEF ImInv, ImTypeOK, Rows
  <2>3. ASSUME NEW m \in Loaders, loader'[m] # Resting PROVE Knows(loader[m])'
    BY <2>1, <2>3 DEF ImInv, Knows
  <2>4. \A i \in imported' : dataset'[i].author \in users' /\ recipes'[RecipeOf(i)'] = "imported"
    BY <2>1, BundlesKept DEF ImInv
  <2>5. \A b \in loaded' : bundles'[b].rows \subseteq imported'
    BY <2>1 DEF ImInv
  <2> QED BY <2>1, <2>2, <2>3, <2>4, <2>5, BundlesKept DEF ImInv
<1> QED BY <1>1, <1>2, BundleWritten, BundleRead, RecipesRead, ReviewsRead, BundleCommitted,
           RecipeCreated DEF ImNext

LEMMA ImportInvariant == ImSpec => []ImInv
BY InitImport, ImportStep, PTL DEF ImSpec

(* Every variable of the import holds what it is declared to hold.         *)
THEOREM ImportTypes == ImSpec => []ImTypeOK
<1>1. ImInv => ImTypeOK
  BY DEF ImInv
<1> QED BY <1>1, ImportInvariant, PTL

(* A loaded bundle is there as a whole with its authors and recipes,       *)
(* whatever other loads, clients and failures came between; and each       *)
(* bundle holds exactly the rows that were asked for.                      *)
THEOREM ImportedWhole == ImSpec => []ImportWhole
<1>1. ImInv => ImportWhole
  BY DEF ImInv, HoldsChosen, ImportWhole
<1> QED BY <1>1, ImportInvariant, PTL
=============================================================================
