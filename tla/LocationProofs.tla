--------------------------- MODULE LocationProofs ---------------------------
(* Proofs about Location: types, conflicts and resolutions, current claims  *)
(* and cycles, for any number of places, venues, clients, schemes, periods. *)
EXTENDS Location, FiniteSetTheorems, TLAPS

(* What a refresh does to one row of the table.                            *)
LEMMA RefreshedRow ==
  ASSUME NEW table, NEW s, NEW a \in DOMAIN table
  PROVE  /\ DOMAIN Refreshed(table, s) = DOMAIN table
         /\ a.subject # s => Refreshed(table, s)[a] = table[a]
         /\ table[a] \in Resolved => Refreshed(table, s)[a] = table[a]
         /\ a.subject = s /\ a.owned /\ table[a] \notin Resolved
              => Refreshed(table, s)[a] = Judged(Group(table, s), a)
         /\ ~a.owned => Refreshed(table, s)[a] = table[a]
  BY DEF Refreshed, Group, Resolved

(* A judged row is never resolved by the judgement.                        *)
LEMMA JudgedState ==
  ASSUME NEW group, NEW a
  PROVE  Judged(group, a) \in {"contested", "superseded", "uncontested"}
  BY DEF Judged

(* What asserting a location does to the rows, old and new.                *)
LEMMA AssertedRows ==
  ASSUME NEW a, AssertLocation(a)
  PROVE  /\ Rows' = Rows \cup {a}
         /\ a \notin Rows
         /\ \A b \in Rows :
              /\ b.subject # a.subject => state'[b] = state[b]
              /\ state[b] \in Resolved => state'[b] = state[b]
         /\ \A b \in Rows' : b.subject = a.subject /\ b.owned
              => \/ b \in Rows /\ state[b] \in Resolved
                 \/ state'[b] = Judged(Group(Insert(state, a), a.subject), b)
         /\ \A b \in Rows' : state'[b] \in Resolved
              => b \in Rows /\ state[b] = state'[b]
         /\ a.owned /\ \A b \in Rows : ~b.owned => state'[b] = state[b]
<1> DEFINE table == Insert(state, a)
<1>1. /\ DOMAIN table = Rows \cup {a}
      /\ \A b \in Rows \cup {a} :
           table[b] = IF b = a THEN "uncontested" ELSE state[b]
  BY DEF Insert, Rows
<1>2. state' = Refreshed(table, a.subject) /\ a \notin Rows /\ a.owned
  BY DEF AssertLocation
<1>3. Rows' = Rows \cup {a}
  BY <1>1, <1>2 DEF Rows, Refreshed
<1> HIDE DEF table
<1>4. ASSUME NEW b \in Rows' PROVE
        /\ b.subject # a.subject => state'[b] = table[b]
        /\ table[b] \in Resolved => state'[b] = table[b]
        /\ b.subject = a.subject /\ b.owned /\ table[b] \notin Resolved
             => state'[b] = Judged(Group(table, a.subject), b)
        /\ ~b.owned => state'[b] = table[b]
  BY <1>1, <1>2, <1>3, RefreshedRow
<1>5. "uncontested" \notin Resolved
  BY DEF Resolved
<1>6. ASSUME NEW b \in Rows
      PROVE  /\ b.subject # a.subject => state'[b] = state[b]
             /\ state[b] \in Resolved => state'[b] = state[b]
             /\ ~b.owned => state'[b] = state[b]
  BY <1>1, <1>2, <1>3, <1>4
<1>7. ASSUME NEW b \in Rows', b.subject = a.subject, b.owned
      PROVE  \/ b \in Rows /\ state[b] \in Resolved
             \/ state'[b] = Judged(Group(table, a.subject), b)
  BY <1>1, <1>2, <1>3, <1>4, <1>5, <1>7
<1>8. ASSUME NEW b \in Rows', state'[b] \in Resolved
      PROVE  b \in Rows /\ state[b] = state'[b]
  <2>1. Judged(Group(table, a.subject), b) \notin Resolved
    BY JudgedState DEF Resolved
  <2>2. state'[b] = table[b]
    BY <1>4, <1>8, <2>1
  <2> QED BY <1>1, <1>3, <1>5, <1>8, <2>2
<1> QED BY <1>2, <1>3, <1>6, <1>7, <1>8 DEF table

(* What a resolution does to the rows.                                     *)
LEMMA ResolvedRows ==
  ASSUME NEW a \in Rows, NEW client \in Clients, NEW approved \in BOOLEAN,
         NEW decision \in Resolved, Resolve(a, client, approved, decision)
  PROVE  /\ Rows' = Rows /\ a.owned
         /\ state[a] = "contested" /\ state'[a] = decision
         /\ \A b \in Rows \ {a} : state'[b] = state[b]
  BY DEF Resolve, Rows

(* What the migration leaves behind.                                       *)
LEMMA InitialRows ==
  ASSUME Init
  PROVE  /\ Rows \subseteq Assertion
         /\ \A a \in Rows : state[a] = "uncontested" /\ a.client = Migration
         /\ lapsed = {}
<1>1. PICK old \in Backfill : state = [a \in old |-> "uncontested"]
  BY DEF Init
<1> QED BY <1>1 DEF Init, Backfill, Rows
-----------------------------------------------------------------------------
(* The rows are assertions, their states conflict states.                  *)
THEOREM TypeCorrect == Spec => []TypeOK
<1>1. Init => TypeOK
  BY InitialRows DEF TypeOK, ConflictStates
<1>2. TypeOK /\ [Next]_vars => TypeOK'
  <2> SUFFICES ASSUME TypeOK, [Next]_vars PROVE TypeOK'
    OBVIOUS
  <2>1. CASE UNCHANGED vars
    BY <2>1 DEF vars, TypeOK, Rows
  <2>2. ASSUME NEW a \in Assertion, AssertLocation(a) PROVE TypeOK'
    <3>1. \A b \in Rows' : state'[b] \in ConflictStates
      <4>1. ASSUME NEW b \in Rows' PROVE state'[b] \in ConflictStates
        <5>1. CASE b.subject = a.subject /\ b.owned
          BY <2>2, <5>1, AssertedRows, JudgedState DEF TypeOK, ConflictStates
        <5>2. CASE ~(b.subject = a.subject /\ b.owned)
          BY <2>2, <5>2, AssertedRows DEF TypeOK
        <5> QED BY <5>1, <5>2
      <4> QED BY <4>1
    <3>2. lapsed' \subseteq Rows'
      BY <2>2, AssertedRows DEF TypeOK, AssertLocation, Lapse, Rows
    <3> QED BY <2>2, <3>1, <3>2, AssertedRows DEF TypeOK
  <2>3. ASSUME NEW a \in Rows, NEW client \in Clients,
               NEW approved \in BOOLEAN, NEW decision \in Resolved,
               Resolve(a, client, approved, decision)
        PROVE  TypeOK'
    <3>1. \A b \in Rows' : state'[b] \in ConflictStates
      BY <2>3, ResolvedRows DEF TypeOK, ConflictStates, Resolved
    <3>2. lapsed' \subseteq Rows'
      BY <2>3, ResolvedRows DEF TypeOK, Resolve, Lapse, Rows
    <3> QED BY <2>3, <3>1, <3>2, ResolvedRows DEF TypeOK
  <2> QED BY <2>1, <2>2, <2>3 DEF Next
<1> QED BY <1>1, <1>2, PTL DEF Spec

(* Contradicting claims of one owner are shown as contested until they are  *)
(* resolved, for any number of them and whatever ownerless claims a         *)
(* migration left beside them: those are in no group and stay out of it.    *)
THEOREM ConflictsShown == Spec => []NoHiddenConflict
<1>1. Init => NoHiddenConflict
  <2> SUFFICES ASSUME Init, NEW a \in Rows, NEW b \in Rows
               PROVE  {a.client, b.client} = {Migration}
    BY DEF NoHiddenConflict
  <2> QED BY InitialRows
<1>2. NoHiddenConflict /\ [Next]_vars => NoHiddenConflict'
  <2> SUFFICES ASSUME NoHiddenConflict, [Next]_vars,
                      NEW a \in Rows', NEW b \in Rows',
                      a.subject = b.subject, a.owned, b.owned, Rival(a, b),
                      {a.client, b.client} # {Migration},
                      state'[a] \notin Resolved, state'[b] # "rejected"
               PROVE  state'[a] = "contested"
    BY DEF NoHiddenConflict, Rival, Overlaps, SameClaim
  <2>1. CASE UNCHANGED vars
    BY <2>1 DEF vars, NoHiddenConflict, Rows
  <2>2. ASSUME NEW c \in Assertion, AssertLocation(c)
        PROVE  state'[a] = "contested"
    <3>1. CASE a.subject # c.subject
      BY <2>2, <3>1, AssertedRows DEF NoHiddenConflict
    <3>2. CASE a.subject = c.subject
      <4> DEFINE table == Insert(state, c)
                 group == Group(table, c.subject)
      <4>1. b \in group
        <5>1. b \in DOMAIN table
          BY <2>2, AssertedRows DEF Insert, Rows
        <5>2. table[b] # "rejected"
          BY <2>2, AssertedRows DEF Insert, Rows, Resolved
        <5> QED BY <3>2, <5>1, <5>2 DEF Group
      <4>2. Judged(group, a) = "contested"
        BY <4>1 DEF Judged
      <4>3. state'[a] = Judged(group, a)
        BY <2>2, <3>2, AssertedRows
      <4> QED BY <4>2, <4>3
    <3> QED BY <3>1, <3>2
  <2>3. ASSUME NEW c \in Rows, NEW client \in Clients,
               NEW approved \in BOOLEAN, NEW decision \in Resolved,
               Resolve(c, client, approved, decision)
        PROVE  state'[a] = "contested"
    BY <2>3, ResolvedRows DEF NoHiddenConflict
  <2> QED BY <2>1, <2>2, <2>3 DEF Next
<1> QED BY <1>1, <1>2, PTL DEF Spec

(* Every contested or resolved claim has a rival on record.                *)
THEOREM ContestsAreGenuine == Spec => []ContestIsGenuine
<1>1. Init => ContestIsGenuine
  BY InitialRows DEF ContestIsGenuine, Resolved
<1>2. ContestIsGenuine /\ [Next]_vars => ContestIsGenuine'
  <2> SUFFICES ASSUME ContestIsGenuine, [Next]_vars, NEW a \in Rows',
                      state'[a] \in Resolved \cup {"contested"}
               PROVE  a.owned /\ \E b \in Rows' :
                        b.owned /\ b.subject = a.subject /\ Rival(a, b)
    BY DEF ContestIsGenuine, Rival, Overlaps, SameClaim
  <2>1. CASE UNCHANGED vars
    BY <2>1 DEF vars, ContestIsGenuine, Rows
  <2>2. ASSUME NEW c \in Assertion, AssertLocation(c)
        PROVE  a.owned /\ \E b \in Rows' :
                 b.owned /\ b.subject = a.subject /\ Rival(a, b)
    <3>1. CASE a \in Rows /\ state[a] \in Resolved \cup {"contested"}
      BY <2>2, <3>1, AssertedRows DEF ContestIsGenuine
    <3>2. CASE ~(a \in Rows /\ state[a] \in Resolved \cup {"contested"})
      <4> DEFINE table == Insert(state, c)
                 group == Group(table, c.subject)
      <4>1. state'[a] = "contested"
        BY <2>2, <3>2, AssertedRows
      <4>2. a.subject = c.subject /\ a.owned
        BY <2>2, <3>2, <4>1, AssertedRows
      <4>3. Judged(group, a) = "contested"
        BY <2>2, <3>2, <4>1, <4>2, AssertedRows
      <4>4. PICK b \in group : Rival(a, b)
        BY <4>3 DEF Judged
      <4>5. b \in Rows' /\ b.subject = c.subject /\ b.owned
        BY <2>2, <4>4, AssertedRows DEF Group, Insert, Rows
      <4> QED BY <4>2, <4>4, <4>5
    <3> QED BY <3>1, <3>2
  <2>3. ASSUME NEW c \in Rows, NEW client \in Clients,
               NEW approved \in BOOLEAN, NEW decision \in Resolved,
               Resolve(c, client, approved, decision)
        PROVE  a.owned /\ \E b \in Rows' :
                 b.owned /\ b.subject = a.subject /\ Rival(a, b)
    BY <2>3, ResolvedRows DEF ContestIsGenuine
  <2> QED BY <2>1, <2>2, <2>3 DEF Next
<1> QED BY <1>1, <1>2, PTL DEF Spec

(* A resolution is never undone, neither by a later claim nor by another    *)
(* resolution.                                                              *)
THEOREM ResolutionsStay == Spec => ResolutionStays
<1>1. [Next]_vars
        => [\A a \in Rows : state[a] \in Resolved => state'[a] = state[a]]_vars
  <2> SUFFICES ASSUME Next, NEW a \in Rows, state[a] \in Resolved
               PROVE  state'[a] = state[a]
    OBVIOUS
  <2>1. ASSUME NEW c \in Assertion, AssertLocation(c)
        PROVE  state'[a] = state[a]
    BY <2>1, AssertedRows
  <2>2. ASSUME NEW c \in Rows, NEW client \in Clients,
               NEW approved \in BOOLEAN, NEW decision \in Resolved,
               Resolve(c, client, approved, decision)
        PROVE  state'[a] = state[a]
    BY <2>2, ResolvedRows DEF Resolved
  <2> QED BY <2>1, <2>2 DEF Next
<1> QED BY <1>1, PTL DEF Spec, ResolutionStays

-----------------------------------------------------------------------------
(* Superseded claims are on record as such, and end before another claim   *)
(* of the subject begins.                                                  *)
SupersededRecorded == \A a \in Rows : state[a] = "superseded" => a \in lapsed

SupersededOutdated ==
  \A a \in Rows : state[a] = "superseded" =>
    a.owned /\ \E b \in Rows :
      b.owned /\ b.subject = a.subject /\ a.valid.to <= b.valid.from

RowFields(a) ==
  /\ a.subject \in Places \cup Venues /\ a.object \in Places
  /\ a.valid.from \in 0..Horizon + 1 /\ a.valid.to \in 0..Horizon + 1
  /\ a.valid.from <= a.valid.to

LEMMA AssertionFields == \A a \in Assertion : RowFields(a)
<1>1. \A p \in Periods \cup {Always} :
        p.from \in 0..Horizon + 1 /\ p.to \in 0..Horizon + 1 /\ p.from <= p.to
  BY PeriodAssumption, HorizonAssumption DEF Always
<1> QED BY <1>1 DEF Assertion, RowFields

LEMMA SupersededStep ==
  ASSUME TypeOK, SupersededRecorded, SupersededOutdated, [Next]_vars
  PROVE  SupersededRecorded' /\ SupersededOutdated' /\ lapsed \subseteq lapsed'
<1>1. CASE UNCHANGED vars
  BY <1>1 DEF vars, SupersededRecorded, SupersededOutdated, Rows
<1>2. CASE ~UNCHANGED vars
  <2>1. SupersededRecorded' /\ lapsed \subseteq lapsed'
    <3>1. Lapse
      BY <1>2 DEF Next, AssertLocation, Resolve
    <3> QED BY <3>1 DEF Lapse, SupersededRecorded, Rows
  <2>2. ASSUME NEW c \in Assertion, AssertLocation(c) PROVE SupersededOutdated'
    <3> SUFFICES ASSUME NEW a \in Rows', state'[a] = "superseded"
                 PROVE  a.owned /\ \E b \in Rows' :
                          b.owned /\ b.subject = a.subject /\ a.valid.to <= b.valid.from
      BY DEF SupersededOutdated
    <3>1. CASE ~(a.subject = c.subject /\ a.owned)
      <4>1. a \in Rows /\ state[a] = "superseded"
        BY <2>2, <3>1, AssertedRows
      <4> QED BY <2>2, <4>1, AssertedRows DEF SupersededOutdated
    <3>2. CASE a.subject = c.subject /\ a.owned
      <4> DEFINE group == Group(Insert(state, c), c.subject)
      <4>1. state'[a] = Judged(group, a)
        <5>1. \/ a \in Rows /\ state[a] \in Resolved
              \/ state'[a] = Judged(group, a)
          BY <2>2, <3>2, AssertedRows
        <5>2. a \in Rows /\ state[a] \in Resolved => state'[a] \in Resolved
          BY <2>2, AssertedRows
        <5> QED BY <5>1, <5>2 DEF Resolved
      <4>2. Outdated(a, group)
        BY <4>1 DEF Judged
      <4>3. PICK b \in group : a.valid.to <= b.valid.from
        BY <4>2 DEF Outdated
      <4>4. b \in Rows' /\ b.subject = c.subject /\ b.owned
        BY <2>2, <4>3, AssertedRows DEF Group, Insert, Rows
      <4> QED BY <3>2, <4>3, <4>4
    <3> QED BY <3>1, <3>2
  <2>3. ASSUME NEW c \in Rows, NEW client \in Clients,
               NEW approved \in BOOLEAN, NEW decision \in Resolved,
               Resolve(c, client, approved, decision)
        PROVE  SupersededOutdated'
    <3>1. \A a \in Rows' : state'[a] = "superseded" => state[a] = "superseded"
      BY <2>3, ResolvedRows DEF Resolved
    <3> QED BY <2>3, <3>1, ResolvedRows DEF SupersededOutdated
  <2> QED BY <1>2, <2>1, <2>2, <2>3 DEF Next
<1> QED BY <1>1, <1>2

(* Of claims that are all superseded the last one would have to end before *)
(* one of them begins.                                                     *)
LEMMA LastClaim ==
  ASSUME NEW claims, claims # {}, \A a \in claims : RowFields(a)
  PROVE  \E a \in claims : \A b \in claims : b.valid.to <= a.valid.to
<1> DEFINE S == {n \in Nat : \E a \in claims : n = Horizon + 1 - a.valid.to}
<1>1. \A a \in claims : Horizon + 1 - a.valid.to \in S
  <2> SUFFICES ASSUME NEW a \in claims PROVE Horizon + 1 - a.valid.to \in Nat
    OBVIOUS
  <2>1. a.valid.to \in 0..Horizon + 1
    BY DEF RowFields
  <2> QED BY <2>1, HorizonAssumption
<1>2. S # {} /\ S \subseteq Nat
  BY <1>1
<1> HIDE DEF S
<1>3. PICK m \in S : \A n \in S : <<n, m>> \notin OpToRel(<, Nat)
  BY <1>2, NatLessThanWellFounded, WFMin
<1>4. ASSUME NEW n \in S PROVE m <= n
  <2>1. m \in Nat /\ n \in Nat
    BY <1>2
  <2>2. ~(n < m)
    BY <1>3, <2>1 DEF OpToRel
  <2> QED BY <2>1, <2>2
<1>5. PICK a \in claims : m = Horizon + 1 - a.valid.to
  BY <1>3 DEF S
<1>6. ASSUME NEW b \in claims PROVE b.valid.to <= a.valid.to
  <2>1. m <= Horizon + 1 - b.valid.to
    BY <1>1, <1>4
  <2>2. a.valid.to \in 0..Horizon + 1 /\ b.valid.to \in 0..Horizon + 1
    BY DEF RowFields
  <2> QED BY <1>5, <2>1, <2>2, HorizonAssumption
<1> QED BY <1>6

(* Superseding leaves a subject a current claim, unless claims of it were   *)
(* rejected or made for an instant.                                         *)
THEOREM ClaimsStayCurrent == Spec => []SomeClaimCurrent
<1>1. Init => SupersededRecorded /\ SupersededOutdated
  BY InitialRows DEF SupersededRecorded, SupersededOutdated
<1>2. TypeOK /\ SupersededRecorded /\ SupersededOutdated /\ [Next]_vars
        => SupersededRecorded' /\ SupersededOutdated'
  BY SupersededStep
<1>3. TypeOK /\ SupersededOutdated => SomeClaimCurrent
  <2> SUFFICES ASSUME TypeOK, SupersededOutdated, NEW c \in Rows,
                      c.owned,
                      \A a \in {a \in Rows : a.subject = c.subject /\ a.owned} :
                        state[a] # "rejected" /\ ~Instant(a),
                      \A a \in {a \in Rows : a.subject = c.subject /\ a.owned} :
                        state[a] \notin ActiveStates
               PROVE  FALSE
    BY DEF SomeClaimCurrent
  <2> DEFINE claims == {a \in Rows : a.subject = c.subject /\ a.owned}
  <2>1. \A a \in claims : RowFields(a) /\ state[a] = "superseded" /\ ~Instant(a)
    BY AssertionFields DEF TypeOK, ConflictStates, ActiveStates
  <2>2. c \in claims
    OBVIOUS
  <2> HIDE DEF claims
  <2>3. PICK a \in claims : \A b \in claims : b.valid.to <= a.valid.to
    BY <2>1, <2>2, LastClaim
  <2>4. PICK b \in claims : a.valid.to <= b.valid.from
    BY <2>1 DEF SupersededOutdated, claims
  <2>5. b.valid.to <= a.valid.to /\ RowFields(a) /\ RowFields(b) /\ ~Instant(b)
    BY <2>1, <2>3
  <2> QED BY <2>4, <2>5, HorizonAssumption DEF RowFields, Instant
<1> QED BY <1>1, <1>2, <1>3, TypeCorrect, PTL DEF Spec

-----------------------------------------------------------------------------
(* Induction over the numbers, as a fact about sets of them, and what it    *)
(* says of the recursive function that Reach is defined by.                 *)

(* A set of natural numbers that holds 0 and each successor holds all.     *)
LEMMA NatSet ==
  ASSUME NEW S, 0 \in S, \A n \in Nat : n \in S => n + 1 \in S
  PROVE  Nat \subseteq S
<1> SUFFICES ASSUME Nat \ S # {} PROVE FALSE
  OBVIOUS
<1>1. PICK m \in Nat \ S : \A n \in Nat \ S : <<n, m>> \notin OpToRel(<, Nat)
  BY NatLessThanWellFounded, WFMin
<1>2. m - 1 \in Nat /\ (m - 1) + 1 = m
  <2>1. m \in Nat /\ m # 0
    OBVIOUS
  <2> QED BY <2>1
<1>3. m - 1 \in Nat \ S
  BY <1>2
<1>4. <<m - 1, m>> \in Nat \X Nat /\ m - 1 < m
  BY <1>2
<1> QED BY <1>1, <1>3, <1>4 DEF OpToRel

(* f is D iterated on x, n times: what a recursive definition solves.      *)
Iterate(f, X, D, x, n) ==
  f \in [0..n -> X] /\ f[0] = x /\ \A k \in 1..n : f[k] = D[f[k - 1]]

LEMMA Iterates ==
  ASSUME NEW X, NEW D \in [X -> X], NEW x \in X, NEW N \in Nat
  PROVE  \E f : Iterate(f, X, D, x, N)
<1> DEFINE S == {n \in Nat : \E f : Iterate(f, X, D, x, n)}
<1>1. 0 \in S
  <2> DEFINE f == [k \in 0..0 |-> x]
  <2>1. f \in [0..0 -> X] /\ f[0] = x /\ 1..0 = {}
    OBVIOUS
  <2> HIDE DEF f
  <2>2. Iterate(f, X, D, x, 0)
    BY <2>1 DEF Iterate
  <2> QED BY <2>2
<1>2. ASSUME NEW n \in Nat, n \in S PROVE n + 1 \in S
  <2>1. PICK f : Iterate(f, X, D, x, n)
    BY <1>2
  <2> DEFINE g == [k \in 0..n + 1 |-> IF k = n + 1 THEN D[f[n]] ELSE f[k]]
  <2>2. g \in [0..n + 1 -> X]
    BY <2>1 DEF Iterate
  <2>3. g[0] = x
    BY <2>1 DEF Iterate
  <2>4. ASSUME NEW k \in 1..n + 1 PROVE g[k] = D[g[k - 1]]
    <3>1. CASE k = n + 1
      BY <3>1
    <3>2. CASE k # n + 1
      BY <2>1, <3>2 DEF Iterate
    <3> QED BY <3>1, <3>2
  <2> HIDE DEF g
  <2>5. Iterate(g, X, D, x, n + 1)
    BY <2>2, <2>3, <2>4 DEF Iterate
  <2> QED BY <2>5
<1> HIDE DEF S
<1>3. Nat \subseteq S
  BY <1>1, <1>2, NatSet
<1> QED BY <1>3 DEF S


(* One round of the frontier, for all sets of places.                       *)
After(edges, A) == A \cup {e[2] : e \in {f \in edges : f[1] \in A}}
Round(edges) == [A \in SUBSET Places |-> After(edges, A)]

Closed(edges, A) == \A e \in edges : e[1] \in A => e[2] \in A

LEMMA RoundType ==
  ASSUME NEW edges \in SUBSET (Places \X Places)
  PROVE  /\ \A A \in SUBSET Places : After(edges, A) \in SUBSET Places
         /\ Round(edges) \in [SUBSET Places -> SUBSET Places]
BY DEF Round, After

(* The recursive function that Reach is defined by.                         *)
LEMMA ReachFunction ==
  ASSUME NEW edges \in SUBSET (Places \X Places), NEW start \in SUBSET Places,
         NEW N \in Nat
  PROVE  \E up : /\ Iterate(up, SUBSET Places, Round(edges), start, N)
                 /\ Reach(edges, start, N) = up[N]
<1> DEFINE Solves(f) == f = [i \in 0..N |-> IF i = 0 THEN start
                               ELSE After(edges, f[i - 1])]
<1>1. PICK f : Iterate(f, SUBSET Places, Round(edges), start, N)
  BY RoundType, Iterates
<1>2. ASSUME NEW k \in 1..N PROVE f[k] = After(edges, f[k - 1])
  <2>1. k - 1 \in 0..N
    OBVIOUS
  <2>2. f[k - 1] \in SUBSET Places
    BY <1>1, <2>1 DEF Iterate
  <2> QED BY <1>1, <2>2 DEF Round, Iterate
<1>3. Solves(f)
  BY <1>1, <1>2 DEF Iterate
<1> DEFINE up == CHOOSE h : Solves(h)
<1>4. Solves(up)
  <2> HIDE DEF Solves
  <2> QED BY <1>3
<1>5. Reach(edges, start, N) = up[N]
  BY DEF Reach, After
<1> HIDE DEF up
<1>6. /\ DOMAIN up = 0..N /\ up[0] = start
      /\ \A k \in 1..N : up[k] = After(edges, up[k - 1])
  <2>1. \A k \in 1..N : k \in 0..N /\ k # 0
    OBVIOUS
  <2>2. 0 \in 0..N
    OBVIOUS
  <2> QED BY <1>4, <2>1, <2>2
<1>7. up = [k \in 0..N |-> up[k]]
  BY <1>4
<1> HIDE DEF Solves
<1> DEFINE S == {n \in Nat : n \in 0..N => up[n] \in SUBSET Places}
<1>8. 0 \in S
  BY <1>6
<1>9. ASSUME NEW n \in Nat, n \in S PROVE n + 1 \in S
  <2>1. n + 1 \in 0..N => n \in 0..N /\ n + 1 \in 1..N /\ (n + 1) - 1 = n
    OBVIOUS
  <2>2. n + 1 \in 0..N => up[n + 1] = After(edges, up[n])
    BY <1>6, <2>1
  <2>3. up[n] \in SUBSET Places => After(edges, up[n]) \in SUBSET Places
    BY RoundType
  <2> QED BY <1>9, <2>1, <2>2, <2>3
<1> HIDE DEF S
<1>10. Nat \subseteq S
  BY <1>8, <1>9, NatSet
<1>11. \A k \in 0..N : up[k] \in SUBSET Places
  BY <1>10 DEF S
<1>12. \A k \in 1..N : up[k] = Round(edges)[up[k - 1]]
  <2>1. \A k \in 1..N : k - 1 \in 0..N
    OBVIOUS
  <2> QED BY <1>6, <1>11, <2>1 DEF Round
<1>13. up \in [0..N -> SUBSET Places]
  BY <1>7, <1>11
<1> QED BY <1>5, <1>6, <1>12, <1>13 DEF Iterate

(* As many rounds as places reach the least set of places that holds the    *)
(* first ones and what is reached from each.                                *)
LEMMA ReachLeast ==
  ASSUME NEW edges \in SUBSET (Places \X Places), NEW start \in SUBSET Places
  PROVE  LET R == Reach(edges, start, Cardinality(Places))
         IN  /\ start \subseteq R /\ R \subseteq Places /\ Closed(edges, R)
             /\ \A A : start \subseteq A /\ Closed(edges, A) => R \subseteq A
<1> DEFINE N == Cardinality(Places)
<1>1. N \in Nat /\ IsFiniteSet(Places)
  BY FS_CardinalityType, PlacesAssumption
<1>2. PICK up : /\ Iterate(up, SUBSET Places, Round(edges), start, N)
                /\ Reach(edges, start, N) = up[N]
  BY <1>1, ReachFunction
<1>3. \A k \in 0..N : /\ up[k] \in SUBSET Places
                      /\ IsFiniteSet(up[k])
                      /\ Cardinality(up[k]) \in Nat /\ Cardinality(up[k]) <= N
  <2>1. \A k \in 0..N : up[k] \in SUBSET Places
    BY <1>2 DEF Iterate
  <2> QED BY <1>1, <2>1, FS_Subset, FS_CardinalityType
<1> HIDE DEF N
<1>4. ASSUME NEW n \in Nat, n + 1 \in 0..N
      PROVE  n \in 0..N /\ up[n + 1] = After(edges, up[n])
  <2>1. n \in 0..N /\ n + 1 \in 1..N /\ (n + 1) - 1 = n
    BY <1>1, <1>4
  <2>2. up[n + 1] = Round(edges)[up[n]]
    BY <1>2, <2>1 DEF Iterate
  <2> QED BY <1>3, <2>1, <2>2 DEF Round
<1>5. Closed(edges, up[N])
  <2> DEFINE S == {n \in Nat : n \in 0..N =>
                     Closed(edges, up[n]) \/ Cardinality(up[n]) >= n + 1}
  <2>1. 0 \in S
    <3>1. CASE up[0] = {}
      BY <3>1 DEF Closed
    <3>2. CASE up[0] # {} /\ 0 \in 0..N
      <4>1. Cardinality(up[0]) # 0 /\ Cardinality(up[0]) \in Nat
        BY <1>3, <3>2, FS_EmptySet
      <4> QED BY <4>1
    <3> QED BY <3>1, <3>2
  <2>2. ASSUME NEW n \in Nat, n \in S PROVE n + 1 \in S
    <3> SUFFICES ASSUME n + 1 \in 0..N
                 PROVE  Closed(edges, up[n + 1]) \/ Cardinality(up[n + 1]) >= (n + 1) + 1
      OBVIOUS
    <3>1. n \in 0..N /\ up[n] \subseteq up[n + 1] /\ up[n + 1] = After(edges, up[n])
      BY <1>4 DEF After
    <3>2. CASE Closed(edges, up[n])
      <4>1. up[n + 1] = up[n]
        BY <3>1, <3>2 DEF Closed, After
      <4> QED BY <3>2, <4>1
    <3>3. CASE ~Closed(edges, up[n])
      <4>1. up[n + 1] # up[n]
        BY <3>1, <3>3 DEF Closed, After
      <4>2. /\ Cardinality(up[n]) # Cardinality(up[n + 1])
            /\ Cardinality(up[n]) <= Cardinality(up[n + 1])
        BY <1>3, <3>1, <4>1, FS_Subset
      <4>3. Cardinality(up[n]) >= n + 1
        BY <2>2, <3>1, <3>3
      <4>4. Cardinality(up[n]) \in Nat /\ Cardinality(up[n + 1]) \in Nat
        BY <1>3, <3>1
      <4> QED BY <4>2, <4>3, <4>4
    <3> QED BY <3>2, <3>3
  <2> HIDE DEF S
  <2>3. N \in S
    BY <1>1, <2>1, <2>2, NatSet
  <2> QED BY <1>1, <1>3, <2>3 DEF S
<1>6. start \subseteq up[N]
  <2> DEFINE S == {n \in Nat : n \in 0..N => start \subseteq up[n]}
  <2>1. 0 \in S
    BY <1>2 DEF Iterate
  <2>2. ASSUME NEW n \in Nat, n \in S PROVE n + 1 \in S
    BY <1>4, <2>2 DEF After
  <2> HIDE DEF S
  <2>3. N \in S
    BY <1>1, <2>1, <2>2, NatSet
  <2> QED BY <1>1, <2>3 DEF S
<1>7. ASSUME NEW A, start \subseteq A, Closed(edges, A) PROVE up[N] \subseteq A
  <2> DEFINE S == {n \in Nat : n \in 0..N => up[n] \subseteq A}
  <2>1. 0 \in S
    BY <1>2, <1>7 DEF Iterate
  <2>2. ASSUME NEW n \in Nat, n \in S PROVE n + 1 \in S
    BY <1>4, <1>7, <2>2 DEF Closed, After
  <2> HIDE DEF S
  <2>3. N \in S
    BY <1>1, <2>1, <2>2, NatSet
  <2> QED BY <1>1, <2>3 DEF S
<1>8. up[N] \subseteq Places
  BY <1>1, <1>3
<1> QED BY <1>2, <1>5, <1>6, <1>7, <1>8 DEF N

(* The places that are one containment above p.                            *)
Above(edges, p) == {e[2] : e \in {f \in edges : f[1] = p}}

(* A containment that the check allows makes no cycle; the check may follow *)
(* more of them than are looked at, and some may go.                        *)
LEMMA EdgeAdded ==
  ASSUME NEW old \in SUBSET (Places \X Places), NEW all \in SUBSET (Places \X Places),
         NEW new \in SUBSET (Places \X Places),
         NEW s \in Places, NEW o \in Places, old \subseteq all,
         new \subseteq old \cup {<<s, o>>},
         s \notin Reach(all, {o}, Cardinality(Places)), ~Cyclic(old)
  PROVE  ~Cyclic(new)
<1> SUFFICES ASSUME NEW p \in Places
             PROVE  p \notin Reach(new, Above(new, p), Cardinality(Places))
  BY DEF Cyclic, Above
<1>1. \A es \in SUBSET (Places \X Places) : Above(es, p) \in SUBSET Places
  BY DEF Above
<1>2. ASSUME NEW A, Closed(new, A), Above(new, p) \subseteq A, p \notin A
      PROVE  p \notin Reach(new, Above(new, p), Cardinality(Places))
  BY <1>1, <1>2, ReachLeast
<1> DEFINE O == Reach(all, {o}, Cardinality(Places))
           Q == Reach(old, Above(old, p), Cardinality(Places))
<1>3. /\ o \in O /\ Closed(all, O) /\ s \notin O
  BY ReachLeast
<1>4. /\ Above(old, p) \subseteq Q /\ Closed(old, Q)
      /\ \A A : Above(old, p) \subseteq A /\ Closed(old, A) => Q \subseteq A
  BY <1>1, ReachLeast
<1>5. p \notin Q
  BY DEF Cyclic, Above
<1> HIDE DEF O, Q
<1>6. Closed(old, O)
  BY <1>3 DEF Closed
<1>7. Closed(old, Q \cup O)
  BY <1>4, <1>6 DEF Closed
<1>8. \A e \in new : e \in old \/ (e[1] = s /\ e[2] = o)
  OBVIOUS
<1>9. CASE p = s
  <2>1. Closed(new, Q \cup O)
    BY <1>3, <1>5, <1>7, <1>8, <1>9 DEF Closed
  <2>2. Above(new, p) \subseteq Q \cup O
    BY <1>3, <1>4, <1>8 DEF Above
  <2> QED BY <1>2, <1>3, <1>5, <1>9, <2>1, <2>2
<1>10. CASE p # s
  <2>1. Above(new, p) \subseteq Above(old, p)
    BY <1>8, <1>10 DEF Above
  <2>2. CASE s \notin Q
    <3>1. Closed(new, Q)
      BY <1>4, <1>8, <2>2 DEF Closed
    <3> QED BY <1>2, <1>4, <1>5, <2>1, <3>1
  <2>3. CASE s \in Q
    <3>1. p \notin O
      <4>1. SUFFICES ASSUME p \in O PROVE FALSE
        OBVIOUS
      <4>2. Above(old, p) \subseteq O
        BY <1>6, <4>1 DEF Closed, Above
      <4> QED BY <1>3, <1>4, <1>6, <2>3, <4>2
    <3>2. Closed(new, Q \cup O)
      BY <1>3, <1>7, <1>8 DEF Closed
    <3> QED BY <1>2, <1>4, <1>5, <2>1, <3>1, <3>2
  <2> QED BY <2>2, <2>3
<1> QED BY <1>9, <1>10

(* Fewer containments make no cycle.                                        *)
LEMMA FewerEdges ==
  ASSUME NEW old \in SUBSET (Places \X Places), NEW new \in SUBSET (Places \X Places),
         new \subseteq old, ~Cyclic(old)
  PROVE  ~Cyclic(new)
<1> SUFFICES ASSUME NEW p \in Places
             PROVE  p \notin Reach(new, Above(new, p), Cardinality(Places))
  BY DEF Cyclic, Above
<1> DEFINE Q == Reach(old, Above(old, p), Cardinality(Places))
<1>1. Above(old, p) \in SUBSET Places /\ Above(new, p) \in SUBSET Above(old, p)
  BY DEF Above
<1>2. Above(old, p) \subseteq Q /\ Closed(old, Q)
  BY <1>1, ReachLeast
<1>3. p \notin Q
  BY DEF Cyclic, Above
<1> HIDE DEF Q
<1>4. Closed(new, Q) /\ Above(new, p) \subseteq Q
  BY <1>1, <1>2 DEF Closed
<1>5. Reach(new, Above(new, p), Cardinality(Places)) \subseteq Q
  BY <1>1, <1>4, ReachLeast
<1> QED BY <1>3, <1>5

(* The containments of a table, of the rows that are not gone.              *)
Containing(table, gone, scheme) ==
  {a \in DOMAIN table \ gone : /\ a.subject \in Places /\ a.scheme = scheme
                               /\ table[a] \in ActiveStates}

Lasting(table, gone, scheme) ==
  Contains(Restrict(table, DOMAIN table \ gone), scheme)

LEMMA ContainedPairs ==
  ASSUME NEW table, NEW gone, NEW scheme, DOMAIN table \subseteq Assertion
  PROVE  /\ Contains(table, scheme)
              = {<<a.subject, a.object>> : a \in Containing(table, {}, scheme)}
         /\ Lasting(table, gone, scheme)
              = {<<a.subject, a.object>> : a \in Containing(table, gone, scheme)}
         /\ Contains(table, scheme) \in SUBSET (Places \X Places)
         /\ Lasting(table, gone, scheme) \in SUBSET (Places \X Places)
         /\ Lasting(table, gone, scheme) \subseteq Contains(table, scheme)
<1>1. Contains(table, scheme)
        = {<<a.subject, a.object>> : a \in Containing(table, {}, scheme)}
  BY DEF Contains, Containing
<1>2. Lasting(table, gone, scheme)
        = {<<a.subject, a.object>> : a \in Containing(table, gone, scheme)}
  <2> DEFINE kept == Restrict(table, DOMAIN table \ gone)
  <2>1. DOMAIN kept = DOMAIN table \ gone /\ \A a \in DOMAIN kept : kept[a] = table[a]
    BY DEF Restrict
  <2> HIDE DEF kept
  <2>2. {b \in DOMAIN kept : /\ b.subject \in Places /\ b.scheme = scheme
                             /\ kept[b] \in ActiveStates} = Containing(table, gone, scheme)
    BY <2>1 DEF Containing
  <2> QED BY <2>2 DEF Lasting, Contains, kept
<1>3. \A a \in Containing(table, {}, scheme) : <<a.subject, a.object>> \in Places \X Places
  BY AssertionFields DEF Containing, RowFields
<1>4. Containing(table, gone, scheme) \subseteq Containing(table, {}, scheme)
  BY DEF Containing
<1> QED BY <1>1, <1>2, <1>3, <1>4

(* What lasts after a step was there before it, or is what was asserted.    *)
LEMMA LastingAsserted ==
  ASSUME TypeOK, SupersededRecorded, lapsed \subseteq lapsed', SupersededRecorded',
         NEW a \in Assertion, AssertLocation(a), NEW scheme
  PROVE  Containing(state', lapsed', scheme) \subseteq
           Containing(state, lapsed, scheme) \cup
             (IF a.subject \in Places /\ a.scheme = scheme THEN {a} ELSE {})
<1> SUFFICES ASSUME NEW b \in Containing(state', lapsed', scheme), b # a
             PROVE  b \in Containing(state, lapsed, scheme)
  BY DEF Containing
<1>1. /\ b \in Rows' /\ b \notin lapsed' /\ state'[b] \in ActiveStates
      /\ b.subject \in Places /\ b.scheme = scheme
  BY DEF Containing, Rows
<1>2. b \in Rows /\ b \notin lapsed /\ state[b] # "superseded"
  BY <1>1, AssertedRows DEF SupersededRecorded
<1>3. state[b] # "rejected"
  BY <1>1, <1>2, AssertedRows DEF Resolved, ActiveStates
<1>4. state[b] \in ActiveStates
  BY <1>2, <1>3 DEF TypeOK, ConflictStates, ActiveStates
<1> QED BY <1>1, <1>2, <1>4 DEF Containing, Rows

LEMMA LastingResolved ==
  ASSUME NEW a \in Rows, NEW client \in Clients, NEW approved \in BOOLEAN,
         NEW decision \in Resolved, Resolve(a, client, approved, decision),
         lapsed \subseteq lapsed', NEW scheme
  PROVE  Containing(state', lapsed', scheme) \subseteq Containing(state, lapsed, scheme)
BY ResolvedRows DEF Containing, Rows, ActiveStates

(* The cycle check keeps free of cycles what it can see for good: the       *)
(* containments that were never superseded.                                 *)
THEOREM StaysAcyclic == Spec => []AcyclicUnlessRevived
<1> DEFINE Acyclic(table, gone) == \A scheme \in Schemes : ~Cyclic(Lasting(table, gone, scheme))
<1>1. AcyclicUnlessRevived <=> Acyclic(state, lapsed)
  BY DEF AcyclicUnlessRevived, Lasting, Rows
<1>2. Init => SupersededRecorded /\ SupersededOutdated /\ AcyclicUnlessRevived
  <2> SUFFICES ASSUME Init, NEW scheme \in Schemes PROVE ~Cyclic(Lasting(state, lapsed, scheme))
    BY <1>1, InitialRows DEF SupersededRecorded, SupersededOutdated
  <2>1. Rows \subseteq Assertion /\ \A a \in Rows : a.subject \notin Places
    <3>1. PICK old \in Backfill : state = [a \in old |-> "uncontested"]
      BY DEF Init
    <3>2. \A a \in Rows : a.subject \in Venues
      BY <3>1 DEF Backfill, Rows
    <3> QED BY <3>2, InitialRows, KindAssumption
  <2>2. Containing(state, lapsed, scheme) = {}
    BY <2>1 DEF Containing, Rows
  <2>3. Lasting(state, lapsed, scheme) = {}
    BY <2>1, <2>2, ContainedPairs DEF Rows
  <2>4. \A p \in Places : Reach({}, {}, Cardinality(Places)) \subseteq {}
    <3>1. {} \in SUBSET (Places \X Places) /\ {} \in SUBSET Places /\ Closed({}, {})
      BY DEF Closed
    <3> QED BY <3>1, ReachLeast
  <2>5. \A p \in Places : {e[2] : e \in {f \in {} : f[1] = p}} = {}
    OBVIOUS
  <2> QED BY <2>3, <2>4, <2>5 DEF Cyclic
<1>3. TypeOK /\ SupersededRecorded /\ SupersededOutdated /\ AcyclicUnlessRevived /\ [Next]_vars
        => SupersededRecorded' /\ SupersededOutdated' /\ AcyclicUnlessRevived'
  <2> SUFFICES ASSUME TypeOK, SupersededRecorded, SupersededOutdated, AcyclicUnlessRevived,
                      [Next]_vars
               PROVE  AcyclicUnlessRevived'
    BY SupersededStep
  <2>1. AcyclicUnlessRevived' <=> Acyclic(state', lapsed')
    BY DEF AcyclicUnlessRevived, Lasting, Rows
  <2> SUFFICES ASSUME NEW scheme \in Schemes
               PROVE  ~Cyclic(Lasting(state', lapsed', scheme))
    BY <2>1
  <2>2. SupersededRecorded' /\ lapsed \subseteq lapsed'
    BY SupersededStep
  <2>3. ~Cyclic(Lasting(state, lapsed, scheme))
    BY <1>1
  <2>4. DOMAIN state \subseteq Assertion
    BY DEF TypeOK, Rows
  <2>5. ASSUME DOMAIN state' \subseteq Assertion,
               NEW s \in Places, NEW o \in Places, ~WouldCycle(state, s, o, scheme),
               Lasting(state', lapsed', scheme) \subseteq Lasting(state, lapsed, scheme) \cup {<<s, o>>}
        PROVE  ~Cyclic(Lasting(state', lapsed', scheme))
    <3>1. /\ Lasting(state, lapsed, scheme) \in SUBSET (Places \X Places)
          /\ Contains(state, scheme) \in SUBSET (Places \X Places)
          /\ Lasting(state, lapsed, scheme) \subseteq Contains(state, scheme)
          /\ Lasting(state', lapsed', scheme) \in SUBSET (Places \X Places)
      BY <2>4, <2>5, ContainedPairs
    <3>2. s \notin Reach(Contains(state, scheme), {o}, Cardinality(Places))
      BY <2>5 DEF WouldCycle
    <3> QED BY <2>3, <2>5, <3>1, <3>2, EdgeAdded
  <2>6. ASSUME DOMAIN state' \subseteq Assertion,
               Containing(state', lapsed', scheme) \subseteq Containing(state, lapsed, scheme)
        PROVE  ~Cyclic(Lasting(state', lapsed', scheme))
    <3>1. Lasting(state', lapsed', scheme) \subseteq Lasting(state, lapsed, scheme)
      BY <2>4, <2>6, ContainedPairs
    <3>2. /\ Lasting(state, lapsed, scheme) \in SUBSET (Places \X Places)
          /\ Lasting(state', lapsed', scheme) \in SUBSET (Places \X Places)
      BY <2>4, <2>6, ContainedPairs
    <3> QED BY <2>3, <3>1, <3>2, FewerEdges
  <2>7. CASE UNCHANGED vars
    BY <2>3, <2>7 DEF vars
  <2>8. ASSUME NEW a \in Assertion, AssertLocation(a)
        PROVE  ~Cyclic(Lasting(state', lapsed', scheme))
    <3>1. DOMAIN state' \subseteq Assertion
      <4>1. Rows' = Rows \cup {a}
        BY <2>8, AssertedRows
      <4> QED BY <2>4, <4>1 DEF Rows
    <3>2. Containing(state', lapsed', scheme) \subseteq
           Containing(state, lapsed, scheme) \cup
             (IF a.subject \in Places /\ a.scheme = scheme THEN {a} ELSE {})
      BY <2>2, <2>8, LastingAsserted
    <3>3. CASE a.subject \in Places /\ a.scheme = scheme
      <4>1. Lasting(state', lapsed', scheme)
              \subseteq Lasting(state, lapsed, scheme) \cup {<<a.subject, a.object>>}
        BY <2>4, <3>1, <3>2, <3>3, ContainedPairs
      <4>2. a.object \in Places
        BY AssertionFields DEF RowFields
      <4>3. ~WouldCycle(state, a.subject, a.object, scheme)
        BY <2>8, <3>3 DEF AssertLocation, NoNewCycle
      <4> QED BY <2>5, <3>1, <3>3, <4>1, <4>2, <4>3
    <3>4. CASE ~(a.subject \in Places /\ a.scheme = scheme)
      BY <2>6, <3>1, <3>2, <3>4
    <3> QED BY <3>3, <3>4
  <2>9. ASSUME NEW a \in Rows, NEW client \in Clients,
               NEW approved \in BOOLEAN, NEW decision \in Resolved,
               Resolve(a, client, approved, decision)
        PROVE  ~Cyclic(Lasting(state', lapsed', scheme))
    <3>1. DOMAIN state' \subseteq Assertion
      <4>1. Rows' = Rows
        BY <2>9, ResolvedRows
      <4> QED BY <2>4, <4>1 DEF Rows
    <3> QED BY <2>2, <2>6, <2>9, <3>1, LastingResolved
  <2> QED BY <2>7, <2>8, <2>9 DEF Next
<1> QED BY <1>2, <1>3, TypeCorrect, PTL DEF Spec
=============================================================================
