------------------------------ MODULE Location ------------------------------
(* Governed location claims of one owner (services/location.py).  A client *)
(* asserts where a subject is, for a period; other clients contest it by    *)
(* asserting something else for an overlapping period, and contested claims *)
(* are accepted or rejected one by one.  Containment of places in places    *)
(* must stay free of cycles.                                                *)
(*                                                                          *)
(*   - Claims of different owners never meet in a query, so the claims one  *)
(*     owner is shown are modelled: the owner's, and those a migration made *)
(*     of subjects that nobody owned.  These are shown and queried beside   *)
(*     the owner's and followed by the cycle check, but never compared with *)
(*     them and never resolved.  MCP requests are served one after the      *)
(*     other, so a request is one step.                                     *)
(*   - A stored claim is identified by the columns the code looks it up by  *)
(*     (a repeated one is answered with the stored row), so the table is a  *)
(*     function from assertions to conflict states.                         *)
(*   - Time is 0..Horizon + 1; a period without a start begins at 0, one    *)
(*     without an end ends at Horizon + 1.                                  *)
(*   - A place contains (predicate contained_in); any other subject is      *)
(*     located_in a place.  The remaining predicates carry a value where    *)
(*     these carry a place and behave as located_in does.                   *)
EXTENDS Integers, FiniteSets, Functions

CONSTANTS
  Places,      \* subjects of the type place
  Venues,      \* subjects of another type that is eligible for locations
  Schemes,     \* schemes of containment ("administrative", ...)
  Clients,
  Migration,   \* the client name of claims a migration has filled in
  Horizon,     \* the last instant
  Periods,     \* the periods of validity claims are made for
  MaxRows      \* bound: claims stored

ASSUME HorizonAssumption == Horizon \in Nat
ASSUME PeriodAssumption ==
  Periods \subseteq
    {p \in [from : 0..Horizon, to : 1..Horizon + 1] : p.from <= p.to}
ASSUME BoundAssumption == MaxRows \in Nat
ASSUME ClientAssumption == Migration \notin Clients
ASSUME KindAssumption == Places \cap Venues = {}
ASSUME PlacesAssumption == IsFiniteSet(Places)

VARIABLES
  state,   \* conflict_state of every stored assertion
  lapsed   \* assertions that were superseded once; history only
vars == <<state, lapsed>>

Always == [from |-> 0, to |-> Horizon + 1]

Assertion ==
  {a \in [subject : Places \cup Venues, object : Places, scheme : Schemes,
          client : Clients \cup {Migration}, owned : BOOLEAN,
          valid : Periods \cup {Always}] :
     a.owned \/ a.client = Migration}

Rows == DOMAIN state

ConflictStates ==
  {"uncontested", "contested", "superseded", "accepted", "rejected"}
ActiveStates == {"uncontested", "contested", "accepted"}
Resolved == {"accepted", "rejected"}

Overlaps(a, b) ==
  /\ a.valid.from <= b.valid.to
  /\ b.valid.from <= a.valid.to

SameClaim(a, b) == a.object = b.object /\ a.scheme = b.scheme

Rival(a, b) == Overlaps(a, b) /\ ~SameClaim(a, b)

\* The rows whose conflict states are looked at together: the owner's.
Group(table, subject) ==
  {a \in DOMAIN table : /\ a.subject = subject /\ a.owned
                        /\ table[a] # "rejected"}

\* Mutant of Outdated: the bounds of the other row mixed up.
OutdatedByEither(a, group) ==
  \E b \in group \ {a} : a.valid.to <= b.valid.from \/ b.valid.to <= a.valid.from

\* Ends before another row of the group starts.
Outdated(a, group) == \E b \in group \ {a} : a.valid.to <= b.valid.from

\* Mutants of Judged: the end of the period looked at first, a rival of any period.
JudgedOutdatedFirst(group, a) ==
  IF Outdated(a, group) THEN "superseded"
  ELSE IF \E b \in group : Rival(a, b) THEN "contested"
  ELSE "uncontested"
JudgedAtAnyTime(group, a) ==
  IF \E b \in group : ~SameClaim(a, b) THEN "contested"
  ELSE IF Outdated(a, group) THEN "superseded"
  ELSE "uncontested"

\* _refresh_conflicts for one row.
Judged(group, a) ==
  IF \E b \in group : Rival(a, b) THEN "contested"
  ELSE IF Outdated(a, group) THEN "superseded"
  ELSE "uncontested"

\* Mutant of Refreshed: an accepted claim is judged again.
RefreshedAll(table, subject) ==
  LET group == Group(table, subject)
  IN [a \in DOMAIN table |->
        IF a \in group THEN Judged(group, a) ELSE table[a]]

\* _refresh_conflicts: accepted and rejected rows are left alone.
Refreshed(table, subject) ==
  LET group == Group(table, subject)
  IN [a \in DOMAIN table |->
        IF a \in group /\ table[a] # "accepted"
          THEN Judged(group, a) ELSE table[a]]

\* The containments of a scheme the cycle check follows.
Contains(table, scheme) ==
  {<<a.subject, a.object>> : a \in
     {b \in DOMAIN table : /\ b.subject \in Places /\ b.scheme = scheme
                           /\ table[b] \in ActiveStates}}

\* The places the frontier reaches after n more rounds.
Reach(edges, start, n) ==
  LET Step(S) == S \cup {e[2] : e \in {f \in edges : f[1] \in S}}
      after[i \in 0..n] == IF i = 0 THEN start ELSE Step(after[i - 1])
  IN after[n]

\* Mutant of WouldCycle: one round of the frontier only.
WouldCycleDirect(table, subject, parent, scheme) ==
  subject \in Reach(Contains(table, scheme), {parent}, 1)

WouldCycle(table, subject, parent, scheme) ==
  subject \in Reach(Contains(table, scheme), {parent}, Cardinality(Places))
-----------------------------------------------------------------------------
\* The claims migration 0016 made of the address and the postcode a subject
\* had as attributes: two at most for a predicate, not compared, and of the
\* subject's owner or, like the subject, of nobody.
Backfill ==
  {old \in SUBSET {a \in Assertion : /\ a.subject \in Venues
                                    /\ a.client = Migration
                                    /\ a.valid = Always} :
     /\ Cardinality(old) <= MaxRows
     /\ \A v \in Venues : Cardinality({a \in old : a.subject = v}) <= 2
     /\ \A a, b \in old : a.subject = b.subject => a.owned = b.owned}

Init ==
  /\ \E old \in Backfill : state = [a \in old |-> "uncontested"]
  /\ lapsed = {}

Insert(table, a) == [b \in DOMAIN table \cup {a} |->
                       IF b = a THEN "uncontested" ELSE table[b]]

Lapse == lapsed' = lapsed \cup {a \in DOMAIN state' : state'[a] = "superseded"}

NoNewCycle(a) ==
  a.subject \in Places => ~WouldCycle(state, a.subject, a.object, a.scheme)

\* assert_location: a claim that is already stored is answered as it is.
AssertLocation(a) ==
  /\ a.client \in Clients /\ a.owned /\ a.valid \in Periods
  /\ a \notin Rows /\ Cardinality(Rows) < MaxRows
  /\ NoNewCycle(a)
  /\ state' = Refreshed(Insert(state, a), a.subject)
  /\ Lapse

\* resolve_location_assertion of a claim of the owner's, by a client, with or
\* without the user's approval; the other claims of the group are not refreshed.
Resolve(a, client, approved, decision) ==
  /\ a.owned /\ state[a] = "contested"
  /\ approved \/ client # a.client
  /\ state' = [state EXCEPT ![a] = decision]
  /\ Lapse

Next ==
  \/ \E a \in Assertion : AssertLocation(a)
  \/ \E a \in Rows, client \in Clients, approved \in BOOLEAN,
        decision \in Resolved : Resolve(a, client, approved, decision)

Spec == Init /\ [][Next]_vars
-----------------------------------------------------------------------------
(* Properties.                                                             *)

\* The types of the variables.
TypeOK ==
  /\ Rows \subseteq Assertion
  /\ \A a \in Rows : state[a] \in ConflictStates
  /\ lapsed \subseteq Rows

\* Every claim of the owner that contradicts another of the owner's for a
\* common period is shown as contested until it is resolved, although a
\* resolution refreshes nothing and a new claim refreshes only its own
\* subject.  Two claims the migration filled in are an exception: it does not
\* compare them.  It says nothing of the claims of ownerless subjects, which
\* the owner is shown too and which no claim is ever compared with.
NoHiddenConflict ==
  \A a, b \in Rows :
    (/\ a.subject = b.subject /\ a.owned /\ b.owned /\ Rival(a, b)
     /\ {a.client, b.client} # {Migration}
     /\ state[a] \notin Resolved /\ state[b] # "rejected")
    => state[a] = "contested"

\* Nobody is asked to resolve a claim that never had a rival: a contested or
\* resolved claim is the owner's and has, or had, a rival of the owner's on
\* record, none that was made of an ownerless subject.
ContestIsGenuine ==
  \A a \in Rows : state[a] \in Resolved \cup {"contested"}
    => a.owned /\ \E b \in Rows : b.owned /\ b.subject = a.subject /\ Rival(a, b)

\* A resolved claim stays as it was resolved, whatever is asserted later.
ResolutionStays ==
  [][\A a \in Rows : state[a] \in Resolved => state'[a] = state[a]]_vars

\* Two claims for one and the same instant.
Instant(a) == a.valid.from = a.valid.to

\* Superseding never loses a subject's location: while none of the claims the
\* owner made of it is rejected or for a single instant, one is current.
SomeClaimCurrent ==
  \A s \in {a.subject : a \in {b \in Rows : b.owned}} :
    LET claims == {a \in Rows : a.subject = s /\ a.owned}
    IN (\A a \in claims : state[a] # "rejected" /\ ~Instant(a))
       => \E a \in claims : state[a] \in ActiveStates

Cyclic(edges) ==
  \E p \in Places :
    p \in Reach(edges, {e[2] : e \in {f \in edges : f[1] = p}},
                Cardinality(Places))

\* The cycle check keeps the claims acyclic that were never superseded, each
\* scheme for itself.
AcyclicUnlessRevived ==
  \A scheme \in Schemes :
    ~Cyclic(Contains(Restrict(state, Rows \ lapsed), scheme))

\* What the error PLACE_CONTAINMENT_CYCLE promises: the current containments
\* of a scheme have no cycle.  Violated: a superseded claim is not followed by
\* the check, and a later claim makes it current again.
AcyclicContainment == \A scheme \in Schemes : ~Cyclic(Contains(state, scheme))
=============================================================================
