----------------------------- MODULE PlaceNames -----------------------------
(***************************************************************************)
(* Which place a location claim is about: _resolve_or_create_place of      *)
(* app/services/location.py, next to clients that ensure places as         *)
(* subjects (app/services/v2.py).                                          *)
(*                                                                         *)
(* A claim names its place by id or by a canonical key, a name and durable *)
(* identifiers.  Key, name and identifiers of what is stored decide        *)
(* whether that is a place already there, a new one, or unclear.  A        *)
(* request that found nothing inserts its place and commits later; in      *)
(* between, threads and a second process serve others, and only the        *)
(* canonical key is unique in the database.                                *)
(***************************************************************************)
EXTENDS Naturals, FiniteSets

CONSTANTS
  PlaceKeys,     \* canonical keys
  PlaceTitles,   \* names
  Identifiers,   \* durable identifiers, as they are written
  SchemeOf,      \* the key of each in a place's identifiers
  ValueOf,       \* its value without regard to case
  Normal,        \* a value without the end that URLs may differ in
  MaxAnswers,    \* bound: claims that are remembered
  MaxCreating,   \* bound: requests that create a place at one time
  MaxFilled      \* bound: keys ensured before all identifiers are known

ASSUME PlaceNamesAssumption ==
  /\ DOMAIN SchemeOf = Identifiers /\ DOMAIN ValueOf = Identifiers
  /\ DOMAIN Normal = {ValueOf[i] : i \in Identifiers}
  /\ MaxAnswers \in Nat /\ MaxCreating \in Nat /\ MaxFilled \in Nat
  /\ IsFiniteSet(Identifiers)

VARIABLES
  places,     \* the rows: a place is known by its canonical key
  creating,   \* requests that have checked their place and not committed it
  together,   \* history: keys of requests that created places side by side
  filled,     \* history: keys ensured without an identifier or filled in
  answered    \* the identifiers claims named and which place they were given

plVars == <<places, creating, together, filled, answered>>

(* identifiers_json holds one identifier of a scheme.                      *)
IdentifierSets ==
  {ids \in SUBSET Identifiers :
     \A i, j \in ids : i # j => SchemeOf[i] # SchemeOf[j]}

PlaceRow == [key : PlaceKeys, title : PlaceTitles, ids : IdentifierSets]
Naming == {n \in PlaceRow : n.ids # {}}
Creation == [row : PlaceRow, claim : BOOLEAN]

PlaceOf(key) == CHOOSE p \in places : p.key = key
Placed == {p.key : p \in places}

(* _identifier_values: claims compare values, under whatever scheme.       *)
Values(ids) == {ValueOf[i] : i \in ids}
SharingValue(ids) == {p \in places : Values(p.ids) \cap Values(ids) # {}}

(* _identifier_pairs: the preflight of ensure_subject compares schemes and *)
(* normalised values.                                                      *)
Pairs(ids) == {<<SchemeOf[i], Normal[ValueOf[i]]>> : i \in ids}
SharingPair(ids) == {p \in places : Pairs(p.ids) \cap Pairs(ids) # {}}

-----------------------------------------------------------------------------
PlInit ==
  places = {} /\ creating = {} /\ together = {} /\ filled = {} /\ answered = {}

Answers(ids, key) ==
  /\ Cardinality(answered) < MaxAnswers
  /\ answered' = answered \cup {[named |-> ids, place |-> key]}

(* The key is known; the values of both must not be disjoint.              *)
NamedByKey(n) ==
  /\ n.key \in Placed
  /\ LET known == PlaceOf(n.key).ids
     IN  known # {} => Values(n.ids) \cap Values(known) # {}
  /\ Answers(n.ids, n.key)
  /\ UNCHANGED <<places, creating, together, filled>>

(* Or one place shares a value, whatever its key and name.                 *)
NamedByIdentifier(n) ==
  /\ n.key \notin Placed
  /\ \E p \in places : SharingValue(n.ids) = {p} /\ Answers(n.ids, p.key)
  /\ UNCHANGED <<places, creating, together, filled>>

NameById(p) ==
  Answers(p.ids, p.key) /\ p.ids # {} /\ UNCHANGED <<places, creating, together, filled>>

(* Mutant: identifiers are not looked for.                                 *)
PreflightByKey(n) == n.key \notin Placed

(* _identity_preflight lets a place that is not there through: none has    *)
(* one of its identifiers; a name that is taken is a warning.              *)
Preflight(n) == n.key \notin Placed /\ SharingPair(n.ids) = {}

(* A key that is ensured with few identifiers, and filled in later.        *)
Fills(key) == filled' = filled \cup {key} /\ Cardinality(filled') <= MaxFilled

(* The request has checked its place; others may be about to commit.       *)
Begin(n, claim) ==
  /\ Cardinality(creating) < MaxCreating /\ Preflight(n)
  /\ creating' = creating \cup {[row |-> n, claim |-> claim]}
  /\ together' = together \cup
       {{n.key, w.row.key} : w \in {v \in creating : v.row.key # n.key}}
  /\ IF n.ids = {} THEN Fills(n.key) ELSE UNCHANGED filled
  /\ UNCHANGED <<places, answered>>

(* A claim whose key, values and name nobody has creates its place.        *)
CreatePlace(n) ==
  /\ SharingValue(n.ids) = {} /\ \A p \in places : p.title # n.title
  /\ Begin(n, TRUE)

(* ensure_subject of a place that is not there.                            *)
EnsureNewPlace(n) == Begin(n, FALSE)

(* The row is inserted; a key that was taken meanwhile violates uq of type *)
(* and key, and that or anything else may fail the request.                *)
CommitPlace(w) ==
  /\ w.row.key \notin Placed
  /\ places' = places \cup {w.row}
  /\ creating' = creating \ {w}
  /\ IF w.claim THEN Answers(w.row.ids, w.row.key) ELSE UNCHANGED answered
  /\ UNCHANGED <<together, filled>>

FailPlace(w) ==
  /\ creating' = creating \ {w}
  /\ UNCHANGED <<places, together, filled, answered>>

(* ensure_subject of a place that is there: what it has no identifier for  *)
(* is filled in, without a look at other places.                           *)
FillPlace(n) ==
  /\ n.key \in Placed
  /\ LET p == PlaceOf(n.key)
         more == {i \in n.ids : \A j \in p.ids : SchemeOf[i] # SchemeOf[j]}
     IN  /\ more # {} /\ Fills(n.key)
         /\ places' = (places \ {p}) \cup {[p EXCEPT !.ids = @ \cup more]}
  /\ UNCHANGED <<creating, together, answered>>

PlNext ==
  \/ \E n \in Naming :
       NamedByKey(n) \/ NamedByIdentifier(n) \/ CreatePlace(n) \/ FillPlace(n)
  \/ \E n \in PlaceRow : EnsureNewPlace(n)
  \/ \E w \in creating : CommitPlace(w) \/ FailPlace(w)
  \/ \E p \in places : NameById(p)

PlSpec == PlInit /\ [][PlNext]_plVars

-----------------------------------------------------------------------------
PlTypeOK ==
  /\ places \subseteq PlaceRow
  /\ \A p, q \in places : p.key = q.key => p = q
  /\ creating \subseteq Creation /\ \A w \in creating : w.claim => w.row \in Naming
  /\ together \subseteq SUBSET PlaceKeys /\ filled \subseteq PlaceKeys
  /\ \A a \in answered : a.named \in IdentifierSets \ {{}} /\ a.place \in Placed

(* A claim is about a place that has one of the values it named, and no    *)
(* two places have an identifier in common that the preflight compares.    *)
(* The second is not so of places whose requests were under way side by    *)
(* side, each of which found the other's place not there; neither is of a  *)
(* place ensured without an identifier, which its key alone then names, or *)
(* filled in later, which nothing compares with other places.              *)
PlaceNamed ==
  /\ \A a \in answered :
       \/ a.place \in filled
       \/ Values(a.named) \cap Values(PlaceOf(a.place).ids) # {}
  /\ \A p, q \in places :
       \/ p = q \/ Pairs(p.ids) \cap Pairs(q.ids) = {}
       \/ {p.key, q.key} \in together \/ {p.key, q.key} \cap filled # {}
=============================================================================
