--------------------------- MODULE RecordsProofs ----------------------------
(* Proofs about PlaceNames, SourceManifest, Collections and Guidance: what *)
(* is kept of places, lists of pages, members and instructions, for any of *)
(* each and any number of requests.                                        *)
EXTENDS PlaceNames, SourceManifest, Collections, Guidance,
        SequenceTheorems, FiniteSetTheorems, WellFoundedInduction, TLAPS

(* A set of natural numbers that holds 0 and each successor holds all.     *)
LEMMA NatSet ==
  ASSUME NEW S, 0 \in S, \A n \in Nat : n \in S => n + 1 \in S
  PROVE  Nat \subseteq S
<1> SUFFICES ASSUME Nat \ S # {} PROVE FALSE
  OBVIOUS
<1>1. PICK m \in Nat \ S : \A n \in Nat \ S : <<n, m>> \notin OpToRel(<, Nat)
  BY NatLessThanWellFounded, WFMin
<1>2. m - 1 \in Nat /\ (m - 1) + 1 = m
  <2>1. m \in Nat /\ m # 0
    OBVIOUS
  <2> QED BY <2>1
<1>3. m - 1 \in Nat \ S
  BY <1>2
<1>4. <<m - 1, m>> \in Nat \X Nat /\ m - 1 < m
  BY <1>2
<1> QED BY <1>1, <1>3, <1>4 DEF OpToRel

LEMMA UpTo ==
  ASSUME NEW n \in Nat
  PROVE  IsFiniteSet(1..n) /\ Cardinality(1..n) = n
BY FS_Interval

(* A set of positions has a last one.                                      *)
LEMMA LastPosition ==
  ASSUME NEW n \in Nat, NEW I \in SUBSET (1..n), I # {}
  PROVE  Max(I) \in I /\ \A y \in I : y <= Max(I)
<1> DEFINE S == {k \in Nat : \A J \in SUBSET (1..k) : J # {} => \E x \in J : \A y \in J : x >= y}
<1>1. 0 \in S
  <2>1. 1..0 = {}
    OBVIOUS
  <2> QED BY <2>1
<1>2. ASSUME NEW k \in Nat, k \in S PROVE k + 1 \in S
  <2> SUFFICES ASSUME NEW J \in SUBSET (1..k + 1), J # {}
               PROVE  \E x \in J : \A y \in J : x >= y
    OBVIOUS
  <2>1. CASE k + 1 \in J
    BY <2>1
  <2>2. CASE k + 1 \notin J
    <3>1. J \in SUBSET (1..k)
      BY <2>2
    <3> QED BY <1>2, <3>1
  <2> QED BY <2>1, <2>2
<1> HIDE DEF S
<1>3. n \in S
  BY <1>1, <1>2, NatSet
<1>4. \E x \in I : \A y \in I : x >= y
  BY <1>3 DEF S
<1>5. Max(I) \in I /\ \A y \in I : Max(I) >= y
  BY <1>4 DEF Max
<1> QED BY <1>5

LEMMA OneIsLast ==
  ASSUME NEW n \in Nat, NEW I \in SUBSET (1..n), NEW x \in I, \A y \in I : y <= x
  PROVE  Max(I) = x
<1>1. Max(I) \in I /\ x <= Max(I)
  BY LastPosition
<1>2. PICK m \in 1..n : m = Max(I)
  BY <1>1
<1>3. m <= x /\ x <= m /\ x \in 1..n
  BY <1>1, <1>2
<1>4. m = x
  BY <1>3
<1> QED BY <1>2, <1>4

(* A sequence without one of its elements.                                 *)
LEMMA Without ==
  ASSUME NEW S, NEW s \in Seq(S), NEW i \in 1..Len(s)
  PROVE  /\ RemoveAt(s, i) \in Seq(S) /\ Len(RemoveAt(s, i)) = Len(s) - 1
         /\ \A j \in 1..Len(s) - 1 :
              RemoveAt(s, i)[j] = s[IF j < i THEN j ELSE j + 1]
<1> DEFINE a == SubSeq(s, 1, i - 1)
           b == SubSeq(s, i + 1, Len(s))
<1>1. Len(s) \in Nat /\ i \in Nat /\ i >= 1 /\ i <= Len(s)
  BY LenProperties
<1>2. a \in Seq(S) /\ Len(a) = i - 1 /\ \A j \in 1..i - 1 : a[j] = s[j]
  BY <1>1, SubSeqProperties
<1>3. b \in Seq(S) /\ Len(b) = Len(s) - i /\ \A j \in 1..Len(s) - i : b[j] = s[j + i]
  BY <1>1, SubSeqProperties
<1> HIDE DEF a, b
<1>4. /\ a \o b \in Seq(S) /\ Len(a \o b) = Len(s) - 1
      /\ \A j \in 1..Len(s) - 1 : (a \o b)[j] = IF j < i THEN a[j] ELSE b[j - (i - 1)]
  <2>1. /\ a \o b \in Seq(S) /\ Len(a \o b) = Len(a) + Len(b)
        /\ \A j \in 1..Len(a) + Len(b) : (a \o b)[j] = IF j <= Len(a) THEN a[j] ELSE b[j - Len(a)]
    BY <1>2, <1>3, ConcatProperties
  <2>2. Len(a) + Len(b) = Len(s) - 1
    BY <1>1, <1>2, <1>3
  <2>3. \A j \in 1..Len(s) - 1 : j < i <=> j <= Len(a)
    BY <1>1, <1>2
  <2> QED BY <1>2, <2>1, <2>2, <2>3
<1>5. RemoveAt(s, i) = a \o b
  BY DEF RemoveAt, a, b
<1>6. ASSUME NEW j \in 1..Len(s) - 1
      PROVE  RemoveAt(s, i)[j] = s[IF j < i THEN j ELSE j + 1]
  <2>1. CASE j < i
    <3>1. j \in 1..i - 1
      BY <1>1, <2>1
    <3> QED BY <1>2, <1>4, <1>5, <2>1, <3>1
  <2>2. CASE ~(j < i)
    <3>1. j - (i - 1) \in 1..Len(s) - i /\ (j - (i - 1)) + i = j + 1
      BY <1>1, <2>2
    <3> QED BY <1>3, <1>4, <1>5, <2>2, <3>1
  <2> QED BY <2>1, <2>2
<1> QED BY <1>4, <1>5, <1>6

(* As many values as arguments: no two arguments have the same value.      *)
LEMMA CountedApart ==
  ASSUME NEW n \in Nat, NEW f, DOMAIN f = 1..n,
         Cardinality({f[i] : i \in 1..n}) = n
  PROVE  \A i, j \in 1..n : f[i] = f[j] => i = j
<1> DEFINE T == {f[i] : i \in 1..n}
           g == [i \in 1..n |-> f[i]]
<1>1. g \in Surjection(1..n, T)
  BY DEF Surjection
<1>2. IsFiniteSet(1..n) /\ Cardinality(1..n) = n
  BY UpTo
<1> HIDE DEF T
<1>3. g \in Injection(1..n, T)
  <2>1. Cardinality(1..n) = Cardinality(T)
    BY <1>2 DEF T
  <2> QED BY <1>1, <1>2, <2>1, FS_SurjSameCardinalityImpliesInj
<1> QED BY <1>3 DEF Injection, IsInjective


(* A function on 1..n is a sequence of that length.                        *)
LEMMA FunctionIsSeq ==
  ASSUME NEW S, NEW n \in Nat, NEW f \in [1..n -> S]
  PROVE  f \in Seq(S) /\ Len(f) = n /\ DOMAIN f = 1..n
<1>1. f \in Seq(S)
  BY SeqDef
<1>2. Len(f) \in Nat /\ DOMAIN f = 1..Len(f)
  BY <1>1, LenProperties
<1> QED BY <1>1, <1>2

-----------------------------------------------------------------------------
(* PlaceNames: which place a claim is about.                               *)

(* A canonical key picks its row.                                          *)
LEMMA KeyPicks ==
  ASSUME NEW rows, \A p, q \in rows : p.key = q.key => p = q, NEW p \in rows
  PROVE  (CHOOSE q \in rows : q.key = p.key) = p
  OBVIOUS

(* PlaceOf answers with the row of a placed key.                           *)
LEMMA PlaceOfKey ==
  ASSUME PlTypeOK
  PROVE  /\ \A p \in places : PlaceOf(p.key) = p
         /\ \A key \in Placed : PlaceOf(key) \in places /\ PlaceOf(key).key = key
<1>1. ASSUME NEW p \in places PROVE PlaceOf(p.key) = p
  <2>1. \A q, r \in places : q.key = r.key => q = r
    BY DEF PlTypeOK
  <2> QED BY <2>1, KeyPicks DEF PlaceOf
<1>2. ASSUME NEW key \in Placed
      PROVE  PlaceOf(key) \in places /\ PlaceOf(key).key = key
  <2>1. PICK p \in places : key = p.key
    BY DEF Placed
  <2> QED BY <1>1, <2>1
<1> QED BY <1>1, <1>2

(* A place that is added under a key of its own leaves the others as they  *)
(* are, and what their keys pick.                                          *)
LEMMA PlaceAdded ==
  ASSUME PlTypeOK, NEW n \in PlaceRow, n.key \notin Placed,
         places' = places \cup {n}
  PROVE  /\ places' \subseteq PlaceRow
         /\ \A p, q \in places' : p.key = q.key => p = q
         /\ Placed' = Placed \cup {n.key}
         /\ PlaceOf(n.key)' = n
         /\ \A key \in Placed : PlaceOf(key)' = PlaceOf(key)
<1>1. places' \subseteq PlaceRow
  BY DEF PlTypeOK
<1>2. \A p, q \in places' : p.key = q.key => p = q
  BY DEF PlTypeOK, Placed
<1>3. Placed' = Placed \cup {n.key}
  BY DEF Placed
<1>4. ASSUME NEW p \in places' PROVE (CHOOSE q \in places' : q.key = p.key) = p
  BY <1>2, KeyPicks
<1>5. PlaceOf(n.key)' = n
  BY <1>4 DEF PlaceOf
<1>6. ASSUME NEW key \in Placed PROVE PlaceOf(key)' = PlaceOf(key)
  <2>1. PlaceOf(key) \in places' /\ PlaceOf(key).key = key
    BY <1>6, PlaceOfKey
  <2>2. (CHOOSE q \in places' : q.key = PlaceOf(key).key) = PlaceOf(key)
    BY <1>4, <2>1
  <2>3. (CHOOSE q \in places' : q.key = key) = PlaceOf(key)
    BY <2>1, <2>2
  <2>4. PlaceOf(key)' = (CHOOSE q \in places' : q.key = key)
    BY DEF PlaceOf
  <2> QED BY <2>3, <2>4
<1> QED BY <1>1, <1>2, <1>3, <1>5, <1>6

(* An answer that names a placed key.                                      *)
LEMMA AnswerTyped ==
  ASSUME PlTypeOK, NEW ids \in IdentifierSets \ {{}}, NEW key \in Placed',
         Placed \subseteq Placed', Answers(ids, key)
  PROVE  \A a \in answered' : a.named \in IdentifierSets \ {{}} /\ a.place \in Placed'
BY DEF Answers, PlTypeOK

(* What a fill leaves: the row under its key, with identifiers of one      *)
(* scheme each, and the other rows.                                        *)
LEMMA FillRows ==
  ASSUME PlTypeOK, NEW n \in Naming, FillPlace(n)
  PROVE  \E p \in places, q \in PlaceRow :
           p.key = n.key /\ q.key = n.key /\ places' = (places \ {p}) \cup {q}
<1> DEFINE p == PlaceOf(n.key)
           more == {i \in n.ids : \A j \in p.ids : SchemeOf[i] # SchemeOf[j]}
           q == [p EXCEPT !.ids = @ \cup more]
<1>1. p \in places /\ p.key = n.key /\ p \in PlaceRow
  BY PlaceOfKey DEF FillPlace, PlTypeOK
<1>2. n.ids \in IdentifierSets /\ p.ids \in IdentifierSets
  BY <1>1 DEF Naming, PlaceRow
<1>3. p.ids \cup more \in IdentifierSets
  BY <1>2 DEF IdentifierSets
<1>4. q \in PlaceRow /\ q.key = p.key
  BY <1>1, <1>3 DEF PlaceRow
<1>5. places' = (places \ {p}) \cup {q}
  BY DEF FillPlace
<1> HIDE DEF p, q
<1> QED BY <1>1, <1>4, <1>5

(* The rows after a fill: those before it, but for the one whose key is    *)
(* remembered as filled.                                                   *)
LEMMA FillTyped ==
  ASSUME PlTypeOK, NEW n \in Naming, FillPlace(n)
  PROVE  /\ PlTypeOK' /\ Placed' = Placed
         /\ \A x \in places' : x \in places \/ x.key = n.key
         /\ filled' = filled \cup {n.key}
         /\ UNCHANGED <<creating, together, answered>>
<1>1. PICK p \in places, q \in PlaceRow :
        p.key = n.key /\ q.key = n.key /\ places' = (places \ {p}) \cup {q}
  BY FillRows
<1>2. Placed' = Placed
  BY <1>1 DEF Placed
<1>3. filled' = filled \cup {n.key} /\ UNCHANGED <<creating, together, answered>>
  BY DEF FillPlace, Fills
<1>4. places' \subseteq PlaceRow /\ \A x, y \in places' : x.key = y.key => x = y
  BY <1>1 DEF PlTypeOK
<1>5. n.key \in PlaceKeys
  BY DEF Naming, PlaceRow
<1> QED BY <1>1, <1>2, <1>3, <1>4, <1>5 DEF PlTypeOK

(* The state a request leaves that has checked its place.                  *)
LEMMA BeginTyped ==
  ASSUME PlTypeOK, NEW n \in PlaceRow, NEW claim \in BOOLEAN, claim => n \in Naming,
         Begin(n, claim)
  PROVE  /\ PlTypeOK' /\ UNCHANGED <<places, answered>>
         /\ creating' = creating \cup {[row |-> n, claim |-> claim]}
         /\ filled \subseteq filled' /\ (n.ids = {} => n.key \in filled')
<1> DEFINE w == [row |-> n, claim |-> claim]
<1>1. n.key \in PlaceKeys
  BY DEF PlaceRow
<1>2. UNCHANGED <<places, answered>> /\ creating' = creating \cup {w}
  BY DEF Begin
<1>3. /\ filled \subseteq filled' /\ filled' \subseteq filled \cup {n.key}
      /\ n.ids = {} => n.key \in filled'
  BY DEF Begin, Fills
<1>4. w \in Creation /\ w.row = n /\ w.claim = claim
  BY DEF Creation
<1>5. \A v \in creating : v.row.key \in PlaceKeys
  BY DEF PlTypeOK, Creation, PlaceRow
<1>6. together' \subseteq SUBSET PlaceKeys
  BY <1>1, <1>5 DEF Begin, PlTypeOK
<1>7. Placed' = Placed
  BY <1>2 DEF Placed
<1> HIDE DEF w
<1>8. creating' \subseteq Creation /\ \A v \in creating' : v.claim => v.row \in Naming
  BY <1>2, <1>4 DEF PlTypeOK
<1> QED BY <1>1, <1>2, <1>3, <1>6, <1>7, <1>8 DEF PlTypeOK, w

LEMMA CommitTyped ==
  ASSUME PlTypeOK, NEW w \in creating, CommitPlace(w)
  PROVE  PlTypeOK'
<1>1. w.row \in PlaceRow /\ w.row.key \notin Placed /\ places' = places \cup {w.row}
  BY DEF CommitPlace, PlTypeOK, Creation
<1>2. /\ places' \subseteq PlaceRow
      /\ \A p, q \in places' : p.key = q.key => p = q
      /\ Placed' = Placed \cup {w.row.key}
  BY <1>1, PlaceAdded
<1>3. \A a \in answered' : a.named \in IdentifierSets \ {{}} /\ a.place \in Placed'
  <2>1. CASE w.claim
    <3>1. w.row.ids \in IdentifierSets \ {{}}
      BY <2>1 DEF PlTypeOK, Naming, PlaceRow
    <3> QED BY <1>2, <2>1, <3>1, AnswerTyped DEF CommitPlace
  <2>2. CASE ~w.claim
    BY <1>2, <2>2 DEF CommitPlace, PlTypeOK
  <2> QED BY <2>1, <2>2
<1>4. creating' \subseteq creating /\ UNCHANGED <<together, filled>>
  BY DEF CommitPlace
<1> QED BY <1>2, <1>3, <1>4 DEF PlTypeOK

-----------------------------------------------------------------------------
(* Whoever has no identifier is remembered as such.                        *)
Identified ==
  /\ \A p \in places : p.ids # {} \/ p.key \in filled
  /\ \A w \in creating : w.row.ids # {} \/ w.row.key \in filled

(* Two places may share an identifier only if one was filled in, or their  *)
(* requests were under way side by side.                                   *)
Apart(p, q) ==
  \/ Pairs(p.ids) \cap Pairs(q.ids) = {}
  \/ {p.key, q.key} \in together \/ {p.key, q.key} \cap filled # {}

(* A request that has checked its place shares identifiers with no other   *)
(* place, but with those whose requests were under way then.               *)
CheckedApart ==
  /\ \A w \in creating, p \in places : w.row.key # p.key => Apart(w.row, p)
  /\ \A v, w \in creating : v.row.key # w.row.key => {v.row.key, w.row.key} \in together

PlacesApart == \A p, q \in places : p # q => Apart(p, q)

AnswersNamed ==
  \A a \in answered :
    \/ a.place \in filled
    \/ Values(a.named) \cap Values(PlaceOf(a.place).ids) # {}

(* What is proved together.                                                *)
PlInv == PlTypeOK /\ Identified /\ CheckedApart /\ PlacesApart /\ AnswersNamed

LEMMA InvNamed == PlInv => PlaceNamed
  BY DEF PlInv, PlacesApart, Apart, AnswersNamed, PlaceNamed

LEMMA InitPlaces == PlInit => PlInv
  BY DEF PlInit, PlInv, PlTypeOK, Identified, CheckedApart, PlacesApart, AnswersNamed

(* Apart is of the two, and stays as keys are remembered.                  *)
LEMMA ApartStays ==
  ASSUME NEW p, NEW q, Apart(p, q), together \subseteq together', filled \subseteq filled'
  PROVE  Apart(p, q)' /\ Apart(q, p)'
<1>1. {q.key, p.key} = {p.key, q.key}
  OBVIOUS
<1> QED BY <1>1 DEF Apart

(* A claim that is answered with a place it names.                         *)
LEMMA AnswerNamed ==
  ASSUME PlInv, NEW ids \in IdentifierSets \ {{}}, NEW key \in Placed,
         Answers(ids, key), UNCHANGED <<places, creating, together, filled>>,
         key \in filled \/ Values(ids) \cap Values(PlaceOf(key).ids) # {}
  PROVE  PlInv'
<1>1. \A k : PlaceOf(k)' = PlaceOf(k)
  BY DEF PlaceOf
<1>2. AnswersNamed'
  BY <1>1 DEF PlInv, AnswersNamed, Answers
<1>3. Placed' = Placed
  BY DEF Placed
<1>4. PlTypeOK'
  BY <1>3, AnswerTyped DEF PlInv, PlTypeOK
<1>5. Identified' /\ CheckedApart' /\ PlacesApart'
  BY DEF PlInv, Identified, CheckedApart, PlacesApart, Apart
<1> QED BY <1>2, <1>4, <1>5 DEF PlInv

(* Where there is an identifier there is a value.                          *)
LEMMA ValueThere == ASSUME NEW ids, ids # {} PROVE Values(ids) \cap Values(ids) # {}
<1>1. PICK i : i \in ids
  OBVIOUS
<1>2. ValueOf[i] \in Values(ids)
  BY <1>1 DEF Values
<1> QED BY <1>2

LEMMA BeginKeeps ==
  ASSUME PlInv, NEW n \in PlaceRow, NEW claim \in BOOLEAN, claim => n \in Naming,
         Begin(n, claim)
  PROVE  PlInv'
<1> DEFINE w == [row |-> n, claim |-> claim]
<1>1. /\ PlTypeOK' /\ UNCHANGED <<places, answered>> /\ creating' = creating \cup {w}
      /\ filled \subseteq filled' /\ (n.ids = {} => n.key \in filled')
  BY BeginTyped DEF PlInv
<1>2. together \subseteq together'
  BY DEF Begin
<1>3. w.row = n
  OBVIOUS
<1> HIDE DEF w
<1>4. Identified'
  BY <1>1, <1>3 DEF PlInv, Identified
<1>5. ASSUME NEW p \in places PROVE Apart(n, p)'
  <2>1. Pairs(p.ids) \cap Pairs(n.ids) = {}
    BY DEF Begin, Preflight, SharingPair
  <2> QED BY <2>1 DEF Apart
<1>6. ASSUME NEW v \in creating, v.row.key # n.key
      PROVE  {n.key, v.row.key} \in together' /\ {v.row.key, n.key} \in together'
  <2>1. {n.key, v.row.key} \in together'
    BY <1>6 DEF Begin
  <2>2. {n.key, v.row.key} = {v.row.key, n.key}
    OBVIOUS
  <2> QED BY <2>1, <2>2
<1>7. ASSUME NEW v \in creating', NEW p \in places', v.row.key # p.key PROVE Apart(v.row, p)'
  <2>1. CASE v = w
    BY <1>1, <1>3, <1>5, <2>1
  <2>2. CASE v \in creating
    BY <1>1, <1>2, <1>7, <2>2, ApartStays DEF PlInv, CheckedApart
  <2> QED BY <1>1, <2>1, <2>2
<1>8. ASSUME NEW u \in creating', NEW v \in creating', u.row.key # v.row.key
      PROVE  {u.row.key, v.row.key} \in together'
  <2>1. CASE u \in creating /\ v \in creating
    BY <1>2, <1>8, <2>1 DEF PlInv, CheckedApart
  <2>2. CASE u = w /\ v \in creating
    BY <1>3, <1>6, <1>8, <2>2
  <2>3. CASE u \in creating /\ v = w
    BY <1>3, <1>6, <1>8, <2>3
  <2>4. CASE u = w /\ v = w
    BY <1>8, <2>4
  <2> QED BY <1>1, <2>1, <2>2, <2>3, <2>4
<1>9. CheckedApart'
  BY <1>7, <1>8 DEF CheckedApart
<1>10. PlacesApart'
  BY <1>1, <1>2, ApartStays DEF PlInv, PlacesApart
<1>11. \A k : PlaceOf(k)' = PlaceOf(k)
  BY <1>1 DEF PlaceOf
<1>12. AnswersNamed'
  BY <1>1, <1>11 DEF PlInv, AnswersNamed
<1> QED BY <1>1, <1>4, <1>9, <1>10, <1>12 DEF PlInv

LEMMA CommitKeeps ==
  ASSUME PlInv, NEW w \in creating, CommitPlace(w)
  PROVE  PlInv'
<1> DEFINE n == w.row
<1>1. n \in PlaceRow /\ n.key \notin Placed /\ places' = places \cup {n}
  BY DEF CommitPlace, PlInv, PlTypeOK, Creation
<1>2. creating' \subseteq creating /\ UNCHANGED <<together, filled>>
  BY DEF CommitPlace
<1> HIDE DEF n
<1>3. PlTypeOK'
  BY CommitTyped DEF PlInv
<1>4. Identified'
  BY <1>1, <1>2 DEF PlInv, Identified, n
<1>5. ASSUME NEW p \in places PROVE Apart(n, p)' /\ Apart(p, n)'
  <2>1. n.key # p.key
    BY <1>1 DEF Placed
  <2>2. Apart(n, p)
    BY <2>1 DEF PlInv, CheckedApart, n
  <2> QED BY <1>2, <2>2, ApartStays
<1>6. PlacesApart'
  BY <1>1, <1>2, <1>5, ApartStays DEF PlInv, PlacesApart
<1>7. ASSUME NEW v \in creating', NEW p \in places', v.row.key # p.key PROVE Apart(v.row, p)'
  <2>1. CASE p \in places
    BY <1>2, <1>7, <2>1, ApartStays DEF PlInv, CheckedApart
  <2>2. CASE p = n
    BY <1>2, <1>7, <2>2 DEF PlInv, CheckedApart, Apart, n
  <2> QED BY <1>1, <2>1, <2>2
<1>8. CheckedApart'
  BY <1>2, <1>7 DEF PlInv, CheckedApart
<1>9. ASSUME NEW a \in answered'
      PROVE  a.place \in filled' \/ Values(a.named) \cap Values(PlaceOf(a.place)'.ids) # {}
  <2>1. CASE a \in answered
    <3>1. a.place \in Placed
      BY <2>1 DEF PlInv, PlTypeOK
    <3>2. PlaceOf(a.place)' = PlaceOf(a.place)
      BY <1>1, <3>1, PlaceAdded DEF PlInv
    <3> QED BY <1>2, <2>1, <3>2 DEF PlInv, AnswersNamed
  <2>2. CASE a = [named |-> n.ids, place |-> n.key] /\ w.claim
    <3>1. PlaceOf(n.key)' = n
      BY <1>1, PlaceAdded DEF PlInv
    <3>2. n.ids # {}
      BY <2>2 DEF PlInv, PlTypeOK, Naming, n
    <3>3. a.named = n.ids /\ a.place = n.key
      BY <2>2
    <3> QED BY <3>1, <3>2, <3>3, ValueThere
  <2>3. a \in answered \/ (a = [named |-> n.ids, place |-> n.key] /\ w.claim)
    BY <1>9 DEF CommitPlace, Answers, n
  <2> QED BY <2>1, <2>2, <2>3
<1>10. AnswersNamed'
  BY <1>9 DEF AnswersNamed
<1> QED BY <1>3, <1>4, <1>6, <1>8, <1>10 DEF PlInv

LEMMA FillKeeps ==
  ASSUME PlInv, NEW n \in Naming, FillPlace(n)
  PROVE  PlInv'
<1>1. /\ PlTypeOK' /\ Placed' = Placed
      /\ \A x \in places' : x \in places \/ x.key = n.key
      /\ filled' = filled \cup {n.key}
      /\ UNCHANGED <<creating, together, answered>>
  BY FillTyped DEF PlInv
<1>2. Identified'
  BY <1>1 DEF PlInv, Identified
<1>3. CheckedApart'
  BY <1>1 DEF PlInv, CheckedApart, Apart
<1>4. PlacesApart'
  BY <1>1 DEF PlInv, PlacesApart, Apart
<1>5. ASSUME NEW a \in answered, a.place # n.key PROVE PlaceOf(a.place)' = PlaceOf(a.place)
  <2>1. a.place \in Placed /\ a.place \in Placed'
    BY <1>1 DEF PlInv, PlTypeOK
  <2>2. PlaceOf(a.place) \in places /\ PlaceOf(a.place).key = a.place
    BY <2>1, PlaceOfKey DEF PlInv
  <2>3. PICK x \in places' : x.key = a.place
    BY <2>1 DEF Placed
  <2>4. x = PlaceOf(a.place)
    BY <1>1, <1>5, <2>2, <2>3 DEF PlInv, PlTypeOK
  <2>5. \A p, q \in places' : p.key = q.key => p = q
    BY <1>1 DEF PlTypeOK
  <2>6. (CHOOSE q \in places' : q.key = x.key) = x
    BY <2>5, KeyPicks
  <2> QED BY <2>3, <2>4, <2>6 DEF PlaceOf
<1>6. AnswersNamed'
  BY <1>1, <1>5 DEF PlInv, AnswersNamed
<1> QED BY <1>1, <1>2, <1>3, <1>4, <1>6 DEF PlInv

(* A request that leaves, or a step that is nobody's.                      *)
LEMMA LeaveKeeps ==
  ASSUME PlInv, creating' \subseteq creating,
         UNCHANGED <<places, together, filled, answered>>
  PROVE  PlInv'
<1>1. Placed' = Placed /\ \A k : PlaceOf(k)' = PlaceOf(k)
  BY DEF Placed, PlaceOf
<1>2. PlTypeOK'
  BY <1>1 DEF PlInv, PlTypeOK
<1>3. Identified'
  BY DEF PlInv, Identified
<1>4. CheckedApart' /\ PlacesApart'
  BY DEF PlInv, CheckedApart, PlacesApart, Apart
<1>5. AnswersNamed'
  BY <1>1 DEF PlInv, AnswersNamed
<1> QED BY <1>2, <1>3, <1>4, <1>5 DEF PlInv

LEMMA NextPlaces ==
  ASSUME PlInv, [PlNext]_plVars
  PROVE  PlInv'
<1>1. ASSUME NEW n \in Naming, NamedByKey(n) PROVE PlInv'
  <2>1. PlaceOf(n.key) \in places /\ PlaceOf(n.key).key = n.key /\ n.key \in Placed
    BY <1>1, PlaceOfKey DEF PlInv, NamedByKey
  <2>2. n.key \in filled \/ Values(n.ids) \cap Values(PlaceOf(n.key).ids) # {}
    BY <1>1, <2>1 DEF PlInv, NamedByKey, Identified
  <2>3. n.ids \in IdentifierSets \ {{}}
    BY DEF Naming, PlaceRow
  <2> QED BY <1>1, <2>1, <2>2, <2>3, AnswerNamed DEF NamedByKey
<1>2. ASSUME NEW n \in Naming, NamedByIdentifier(n) PROVE PlInv'
  <2>1. PICK p \in places : SharingValue(n.ids) = {p} /\ Answers(n.ids, p.key)
    BY <1>2 DEF NamedByIdentifier
  <2>2. Values(p.ids) \cap Values(n.ids) # {} /\ PlaceOf(p.key) = p /\ p.key \in Placed
    BY <2>1, PlaceOfKey DEF PlInv, SharingValue, Placed
  <2>3. n.ids \in IdentifierSets \ {{}}
    BY DEF Naming, PlaceRow
  <2> QED BY <1>2, <2>1, <2>2, <2>3, AnswerNamed DEF NamedByIdentifier
<1>3. ASSUME NEW n \in Naming, CreatePlace(n) PROVE PlInv'
  BY <1>3, BeginKeeps DEF CreatePlace, Naming
<1>4. ASSUME NEW n \in PlaceRow, EnsureNewPlace(n) PROVE PlInv'
  BY <1>4, BeginKeeps DEF EnsureNewPlace
<1>5. ASSUME NEW p \in places, NameById(p) PROVE PlInv'
  <2>1. p.ids \in IdentifierSets \ {{}} /\ PlaceOf(p.key) = p /\ p.key \in Placed
    BY <1>5, PlaceOfKey DEF PlInv, NameById, PlTypeOK, PlaceRow, Placed
  <2>2. Values(p.ids) \cap Values(PlaceOf(p.key).ids) # {}
    BY <2>1, ValueThere
  <2> QED BY <1>5, <2>1, <2>2, AnswerNamed DEF NameById
<1>6. ASSUME NEW w \in creating, FailPlace(w) PROVE PlInv'
  BY <1>6, LeaveKeeps DEF FailPlace
<1>7. CASE UNCHANGED plVars
  BY <1>7, LeaveKeeps DEF plVars
<1> QED BY <1>1, <1>2, <1>3, <1>4, <1>5, <1>6, <1>7, FillKeeps, CommitKeeps DEF PlNext

LEMMA PlacesInvariant == PlSpec => []PlInv
<1>1. PlInv /\ [PlNext]_plVars => PlInv'
  BY NextPlaces
<1> QED BY InitPlaces, <1>1, PTL DEF PlSpec

(* Stored places are well-typed, one under each canonical key, and what a  *)
(* claim was given is a place (app/services/location.py).                  *)
THEOREM PlaceTypes == PlSpec => []PlTypeOK
  BY PlacesInvariant, PTL DEF PlInv

(* A claim is about a place with a value it named, and two places share no *)
(* identifier, however requests that create places overlap, but for those  *)
(* whose requests were under way side by side and those ensured without an *)
(* identifier or filled in (_resolve_or_create_place, _identity_preflight).*)
THEOREM PlacesNamed == PlSpec => []PlaceNamed
  BY PlacesInvariant, InvNamed, PTL

-----------------------------------------------------------------------------
(* SourceManifest: which pages a manifest vouches for.                     *)



(* A manifest with other pages.                                            *)
LEMMA PagesChanged ==
  ASSUME NEW m \in Manifest, NEW n \in 1..Cardinality(Urls), NEW f \in [1..n -> Page]
  PROVE  /\ [m EXCEPT !.pages = f] \in Manifest
         /\ Len([m EXCEPT !.pages = f].pages) \in 1..Cardinality(Urls)
<1>1. n \in Nat
  BY FS_CardinalityType, SourceManifestAssumption
<1>2. f \in Seq(Page) /\ Len(f) = n
  BY <1>1, FunctionIsSeq
<1> QED BY <1>2 DEF Manifest

LEMMA ManifestInit == SmInit => SmTypeOK
<1> SUFFICES ASSUME SmInit PROVE SmTypeOK
  OBVIOUS
<1>1. PICK n \in 1..Cardinality(Urls) :
        \E order \in Orders(Urls, n), p \in Orders(1..n, n) :
          manifest = Shuffled(Found(order), p)
  BY DEF SmInit
<1>2. PICK order \in [1..n -> Urls], p \in [1..n -> 1..n] :
        manifest = Shuffled(Found(order), p)
  BY <1>1 DEF Orders
<1>3. n \in Nat /\ 1 \in 1..n
  BY FS_CardinalityType, SourceManifestAssumption
<1>4. Len(order) = n
  BY <1>3, FunctionIsSeq
<1> DEFINE f == [i \in 1..n |->
                   [url |-> order[i], refs |-> Members, sequence |-> i,
                    next |-> IF i < n THEN order[i + 1] ELSE NoUrl, terminal |-> i = n]]
           g == [i \in 1..n |-> f[p[i]]]
<1>5. f \in [1..n -> Page]
  <2> SUFFICES ASSUME NEW i \in 1..n PROVE f[i] \in Page
    OBVIOUS
  <2>1. i < n => i + 1 \in 1..n
    BY <1>3
  <2>2. i \in 0..Cardinality(Urls)
    BY FS_CardinalityType, SourceManifestAssumption
  <2> QED BY <2>1, <2>2 DEF Page
<1>6. Found(order) =
        [coverage |-> "complete", method |-> "pagination", declared |-> n,
         directory |-> order[1], reconciled |-> Urls, unresolved |-> {}, pages |-> f]
  BY <1>4 DEF Found
<1> HIDE DEF f
<1>7. g \in [1..n -> Page]
  BY <1>5
<1>8. Found(order) \in Manifest /\ Found(order).pages = f /\ DOMAIN f = 1..n
  <2>1. f \in Seq(Page)
    BY <1>3, <1>5, FunctionIsSeq
  <2> QED BY <1>3, <1>5, <1>6, <2>1 DEF Manifest
<1>9. manifest = [Found(order) EXCEPT !.pages = g]
  BY <1>2, <1>8 DEF Shuffled, Manifest
<1> HIDE DEF g
<1>10. manifest \in Manifest /\ Len(manifest.pages) \in 1..Cardinality(Urls)
  BY <1>7, <1>8, <1>9, PagesChanged
<1>11. mistakes \in 0..MaxMistakes
  BY SourceManifestAssumption DEF SmInit
<1> QED BY <1>10, <1>11 DEF SmTypeOK

LEMMA MistakeStep == SmTypeOK /\ [SmNext]_smVars => SmTypeOK'
<1> SUFFICES ASSUME SmTypeOK, [SmNext]_smVars PROVE SmTypeOK'
  OBVIOUS
<1>1. CASE UNCHANGED smVars
  BY <1>1 DEF smVars, SmTypeOK
<1>2. CASE Mistake
  <2> DEFINE n == Len(manifest.pages)
             pages == manifest.pages
             Good(m) == m \in Manifest /\ Len(m.pages) \in 1..Cardinality(Urls)
  <2>1. Good(manifest) /\ mistakes \in 0..MaxMistakes /\ pages \in Seq(Page)
    BY DEF SmTypeOK, Manifest
  <2>2. n \in 1..Cardinality(Urls) /\ n \in Nat /\ pages \in [1..n -> Page] /\ DOMAIN pages = 1..n
    BY <2>1, LenProperties
  <2>3. \A k \in 1..Cardinality(Urls) : \A f \in [1..k -> Page] : Good([manifest EXCEPT !.pages = f])
    BY <2>1, PagesChanged
  <2>4. ASSUME NEW i \in 1..n, NEW e \in Page
        PROVE  Good([manifest EXCEPT !.pages = [pages EXCEPT ![i] = e]])
    BY <2>2, <2>3
  <2>5. Good([manifest EXCEPT !.coverage = "partial"])
    BY <2>1 DEF Manifest
  <2>6. Good([manifest EXCEPT !.method = "other"])
    BY <2>1 DEF Manifest
  <2>7. \A v \in 1..Cardinality(Urls) : Good([manifest EXCEPT !.declared = v])
    BY <2>1 DEF Manifest
  <2>8. \A v \in Urls \cup {NoUrl} : Good([manifest EXCEPT !.directory = v])
    BY <2>1 DEF Manifest
  <2>9. \A v \in Urls : Good([manifest EXCEPT !.reconciled = @ \ {v}])
    BY <2>1 DEF Manifest
  <2>10. \A v \in Urls : Good([manifest EXCEPT !.unresolved = @ \cup {v}])
    BY <2>1 DEF Manifest
  <2>11. ASSUME NEW i \in 1..n, n > 1
         PROVE  Good([manifest EXCEPT !.pages =
                        [j \in 1..Len(@) - 1 |-> IF j < i THEN @[j] ELSE @[j + 1]]])
    <3> DEFINE f == [j \in 1..n - 1 |-> IF j < i THEN pages[j] ELSE pages[j + 1]]
    <3>1. n - 1 \in 1..Cardinality(Urls)
      BY <2>2, <2>11, FS_CardinalityType, SourceManifestAssumption
    <3>2. f \in [1..n - 1 -> Page]
      <4> SUFFICES ASSUME NEW j \in 1..n - 1 PROVE f[j] \in Page
        OBVIOUS
      <4>1. j \in 1..n /\ j + 1 \in 1..n
        BY <2>2
      <4> QED BY <2>2, <4>1
    <3>3. [manifest EXCEPT !.pages = [j \in 1..Len(@) - 1 |-> IF j < i THEN @[j] ELSE @[j + 1]]]
            = [manifest EXCEPT !.pages = f]
      OBVIOUS
    <3> HIDE DEF f
    <3> QED BY <2>3, <3>1, <3>2, <3>3
  <2>12. ASSUME NEW i \in 1..n
         PROVE  /\ \A v \in Urls : Good([manifest EXCEPT !.pages[i].url = v])
                /\ \A v \in SUBSET Members : Good([manifest EXCEPT !.pages[i].refs = v])
                /\ \A v \in 0..Cardinality(Urls) : Good([manifest EXCEPT !.pages[i].sequence = v])
                /\ \A v \in Urls \cup {NoUrl} : Good([manifest EXCEPT !.pages[i].next = v])
                /\ Good([manifest EXCEPT !.pages[i].terminal = ~@])
    <3>1. pages[i] \in Page
      BY <2>2
    <3>2. ASSUME NEW v \in Urls PROVE Good([manifest EXCEPT !.pages[i].url = v])
      <4>1. [pages[i] EXCEPT !.url = v] \in Page
        BY <3>1 DEF Page
      <4> QED BY <2>4, <4>1
    <3>3. ASSUME NEW v \in SUBSET Members PROVE Good([manifest EXCEPT !.pages[i].refs = v])
      <4>1. [pages[i] EXCEPT !.refs = v] \in Page
        BY <3>1 DEF Page
      <4> QED BY <2>4, <4>1
    <3>4. ASSUME NEW v \in 0..Cardinality(Urls)
          PROVE  Good([manifest EXCEPT !.pages[i].sequence = v])
      <4>1. [pages[i] EXCEPT !.sequence = v] \in Page
        BY <3>1 DEF Page
      <4> QED BY <2>4, <4>1
    <3>5. ASSUME NEW v \in Urls \cup {NoUrl} PROVE Good([manifest EXCEPT !.pages[i].next = v])
      <4>1. [pages[i] EXCEPT !.next = v] \in Page
        BY <3>1 DEF Page
      <4> QED BY <2>4, <4>1
    <3>6. Good([manifest EXCEPT !.pages[i].terminal = ~@])
      <4>1. [pages[i] EXCEPT !.terminal = ~@] \in Page
        BY <3>1 DEF Page
      <4> QED BY <2>4, <4>1
    <3> QED BY <3>2, <3>3, <3>4, <3>5, <3>6
  <2>13. Good(manifest')
    <3> HIDE DEF Good
    <3>1. CASE Len(manifest.pages) > 1 /\ \E i \in DOMAIN manifest.pages :
                 manifest' = [manifest EXCEPT !.pages =
                   [j \in 1..Len(@) - 1 |-> IF j < i THEN @[j] ELSE @[j + 1]]]
      BY <2>2, <2>11, <3>1
    <3>2. ASSUME NEW i \in DOMAIN manifest.pages,
                 \/ \E v \in Urls : manifest' = [manifest EXCEPT !.pages[i].url = v]
                 \/ \E v \in SUBSET Members : manifest' = [manifest EXCEPT !.pages[i].refs = v]
                 \/ \E v \in 0..Cardinality(Urls) :
                      manifest' = [manifest EXCEPT !.pages[i].sequence = v]
                 \/ \E v \in Urls \cup {NoUrl} :
                      manifest' = [manifest EXCEPT !.pages[i].next = v]
                 \/ manifest' = [manifest EXCEPT !.pages[i].terminal = ~@]
          PROVE  Good(manifest')
      <4>1. i \in 1..n
        BY <2>2
      <4> QED BY <2>12, <3>2, <4>1
    <3> QED BY <1>2, <2>5, <2>6, <2>7, <2>8, <2>9, <2>10, <3>1, <3>2 DEF Mistake
  <2>14. mistakes' \in 0..MaxMistakes
    BY <1>2, <2>1, SourceManifestAssumption DEF Mistake
  <2> QED BY <2>13, <2>14 DEF SmTypeOK
<1> QED BY <1>1, <1>2 DEF SmNext



(* The pages of a manifest that is accepted: known by their urls.          *)
LEMMA KnownByUrl ==
  ASSUME NEW m \in Manifest, Violations(m) = {}
  PROVE  /\ m.pages \in Seq(Page) /\ Len(m.pages) \in Nat
         /\ DOMAIN m.pages = 1..Len(m.pages)
         /\ Cardinality(PageUrls(m)) = Len(m.pages)
         /\ m.declared = Len(m.pages) /\ Covered(m) = Members
         /\ \A i \in DOMAIN m.pages : PageOf(m, m.pages[i].url) = m.pages[i]
<1>1. /\ m.pages \in Seq(Page) /\ Len(m.pages) \in Nat
      /\ DOMAIN m.pages = 1..Len(m.pages)
  BY LenProperties DEF Manifest
<1>2. /\ Cardinality(PageUrls(m)) = Len(m.pages)
      /\ m.declared = Len(m.pages) /\ Covered(m) = Members
  <2>1. /\ "not_unique" \notin SourceViolations(m) /\ "count" \notin SourceViolations(m)
        /\ "coverage" \notin SourceViolations(m)
    BY DEF Violations
  <2> QED BY <2>1 DEF SourceViolations
<1> DEFINE f == [i \in 1..Len(m.pages) |-> m.pages[i].url]
<1>3. \A i, j \in 1..Len(m.pages) : f[i] = f[j] => i = j
  <2>1. {f[i] : i \in 1..Len(m.pages)} = PageUrls(m)
    BY <1>1 DEF PageUrls
  <2> HIDE DEF f
  <2>2. DOMAIN f = 1..Len(m.pages)
    BY DEF f
  <2> QED BY <1>1, <1>2, <2>1, <2>2, CountedApart
<1>4. \A i \in DOMAIN m.pages : PageOf(m, m.pages[i].url) = m.pages[i]
  <2> SUFFICES ASSUME NEW i \in DOMAIN m.pages
               PROVE  (CHOOSE j \in DOMAIN m.pages : m.pages[j].url = m.pages[i].url) = i
    BY DEF PageOf
  <2>1. \A j \in DOMAIN m.pages : m.pages[j].url = m.pages[i].url => j = i
    BY <1>1, <1>3
  <2> QED BY <2>1
<1> QED BY <1>1, <1>2, <1>4

(* And by their numbers, if it is a pagination.                            *)
LEMMA KnownByNumber ==
  ASSUME NEW m \in Manifest, Violations(m) = {}, m.method = "pagination"
  PROVE  LET n == Len(m.pages)
         IN  /\ \A i \in 1..n : m.pages[i].sequence \in 1..n
                                /\ Ordered(m, m.pages[i].sequence) = m.pages[i]
             /\ \A s \in 1..n : \E i \in 1..n : Ordered(m, s) = m.pages[i]
             /\ \A s \in 1..n : Ordered(m, s).terminal <=> s = n
             /\ \A s \in 1..n :
                  Ordered(m, s).next = IF s < n THEN Ordered(m, s + 1).url ELSE NoUrl
<1> DEFINE n == Len(m.pages)
<1>1. n \in Nat /\ DOMAIN m.pages = 1..n
  BY KnownByUrl
<1>2. LinkViolations(m) = {}
  BY DEF Violations
<1>3. Continuous(m)
  BY <1>2 DEF LinkViolations
<1>4. {s \in 1..n : Ordered(m, s).terminal} = {n}
  BY <1>2, <1>3 DEF LinkViolations
<1>5. \A s \in 1..n : Ordered(m, s).next = IF s < n THEN Ordered(m, s + 1).url ELSE NoUrl
  BY <1>2, <1>3 DEF LinkViolations
<1> DEFINE f == [i \in 1..n |-> m.pages[i].sequence]
<1>6. {f[i] : i \in 1..n} = 1..n
  BY <1>1, <1>3 DEF Continuous
<1>7. \A i, j \in 1..n : f[i] = f[j] => i = j
  <2>1. Cardinality(1..n) = n
    BY <1>1, UpTo
  <2>2. DOMAIN f = 1..n
    OBVIOUS
  <2> HIDE DEF f
  <2>3. Cardinality({f[i] : i \in 1..n}) = n
    BY <1>6, <2>1
  <2> QED BY <1>1, <2>2, <2>3, CountedApart
<1>8. \A i \in 1..n : Ordered(m, m.pages[i].sequence) = m.pages[i]
  <2> SUFFICES ASSUME NEW i \in 1..n
               PROVE  (CHOOSE j \in DOMAIN m.pages : m.pages[j].sequence = m.pages[i].sequence) = i
    BY DEF Ordered
  <2>1. \A j \in 1..n : m.pages[j].sequence = m.pages[i].sequence => j = i
    BY <1>7
  <2> QED BY <1>1, <2>1
<1>9. \A i \in 1..n : m.pages[i].sequence \in 1..n
  BY <1>6
<1>10. \A s \in 1..n : \E i \in 1..n : s = m.pages[i].sequence
  BY <1>6
<1>11. \A s \in 1..n : \E i \in 1..n : Ordered(m, s) = m.pages[i]
  BY <1>8, <1>10
<1>12. \A s \in 1..n : Ordered(m, s).terminal <=> s = n
  BY <1>4
<1> QED BY <1>5, <1>8, <1>9, <1>11, <1>12

(* A reader who follows the links of an accepted pagination is on its      *)
(* pages in the order of their numbers.                                    *)
LEMMA WalkOfPages ==
  ASSUME NEW m \in Manifest, Violations(m) = {}, m.method = "pagination",
         Len(m.pages) >= 1
  PROVE  LET n == Len(m.pages)
         IN  /\ Walk(m)[n] = NoUrl
             /\ \A k \in 0..n - 1 : /\ Walk(m)[k] = Ordered(m, k + 1).url
                                    /\ PageOf(m, Walk(m)[k]) = Ordered(m, k + 1)
<1> DEFINE n == Len(m.pages)
           Url(k) == IF k < n THEN Ordered(m, k + 1).url ELSE NoUrl
           Solves(f) == f = [k \in 0..n |->
                               IF k = 0 THEN Ordered(m, 1).url
                               ELSE IF f[k - 1] = NoUrl THEN NoUrl ELSE PageOf(m, f[k - 1]).next]
<1>1. n \in Nat /\ n >= 1
  BY KnownByUrl
<1>2. ASSUME NEW k \in 0..n - 1
      PROVE  /\ Url(k) = Ordered(m, k + 1).url /\ Url(k) # NoUrl
             /\ PageOf(m, Url(k)) = Ordered(m, k + 1)
             /\ Ordered(m, k + 1).next = Url(k + 1)
  <2>1. k + 1 \in 1..n /\ k < n /\ k \in Nat
    BY <1>1
  <2>2. PICK i \in 1..n : Ordered(m, k + 1) = m.pages[i]
    BY <2>1, KnownByNumber
  <2>3. m.pages[i] \in Page /\ i \in DOMAIN m.pages
    BY <2>2, KnownByUrl, ElementOfSeq
  <2>4. Url(k) = m.pages[i].url /\ m.pages[i].url \in Urls
    BY <2>1, <2>2, <2>3 DEF Page
  <2>5. PageOf(m, Url(k)) = m.pages[i]
    BY <2>3, <2>4, KnownByUrl
  <2>6. Ordered(m, k + 1).next = IF k + 1 < n THEN Ordered(m, (k + 1) + 1).url ELSE NoUrl
    BY <2>1, KnownByNumber
  <2> QED BY <2>1, <2>2, <2>4, <2>5, <2>6, SourceManifestAssumption
<1> DEFINE g == [k \in 0..n |-> Url(k)]
<1>3. Solves(g)
  <2> SUFFICES ASSUME NEW k \in 0..n
               PROVE  g[k] = IF k = 0 THEN Ordered(m, 1).url
                             ELSE IF g[k - 1] = NoUrl THEN NoUrl ELSE PageOf(m, g[k - 1]).next
    OBVIOUS
  <2>1. CASE k = 0
    BY <1>1, <2>1
  <2>2. CASE k # 0
    <3>1. k - 1 \in 0..n - 1 /\ k - 1 \in 0..n /\ (k - 1) + 1 = k
      BY <1>1, <2>2
    <3>2. g[k - 1] = Url(k - 1) /\ g[k] = Url(k)
      BY <3>1
    <3> HIDE DEF g, Url
    <3>3. /\ Url(k - 1) # NoUrl /\ PageOf(m, Url(k - 1)) = Ordered(m, k)
          /\ Ordered(m, k).next = Url(k)
      BY <1>2, <3>1
    <3> QED BY <2>2, <3>2, <3>3
  <2> QED BY <2>1, <2>2
<1> DEFINE at == CHOOSE f : Solves(f)
<1>4. Walk(m) = at
  BY DEF Walk
<1>5. Solves(at)
  <2> HIDE DEF Solves
  <2> QED BY <1>3
<1> HIDE DEF at
<1>6. \A k \in 0..n :
        at[k] = IF k = 0 THEN Ordered(m, 1).url
                ELSE IF at[k - 1] = NoUrl THEN NoUrl ELSE PageOf(m, at[k - 1]).next
  BY <1>5
<1> HIDE DEF Solves, g
<1> DEFINE S == {k \in Nat : k \in 0..n => at[k] = Url(k)}
<1>7. 0 \in S
  BY <1>1, <1>6
<1>8. ASSUME NEW k \in Nat, k \in S PROVE k + 1 \in S
  <2> SUFFICES ASSUME k + 1 \in 0..n PROVE at[k + 1] = Url(k + 1)
    OBVIOUS
  <2>1. k \in 0..n - 1 /\ k \in 0..n /\ k + 1 # 0 /\ (k + 1) - 1 = k
    BY <1>1
  <2>2. at[k] = Url(k)
    BY <1>8, <2>1
  <2> HIDE DEF Url, S
  <2>3. at[k + 1] = IF at[k] = NoUrl THEN NoUrl ELSE PageOf(m, at[k]).next
    BY <1>6, <2>1
  <2> QED BY <1>2, <2>1, <2>2, <2>3
<1> HIDE DEF S
<1>9. Nat \subseteq S
  BY <1>7, <1>8, NatSet
<1>10. \A k \in 0..n : at[k] = Url(k)
  BY <1>9 DEF S
<1> HIDE DEF Url
<1>11. /\ at[n] = Url(n)
       /\ \A k \in 0..n - 1 : at[k] = Ordered(m, k + 1).url /\ PageOf(m, at[k]) = Ordered(m, k + 1)
  <2>1. \A k \in 0..n - 1 : k \in 0..n
    BY <1>1
  <2> QED BY <1>1, <1>2, <1>10, <2>1
<1>12. Url(n) = NoUrl
  BY <1>1 DEF Url
<1> QED BY <1>4, <1>11, <1>12

(* An accepted manifest, whatever a client makes of it, supports a         *)
(* conclusion from absence: for any number of pages and mistakes.          *)
LEMMA WalkedThrough == SmTypeOK => AcceptedIsWalk
<1> DEFINE m == manifest
           n == Len(m.pages)
<1> SUFFICES ASSUME SmTypeOK, Violations(m) = {}
             PROVE  /\ m.method = "pagination" =>
                         LET at == Walk(m)
                         IN  /\ {at[i] : i \in 0..n - 1} = PageUrls(m)
                             /\ at[n] = NoUrl
                             /\ \A i \in 0..n - 1 : PageOf(m, at[i]).terminal <=> i = n - 1
                    /\ \A i \in DOMAIN m.pages : m.pages[i].next \in PageUrls(m) \cup {NoUrl}
                    /\ Covered(m) = Members
                    /\ m.declared = Cardinality(PageUrls(m))
  BY DEF AcceptedIsWalk
<1>1. m \in Manifest /\ n \in Nat /\ n >= 1 /\ DOMAIN m.pages = 1..n
  BY KnownByUrl DEF SmTypeOK
<1> HIDE DEF m
<1>2. Covered(m) = Members /\ m.declared = Cardinality(PageUrls(m))
  BY <1>1, KnownByUrl
<1>3. ASSUME m.method = "pagination"
      PROVE  /\ {Walk(m)[i] : i \in 0..n - 1} = PageUrls(m)
             /\ Walk(m)[n] = NoUrl
             /\ \A i \in 0..n - 1 : PageOf(m, Walk(m)[i]).terminal <=> i = n - 1
             /\ \A i \in DOMAIN m.pages : m.pages[i].next \in PageUrls(m) \cup {NoUrl}
  <2>1. /\ Walk(m)[n] = NoUrl
        /\ \A k \in 0..n - 1 : /\ Walk(m)[k] = Ordered(m, k + 1).url
                               /\ PageOf(m, Walk(m)[k]) = Ordered(m, k + 1)
    BY <1>1, <1>3, WalkOfPages
  <2>2. /\ \A i \in 1..n : m.pages[i].sequence \in 1..n
                           /\ Ordered(m, m.pages[i].sequence) = m.pages[i]
        /\ \A s \in 1..n : \E i \in 1..n : Ordered(m, s) = m.pages[i]
        /\ \A s \in 1..n : Ordered(m, s).terminal <=> s = n
        /\ \A s \in 1..n :
             Ordered(m, s).next = IF s < n THEN Ordered(m, s + 1).url ELSE NoUrl
    BY <1>1, <1>3, KnownByNumber
  <2>3. \A s \in 1..n : Ordered(m, s).url \in PageUrls(m)
    BY <1>1, <2>2 DEF PageUrls
  <2>4. \A k \in 0..n - 1 : k + 1 \in 1..n /\ (k + 1 = n <=> k = n - 1)
    BY <1>1
  <2>5. \A s \in 1..n : s - 1 \in 0..n - 1 /\ (s - 1) + 1 = s
    BY <1>1
  <2>6. {Walk(m)[i] : i \in 0..n - 1} \subseteq PageUrls(m)
    BY <2>1, <2>3, <2>4
  <2>7. ASSUME NEW i \in 1..n PROVE m.pages[i].url \in {Walk(m)[k] : k \in 0..n - 1}
    <3>1. m.pages[i].sequence \in 1..n /\ Ordered(m, m.pages[i].sequence) = m.pages[i]
      BY <2>2
    <3>2. PICK k \in 0..n - 1 : k + 1 = m.pages[i].sequence
      BY <2>5, <3>1
    <3>3. Walk(m)[k] = m.pages[i].url
      BY <2>1, <3>1, <3>2
    <3> QED BY <3>3
  <2>8. {Walk(m)[i] : i \in 0..n - 1} = PageUrls(m)
    BY <1>1, <2>6, <2>7 DEF PageUrls
  <2>9. \A i \in 0..n - 1 : PageOf(m, Walk(m)[i]).terminal <=> i = n - 1
    BY <2>1, <2>2, <2>4
  <2>10. ASSUME NEW i \in 1..n PROVE m.pages[i].next \in PageUrls(m) \cup {NoUrl}
    <3>1. m.pages[i].sequence \in 1..n /\ Ordered(m, m.pages[i].sequence) = m.pages[i]
      BY <2>2
    <3>2. m.pages[i].sequence < n => m.pages[i].sequence + 1 \in 1..n
      BY <1>1, <3>1
    <3> QED BY <2>2, <2>3, <3>1, <3>2
  <2> QED BY <1>1, <2>1, <2>8, <2>9, <2>10
<1>4. ASSUME m.method # "pagination"
      PROVE  \A i \in DOMAIN m.pages : m.pages[i].next \in PageUrls(m) \cup {NoUrl}
  BY <1>4 DEF Violations, LinkViolations
<1> QED BY <1>2, <1>3, <1>4

(* What a client makes of a manifest is a manifest.                        *)
THEOREM ManifestTypes == SmSpec => []SmTypeOK
BY ManifestInit, MistakeStep, PTL DEF SmSpec

(* An accepted manifest supports a conclusion from absence, however many   *)
(* pages it has and mistakes were made.                                    *)
THEOREM AcceptedWalks == SmSpec => []AcceptedIsWalk
BY ManifestTypes, WalkedThrough, PTL

-----------------------------------------------------------------------------
(* Collections: what members and references hold.                          *)

(* One manifest stored anew.                                               *)
LEMMA OneStored ==
  ASSUME NEW g \in Groups, NEW m \in Stored, manifests \in [Groups -> Stored],
         manifests' = [manifests EXCEPT ![g] = m]
  PROVE  /\ manifests' \in [Groups -> Stored]
         /\ manifests'[g] = m /\ \A h \in Groups : h # g => manifests'[h] = manifests[h]
OBVIOUS

(* What is connected stays connected; and what a call connects is there    *)
(* afterwards, as are the subjects it is between.                          *)
LEMMA ContextKept ==
  ASSUME CoTypeOK, NEW items \in SUBSET Items, NEW groups \in SUBSET Groups,
         NEW kind \in Kinds, Context(items, groups, kind)
  PROVE  /\ subjects \subseteq subjects' /\ subjects' \subseteq Subjects
         /\ items \cup groups \subseteq subjects'
         /\ links' \in [Items \X Groups -> Kinds \cup {"none"}]
         /\ \A p \in DOMAIN links' : links'[p] # "none" => {p[1], p[2]} \subseteq subjects'
         /\ \A g \in Groups : MemberIds(links, g) \subseteq MemberIds(links', g)
         /\ kind = "membership" => \A g \in groups : items \subseteq MemberIds(links', g)
<1> DEFINE pairs == items \X groups
<1>1. /\ subjects' = subjects \cup items \cup groups
      /\ links' = [p \in Items \X Groups |->
                     IF p \in pairs /\ links[p] # "membership" THEN kind ELSE links[p]]
  BY DEF Context, Connected
<1>2. links \in [Items \X Groups -> Kinds \cup {"none"}] /\ subjects \subseteq Subjects
  BY DEF CoTypeOK
<1>3. subjects \subseteq subjects' /\ subjects' \subseteq Subjects /\ items \cup groups \subseteq subjects'
  BY <1>1, <1>2 DEF Subjects
<1>4. links' \in [Items \X Groups -> Kinds \cup {"none"}]
  BY <1>1, <1>2
<1>5. ASSUME NEW p \in Items \X Groups, links'[p] # "none"
      PROVE  {p[1], p[2]} \subseteq subjects'
  <2>1. CASE p \in pairs
    BY <1>3, <2>1
  <2>2. CASE p \notin pairs
    <3>1. links[p] # "none"
      BY <1>1, <1>5, <2>2
    <3> QED BY <1>2, <1>3, <3>1 DEF CoTypeOK
  <2> QED BY <2>1, <2>2
<1>6. ASSUME NEW g \in Groups, NEW s \in Items, links[s, g] = "membership"
      PROVE  links'[s, g] = "membership"
  BY <1>1, <1>6
<1>7. ASSUME kind = "membership", NEW g \in groups, NEW s \in items
      PROVE  links'[s, g] = "membership"
  BY <1>1, <1>7
<1> QED BY <1>3, <1>4, <1>5, <1>6, <1>7 DEF MemberIds

(* What is found on a collection is well-typed: a stored manifest, or one  *)
(* made of a review; and its members are connected.                        *)
LEMMA FoundManifest ==
  ASSUME CoTypeOK, NEW ls, NEW g \in Groups, NEW named,
         StoredManifest(ls, g, named) # NoManifest
  PROVE  LET m == StoredManifest(ls, g, named)
         IN  /\ m \in Stored
             /\ m.members \subseteq MemberIds(ls, g) /\ Cardinality(m.members) = m.count
             /\ m = manifests[g] \/ (manifests[g] = NoManifest /\ m.revision = 1)
<1> DEFINE state == IF manifests[g] # NoManifest THEN manifests[g] ELSE Legacy(ls, g, named)
<1>1. /\ StoredManifest(ls, g, named) = state /\ state # NoManifest
      /\ state.members \subseteq MemberIds(ls, g) /\ Cardinality(state.members) = state.count
  BY DEF StoredManifest
<1>2. manifests[g] \in Stored
  BY DEF CoTypeOK
<1>3. ASSUME manifests[g] = NoManifest PROVE state \in Stored /\ state.revision = 1
  <2> DEFINE Fits(r) == /\ r.assessment.count = Cardinality(MemberIds(ls, g))
                        /\ r.assessment.count # 0 /\ r.about \in MemberIds(ls, g)
                        /\ named # NoGroup => r.assessment.named = named
             newest == SelectLastInSeq(saved, Fits)
             a == saved[newest].assessment
             I == {i \in 1..Len(saved) : Fits(saved[i])}
  <2>1. state = Legacy(ls, g, named)
    BY <1>3
  <2>2. newest # 0 /\ state = [revision |-> 1, members |-> MemberIds(ls, g), count |-> a.count,
                                named |-> a.named, complete |-> a.complete]
    BY <1>1, <2>1 DEF Legacy
  <2>3. newest = IF I # {} THEN Max(I) ELSE 0
    BY DEF SelectLastInSeq
  <2>4. saved \in Seq(ReviewRow) /\ Len(saved) \in Nat
    BY LenProperties DEF CoTypeOK
  <2>5. I # {} /\ I \in SUBSET (1..Len(saved)) /\ newest = Max(I)
    BY <2>2, <2>3
  <2>6. newest \in I
    <3> HIDE DEF I, newest
    <3> QED BY <2>4, <2>5, LastPosition
  <2> HIDE DEF newest
  <2>7. newest \in 1..Len(saved) /\ Fits(saved[newest])
    BY <2>6
  <2>8. saved[newest] \in ReviewRow
    BY <2>4, <2>7, ElementOfSeq
  <2> DEFINE r == saved[newest]
  <2>9. a # NoAssessment /\ a \in Assessment
    BY <2>7, <2>8 DEF ReviewRow, NoAssessment
  <2>10. a.count \in 2..MaxRefs /\ a.named \in Groups /\ a.complete \in BOOLEAN
    BY <2>9 DEF Assessment
  <2>11. MemberIds(ls, g) \in (SUBSET Items) \ {{}}
    BY <2>7 DEF MemberIds
  <2>12. 1 \in 1..MaxRevision
    BY CollectionsAssumption
  <2> HIDE DEF a
  <2> QED BY <2>2, <2>10, <2>11, <2>12 DEF Stored
<1> QED BY <1>1, <1>2, <1>3

(* No REST request writes back what has changed meanwhile, unless REST     *)
(* requests overlap others; so revisions only grow and a reference with    *)
(* the revision of today is of the members of today.                       *)
Upheld ==
  ~beside =>
    /\ ensuring # Quiet => ensuring.read = manifests[ensuring.group]
    /\ \A r \in given :
         /\ r.revision <= manifests[r.of].revision
         /\ r.revision = manifests[r.of].revision => r.members = manifests[r.of].members

(* What is proved together.                                                *)
CoInv == CoTypeOK /\ Upheld /\ ReferencesHold

LEMMA InitCollections == CoInit => CoInv
<1> SUFFICES ASSUME CoInit PROVE CoInv
  OBVIOUS
<1>1. saved \in Seq(ReviewRow) /\ DOMAIN saved = {}
  BY EmptySeq DEF CoInit
<1> QED BY <1>1 DEF CoInit, CoInv, CoTypeOK, Upheld, ReferencesHold, ReferencesAgree,
             ReferenceStands, Kinds, Stored

(* A review of a subject that is there.                                    *)
LEMMA ReviewAdded ==
  ASSUME CoTypeOK, NEW s \in Items, NEW enrich \in BOOLEAN, NEW a \in Assessment,
         Recorded(s, enrich, a) \/ Reviewed(s, a), subjects \subseteq subjects', s \in subjects'
  PROVE  saved' \in Seq(ReviewRow) /\ \A i \in DOMAIN saved' : saved'[i].about \in subjects'
<1> DEFINE r == [about |-> s, assessment |-> a]
<1>1. r \in ReviewRow /\ r.about = s
  BY DEF ReviewRow
<1>2. saved \in Seq(ReviewRow) /\ \A i \in DOMAIN saved : saved[i].about \in subjects
  BY DEF CoTypeOK
<1>3. CASE saved' = saved
  BY <1>2, <1>3
<1>4. CASE saved' = Append(saved, r)
  <2> HIDE DEF r
  <2>1. /\ saved' \in Seq(ReviewRow) /\ Len(saved') = Len(saved) + 1
        /\ \A i \in 1..Len(saved) : saved'[i] = saved[i]
        /\ saved'[Len(saved) + 1] = r
    BY <1>1, <1>2, <1>4, AppendProperties
  <2>2. Len(saved) \in Nat /\ DOMAIN saved = 1..Len(saved) /\ DOMAIN saved' = 1..Len(saved')
    BY <1>2, <2>1, LenProperties
  <2>3. ASSUME NEW i \in DOMAIN saved' PROVE saved'[i].about \in subjects'
    <3>1. CASE i \in DOMAIN saved
      BY <1>2, <2>1, <2>2, <3>1
    <3>2. CASE i = Len(saved) + 1
      BY <1>1, <2>1, <3>2
    <3> QED BY <2>1, <2>2, <3>1, <3>2
  <2> QED BY <2>1, <2>3
<1> QED BY <1>3, <1>4 DEF Recorded, Reviewed

(* A manifest is stored and its reference given.                           *)
LEMMA ManifestStored ==
  ASSUME CoTypeOK, Upheld, ReferencesHold, NEW g \in Groups, NEW m \in Stored, m # NoManifest,
         NEW reused \in BOOLEAN,
         manifests' = [manifests EXCEPT ![g] = m], GiveReference(g, m, reused),
         m.revision > manifests[g].revision \/ m = manifests[g],
         beside' = beside, careful' = careful, ensuring' = ensuring, Served,
         \A h \in Groups : MemberIds(links, h) \cap subjects
                             \subseteq MemberIds(links', h) \cap subjects',
         reused \/ careful => /\ m.members \subseteq MemberIds(links', g) \cap subjects'
                              /\ Cardinality(m.members) = m.count
  PROVE  /\ manifests' \in [Groups -> Stored] /\ given' \subseteq Reference
         /\ ensuring' = Quiet \/ (ensuring'.group \in Groups /\ ensuring'.read \in Stored)
         /\ Upheld' /\ ReferencesHold'
<1> DEFINE r == [of |-> g, revision |-> m.revision, members |-> m.members,
                 count |-> m.count, reused |-> reused]
<1>1. given' = given \cup {r}
  BY DEF GiveReference
<1>2. /\ manifests' \in [Groups -> Stored] /\ manifests'[g] = m
      /\ \A h \in Groups : h # g => manifests'[h] = manifests[h]
  BY OneStored DEF CoTypeOK
<1>3. /\ m.revision \in 1..MaxRevision /\ m.members \in SUBSET Items /\ m.count \in 2..MaxRefs
  BY DEF Stored
<1>4. r \in Reference
  BY <1>3 DEF Reference
<1>5. \A h \in Groups : manifests[h].revision \in Nat
  BY DEF CoTypeOK, Stored, NoManifest
<1>6. \A q \in given : q \in Reference /\ q.of \in Groups /\ q.revision \in 1..MaxRevision
  BY DEF CoTypeOK, Reference
<1>7. /\ r.of = g /\ r.revision = m.revision /\ r.members = m.members
      /\ r.count = m.count /\ r.reused = reused
  OBVIOUS
<1> HIDE DEF r
<1>8. ~beside => \A q \in given : q.of = g => q.revision <= m.revision
                                              /\ (q.revision = m.revision => q.members = m.members)
  BY <1>3, <1>5, <1>6 DEF Upheld
<1>9. Upheld'
  <2> SUFFICES ASSUME ~beside, NEW q \in given'
               PROVE  /\ q.revision <= manifests'[q.of].revision
                      /\ q.revision = manifests'[q.of].revision => q.members = manifests'[q.of].members
    BY DEF Upheld, Served
  <2>1. CASE q = r
    BY <1>2, <1>3, <1>7, <2>1
  <2>2. CASE q \in given /\ q.of = g
    BY <1>2, <1>8, <2>2
  <2>3. CASE q \in given /\ q.of # g
    BY <1>2, <1>6, <2>3 DEF Upheld
  <2> QED BY <1>1, <2>1, <2>2, <2>3
<1>10. ReferencesAgree'
  <2> SUFFICES ASSUME ~beside, NEW p \in given', NEW q \in given',
                      p.of = q.of, p.revision = q.revision
               PROVE  p.members = q.members
    BY DEF ReferencesAgree
  <2>1. CASE p \in given /\ q \in given
    BY <2>1 DEF ReferencesHold, ReferencesAgree
  <2>2. CASE p \in given /\ q = r
    BY <1>7, <1>8, <2>2
  <2>3. CASE p = r /\ q \in given
    BY <1>7, <1>8, <2>3
  <2> QED BY <1>1, <2>1, <2>2, <2>3
<1>11. ReferenceStands'
  <2> SUFFICES ASSUME NEW q \in given', q.reused \/ careful
               PROVE  /\ q.members \subseteq MemberIds(links', q.of) \cap subjects'
                      /\ Cardinality(q.members) = q.count
    BY DEF ReferenceStands
  <2>1. CASE q \in given
    BY <1>6, <2>1 DEF ReferencesHold, ReferenceStands
  <2>2. CASE q = r
    BY <1>7, <2>2
  <2> QED BY <1>1, <2>1, <2>2
<1> QED BY <1>1, <1>2, <1>4, <1>9, <1>10, <1>11 DEF CoTypeOK, ReferencesHold

(* Manifests and references are as they were.                              *)
LEMMA NothingStored ==
  ASSUME CoTypeOK, Upheld, ReferencesHold, UNCHANGED <<manifests, given>>,
         beside' = beside, careful' = careful,
         ensuring' = ensuring \/ ensuring' = Quiet,
         \A h \in Groups : MemberIds(links, h) \cap subjects
                             \subseteq MemberIds(links', h) \cap subjects'
  PROVE  /\ manifests' \in [Groups -> Stored] /\ given' \subseteq Reference
         /\ ensuring' = Quiet \/ (ensuring'.group \in Groups /\ ensuring'.read \in Stored)
         /\ Upheld' /\ ReferencesHold'
<1>1. Upheld'
  BY DEF Upheld
<1>2. \A q \in given : q.of \in Groups
  BY DEF CoTypeOK, Reference
<1>3. ReferencesAgree' /\ ReferenceStands'
  <2>1. ReferencesAgree'
    BY DEF ReferencesHold, ReferencesAgree
  <2>2. ASSUME NEW q \in given, q.reused \/ careful
        PROVE  q.members \subseteq MemberIds(links', q.of) \cap subjects' /\ Cardinality(q.members) = q.count
    BY <1>2, <2>2 DEF ReferencesHold, ReferenceStands
  <2> QED BY <2>1, <2>2 DEF ReferenceStands
<1> QED BY <1>1, <1>3 DEF CoTypeOK, ReferencesHold

(* What every call of the MCP endpoint that connects leaves in place.      *)
LEMMA ContextStands ==
  ASSUME CoTypeOK, NEW items \in SUBSET Items, NEW groups \in SUBSET Groups,
         NEW kind \in Kinds, Context(items, groups, kind)
  PROVE  \A h \in Groups : MemberIds(links, h) \cap subjects
                             \subseteq MemberIds(links', h) \cap subjects'
BY ContextKept

LEMMA ReusedStep ==
  ASSUME CoInv, NEW s \in Items, NEW g \in Groups, NEW m \in Reusable(g), NEW enrich \in BOOLEAN,
         SaveReused(s, g, m, enrich)
  PROVE  CoInv'
<1> USE DEF CoInv
<1>1. PICK more \in SUBSET Items, kind \in Kinds :
        /\ Context(more, {g}, kind)
        /\ LET now == StoredManifest(links', g, m.named)
           IN  IF now = NoManifest THEN UNCHANGED <<manifests, given>>
               ELSE /\ manifests' = [manifests EXCEPT ![g] = now]
                    /\ GiveReference(g, now, TRUE)
  BY DEF SaveReused
<1>2. /\ subjects \subseteq subjects' /\ subjects' \subseteq Subjects
      /\ links' \in [Items \X Groups -> Kinds \cup {"none"}]
      /\ \A p \in DOMAIN links' : links'[p] # "none" => {p[1], p[2]} \subseteq subjects'
  BY <1>1, ContextKept
<1>3. \A h \in Groups : MemberIds(links, h) \cap subjects \subseteq MemberIds(links', h) \cap subjects'
  BY <1>1, ContextStands
<1>4. beside' = beside /\ careful' = careful /\ ensuring' = ensuring /\ Served
  BY DEF SaveReused
<1>5. saved' \in Seq(ReviewRow) /\ \A i \in DOMAIN saved' : saved'[i].about \in subjects'
  <2>1. s \in subjects' /\ Recorded(s, enrich, NoAssessment) /\ NoAssessment \in Assessment
    BY <1>2 DEF SaveReused, Assessment
  <2> QED BY <1>2, <2>1, ReviewAdded
<1> DEFINE now == StoredManifest(links', g, m.named)
<1>6. MemberIds(links', g) \subseteq subjects'
  <2> SUFFICES ASSUME NEW i \in Items, links'[i, g] = "membership" PROVE i \in subjects'
    BY DEF MemberIds
  <2>1. <<i, g>> \in DOMAIN links' /\ links'[<<i, g>>] # "none"
    BY <1>2
  <2> QED BY <1>2, <2>1
<1>7. /\ manifests' \in [Groups -> Stored] /\ given' \subseteq Reference
      /\ ensuring' = Quiet \/ (ensuring'.group \in Groups /\ ensuring'.read \in Stored)
      /\ Upheld' /\ ReferencesHold'
  <2>1. CASE now = NoManifest
    BY <1>1, <1>3, <1>4, <2>1, NothingStored
  <2>2. CASE now # NoManifest
    <3>1. /\ now \in Stored
          /\ now.members \subseteq MemberIds(links', g) /\ Cardinality(now.members) = now.count
          /\ now = manifests[g] \/ (manifests[g] = NoManifest /\ now.revision = 1)
      BY <2>2, FoundManifest
    <3>2. manifests' = [manifests EXCEPT ![g] = now] /\ GiveReference(g, now, TRUE)
      BY <1>1, <2>2
    <3>3. now.revision > manifests[g].revision \/ now = manifests[g]
      BY <3>1 DEF NoManifest
    <3> HIDE DEF now
    <3> QED BY <1>3, <1>4, <1>6, <2>2, <3>1, <3>2, <3>3, ManifestStored
  <2> QED BY <2>1, <2>2
<1> QED BY <1>2, <1>4, <1>5, <1>7 DEF CoTypeOK

LEMMA AssessedStep ==
  ASSUME CoInv, NEW s \in Items, NEW id \in Groups \cup {NoGroup}, NEW named \in Groups,
         NEW members \in SUBSET Items, NEW count \in 2..MaxRefs, NEW kind \in Kinds,
         NEW enrich \in BOOLEAN, SaveAssessed(s, id, named, members, count, kind, enrich)
  PROVE  CoInv'
<1> USE DEF CoInv
<1> DEFINE g == IF id # NoGroup THEN id ELSE named
           m == Revised(g, members, count, named)
<1>1. Context(members, {named}, kind) /\ s \in members
  BY DEF SaveAssessed, Submittable
<1>2. /\ subjects \subseteq subjects' /\ subjects' \subseteq Subjects
      /\ members \subseteq subjects'
      /\ links' \in [Items \X Groups -> Kinds \cup {"none"}]
      /\ \A p \in DOMAIN links' : links'[p] # "none" => {p[1], p[2]} \subseteq subjects'
      /\ kind = "membership" => members \subseteq MemberIds(links', named)
  <2>1. {named} \in SUBSET Groups /\ CoTypeOK
    OBVIOUS
  <2> QED BY <1>1, <2>1, ContextKept
<1>3. \A h \in Groups : MemberIds(links, h) \cap subjects \subseteq MemberIds(links', h) \cap subjects'
  BY <1>1, ContextStands
<1>4. beside' = beside /\ careful' = careful /\ ensuring' = ensuring /\ Served
  BY DEF SaveAssessed
<1>5. saved' \in Seq(ReviewRow) /\ \A i \in DOMAIN saved' : saved'[i].about \in subjects'
  <2> DEFINE a == [count |-> count, named |-> named, complete |-> TRUE]
  <2>1. Recorded(s, enrich, a) /\ a \in Assessment
    BY DEF SaveAssessed, Assessment
  <2> HIDE DEF a
  <2> QED BY <1>1, <1>2, <2>1, ReviewAdded
<1>6. g \in Groups
  OBVIOUS
<1>7. /\ manifests' \in [Groups -> Stored] /\ given' \subseteq Reference
      /\ ensuring' = Quiet \/ (ensuring'.group \in Groups /\ ensuring'.read \in Stored)
      /\ Upheld' /\ ReferencesHold'
  <2>1. CASE UNCHANGED <<manifests, given>>
    BY <1>3, <1>4, <2>1, NothingStored
  <2>2. CASE /\ m.revision <= MaxRevision
             /\ manifests' = [manifests EXCEPT ![g] = m]
             /\ GiveReference(g, m, FALSE)
    <3>1. manifests[g].revision \in Nat
      BY <1>6 DEF CoTypeOK, Stored, NoManifest
    <3>2. /\ m.revision = manifests[g].revision + 1 /\ m.members = members
          /\ m.count = count /\ m.named = named /\ m.complete = TRUE
      BY DEF Revised
    <3>3. m \in Stored /\ m # NoManifest /\ m.revision > manifests[g].revision
      <4>1. m.revision \in 1..MaxRevision /\ members \in (SUBSET Items) \ {{}}
        BY <1>1, <2>2, <3>1, <3>2, CollectionsAssumption
      <4> QED BY <3>1, <3>2, <4>1 DEF Revised, Stored, NoManifest
    <3>4. careful => /\ m.members \subseteq MemberIds(links', g) \cap subjects'
                     /\ Cardinality(m.members) = m.count
      <4> SUFFICES ASSUME careful
                   PROVE  /\ members \subseteq MemberIds(links', g) \cap subjects'
                          /\ Cardinality(members) = count
        BY <3>2
      <4>1. g = named /\ count = Cardinality(members) /\ kind = "membership"
        BY DEF SaveAssessed
      <4> QED BY <1>2, <4>1
    <3> HIDE DEF m, g
    <3> QED BY <1>3, <1>4, <1>6, <2>2, <3>3, <3>4, ManifestStored
  <2> QED BY <2>1, <2>2 DEF SaveAssessed
<1> QED BY <1>2, <1>4, <1>5, <1>7 DEF CoTypeOK

LEMMA IndependentStep ==
  ASSUME CoInv, SaveIndependent
  PROVE  CoInv'
<1> USE DEF CoInv
<1>1. PICK s \in Items, groups \in {{}} \cup {{g} : g \in Groups}, enrich \in BOOLEAN :
        /\ Context({s}, groups, "other")
        /\ Recorded(s, enrich, NoAssessment)
        /\ UNCHANGED <<beside, careful, manifests, given, ensuring>>
  BY DEF SaveIndependent
<1>2. /\ subjects \subseteq subjects' /\ subjects' \subseteq Subjects
      /\ {s} \subseteq subjects'
      /\ links' \in [Items \X Groups -> Kinds \cup {"none"}]
      /\ \A p \in DOMAIN links' : links'[p] # "none" => {p[1], p[2]} \subseteq subjects'
      /\ \A h \in Groups : MemberIds(links, h) \cap subjects \subseteq MemberIds(links', h) \cap subjects'
  <2>1. {s} \in SUBSET Items /\ groups \in SUBSET Groups /\ "other" \in Kinds
    BY DEF Kinds
  <2> QED BY <1>1, <2>1, ContextKept, ContextStands
<1>3. saved' \in Seq(ReviewRow) /\ \A i \in DOMAIN saved' : saved'[i].about \in subjects'
  <2>1. NoAssessment \in Assessment
    BY DEF Assessment
  <2> QED BY <1>1, <1>2, <2>1, ReviewAdded
<1>4. /\ manifests' \in [Groups -> Stored] /\ given' \subseteq Reference
      /\ ensuring' = Quiet \/ (ensuring'.group \in Groups /\ ensuring'.read \in Stored)
      /\ Upheld' /\ ReferencesHold'
  BY <1>1, <1>2, NothingStored
<1> QED BY <1>1, <1>2, <1>3, <1>4 DEF CoTypeOK

LEMMA DeleteStep ==
  ASSUME CoInv, DeleteReview
  PROVE  CoInv'
<1> USE DEF CoInv
<1>1. PICK i \in DOMAIN saved, mine \in BOOLEAN :
        /\ saved' = RemoveAt(saved, i)
        /\ subjects' = subjects \ (IF mine /\ Orphan(i) THEN {saved[i].about} ELSE {})
        /\ UNCHANGED <<beside, careful, links, manifests, given, ensuring>>
  BY DEF DeleteReview
<1> DEFINE gone == IF mine /\ Orphan(i) THEN {saved[i].about} ELSE {}
<1>2. saved \in Seq(ReviewRow) /\ Len(saved) \in Nat /\ DOMAIN saved = 1..Len(saved)
  BY LenProperties DEF CoTypeOK
<1>3. saved[i] \in ReviewRow /\ saved[i].about \in Items
  <2>1. saved[i] \in ReviewRow
    BY <1>2, ElementOfSeq
  <2> QED BY <2>1 DEF ReviewRow
<1>4. gone \subseteq Items /\ \A t \in gone, g \in Groups : links[t, g] = "none"
  BY <1>3 DEF Orphan
<1>5. \A p \in DOMAIN links : links[p] # "none" => {p[1], p[2]} \subseteq subjects'
  <2> SUFFICES ASSUME NEW p \in Items \X Groups, links[p] # "none"
               PROVE  {p[1], p[2]} \subseteq subjects'
    BY DEF CoTypeOK
  <2>1. p[1] \in Items /\ p[2] \in Groups /\ p = <<p[1], p[2]>>
    OBVIOUS
  <2>2. {p[1], p[2]} \subseteq subjects
    BY DEF CoTypeOK
  <2>3. p[1] \notin gone /\ p[2] \notin gone
    BY <1>4, <2>1, CollectionsAssumption
  <2> HIDE DEF gone
  <2> QED BY <1>1, <2>2, <2>3 DEF gone
<1>6. saved' \in Seq(ReviewRow) /\ \A j \in DOMAIN saved' : saved'[j].about \in subjects'
  <2>1. /\ saved' \in Seq(ReviewRow) /\ Len(saved') = Len(saved) - 1
        /\ \A j \in 1..Len(saved) - 1 : saved'[j] = saved[IF j < i THEN j ELSE j + 1]
    BY <1>1, <1>2, Without
  <2>2. DOMAIN saved' = 1..Len(saved) - 1
    BY <2>1, LenProperties
  <2>3. ASSUME NEW j \in 1..Len(saved) - 1 PROVE saved'[j].about \in subjects'
    <3> DEFINE k == IF j < i THEN j ELSE j + 1
    <3>1. k \in DOMAIN saved /\ k # i /\ saved'[j] = saved[k]
      BY <1>2, <2>1
    <3>2. saved[k].about \in subjects
      BY <3>1 DEF CoTypeOK
    <3>3. saved[k].about \notin gone
      BY <3>1 DEF Orphan, LiveReviews
    <3> HIDE DEF k
    <3> QED BY <1>1, <3>1, <3>2, <3>3
  <2> QED BY <2>1, <2>2, <2>3
<1>7. \A h \in Groups : MemberIds(links, h) \cap subjects \subseteq MemberIds(links', h) \cap subjects'
  <2> SUFFICES ASSUME NEW h \in Groups, NEW t \in Items, links[t, h] = "membership", t \in subjects
               PROVE  t \in subjects'
    BY <1>1 DEF MemberIds
  <2>1. t \notin gone
    BY <1>4
  <2> QED BY <1>1, <2>1
<1>8. /\ manifests' \in [Groups -> Stored] /\ given' \subseteq Reference
      /\ ensuring' = Quiet \/ (ensuring'.group \in Groups /\ ensuring'.read \in Stored)
      /\ Upheld' /\ ReferencesHold'
  BY <1>1, <1>7, NothingStored
<1> QED BY <1>1, <1>5, <1>6, <1>8 DEF CoTypeOK

(* The steps of REST requests.                                             *)
LEMMA RestStep ==
  ASSUME CoInv, RestReview \/ RestCreate \/ RestRead \/ RestCommit
  PROVE  CoInv'
<1> USE DEF CoInv
<1>1. ASSUME RestReview PROVE CoInv'
  <2>1. PICK s \in subjects \cap Items, sent \in Assessment : Reviewed(s, sent)
    BY <1>1 DEF RestReview
  <2>2. UNCHANGED <<beside, careful, subjects, links, manifests, given, ensuring>>
    BY <1>1 DEF RestReview
  <2>3. saved' \in Seq(ReviewRow) /\ \A i \in DOMAIN saved' : saved'[i].about \in subjects'
    <3>1. s \in Items /\ s \in subjects' /\ TRUE \in BOOLEAN /\ subjects \subseteq subjects'
      BY <2>2
    <3> QED BY <2>1, <3>1, ReviewAdded
  <2>4. Upheld' /\ ReferencesHold'
    BY <2>2 DEF Upheld, ReferencesHold, ReferencesAgree, ReferenceStands
  <2> QED BY <2>2, <2>3, <2>4 DEF CoTypeOK
<1>2. ASSUME RestCreate PROVE CoInv'
  <2>1. /\ subjects \subseteq subjects' /\ subjects' \subseteq Subjects
        /\ UNCHANGED <<beside, careful, links, manifests, saved, given, ensuring>>
    BY <1>2 DEF RestCreate, CoTypeOK
  <2>2. Upheld' /\ ReferencesHold'
    <3>1. \A h \in Groups : MemberIds(links, h) \cap subjects \subseteq MemberIds(links', h) \cap subjects'
      BY <2>1
    <3> QED BY <2>1, <3>1, NothingStored
  <2> QED BY <2>1, <2>2 DEF CoTypeOK
<1>3. ASSUME RestRead PROVE CoInv'
  <2>1. PICK g \in Groups : ensuring' = [group |-> g, read |-> manifests[g]]
    BY <1>3 DEF RestRead
  <2>2. UNCHANGED <<beside, careful, subjects, links, manifests, saved, given>>
    BY <1>3 DEF RestRead
  <2>3. ensuring'.group \in Groups /\ ensuring'.read = manifests[ensuring'.group]
        /\ ensuring'.read \in Stored
    BY <2>1 DEF CoTypeOK
  <2>4. Upheld'
    BY <2>2, <2>3 DEF Upheld
  <2>5. ReferencesHold'
    BY <2>2 DEF ReferencesHold, ReferencesAgree, ReferenceStands
  <2> QED BY <2>2, <2>3, <2>4, <2>5 DEF CoTypeOK
<1>4. ASSUME RestCommit PROVE CoInv'
  <2>1. /\ manifests' = [manifests EXCEPT ![ensuring.group] = ensuring.read]
        /\ ensuring # Quiet /\ ensuring' = Quiet
        /\ UNCHANGED <<beside, careful, subjects, links, saved, given>>
    BY <1>4 DEF RestCommit
  <2>2. ensuring.group \in Groups /\ ensuring.read \in Stored
    BY <2>1 DEF CoTypeOK
  <2>3. /\ manifests' \in [Groups -> Stored]
        /\ ~beside => manifests' = manifests
    BY <2>1, <2>2 DEF CoTypeOK, Upheld
  <2>4. Upheld' /\ ReferencesHold'
    BY <2>1, <2>3 DEF Upheld, ReferencesHold, ReferencesAgree, ReferenceStands
  <2> QED BY <2>1, <2>3, <2>4 DEF CoTypeOK
<1> QED BY <1>1, <1>2, <1>3, <1>4

LEMMA NextCollections ==
  ASSUME CoInv, [CoNext]_coVars
  PROVE  CoInv'
<1>1. ASSUME SaveMember PROVE CoInv'
  <2>1. PICK g \in Groups :
          \/ \E m \in Reusable(g) : \E s \in Items, enrich \in BOOLEAN : SaveReused(s, g, m, enrich)
          \/ \E id \in AssessedIds(g) :
               \E members \in SUBSET Items : \E s \in members, count \in 2..MaxRefs,
                  kind \in Kinds, enrich \in BOOLEAN :
                    SaveAssessed(s, id, g, members, count, kind, enrich)
    BY <1>1 DEF SaveMember
  <2>2. AssessedIds(g) \subseteq Groups \cup {NoGroup}
    BY DEF AssessedIds
  <2>3. ASSUME NEW id \in AssessedIds(g), NEW members \in SUBSET Items, NEW s \in members,
               NEW count \in 2..MaxRefs, NEW kind \in Kinds, NEW enrich \in BOOLEAN,
               SaveAssessed(s, id, g, members, count, kind, enrich)
        PROVE  CoInv'
    <3>1. s \in Items /\ id \in Groups \cup {NoGroup}
      BY <2>2
    <3> QED BY <2>3, <3>1, AssessedStep
  <2> QED BY <2>1, <2>3, ReusedStep
<1>2. CASE UNCHANGED coVars
  BY <1>2 DEF coVars, CoInv, CoTypeOK, Upheld, ReferencesHold, ReferencesAgree, ReferenceStands
<1> QED BY <1>1, <1>2, IndependentStep, DeleteStep, RestStep DEF CoNext

LEMMA CollectionsInvariant == CoSpec => []CoInv
BY InitCollections, NextCollections, PTL DEF CoSpec

(* Manifests, reviews, relationships and references are well-typed; a      *)
(* relationship and a review are of subjects that are there.               *)
THEOREM CollectionTypes == CoSpec => []CoTypeOK
BY CollectionsInvariant, PTL DEF CoInv

(* What a collection reference promises to later calls, for any number of  *)
(* collections, members, revisions, reviews and references.                *)
THEOREM ReferencesKept == CoSpec => []ReferencesHold
BY CollectionsInvariant, PTL DEF CoInv

-----------------------------------------------------------------------------
(* Guidance: what a model is told.                                         *)

AllLabels == Labels \cup {NoLabel}

(* The approvals, by their place, of a scope and a section for a model.    *)
Approving(scope, label, s) ==
  {i \in DOMAIN approvals :
     /\ proposals[approvals[i]].scope = scope /\ ApprovedFor(proposals[approvals[i]], label)
     /\ proposals[approvals[i]].section = s}

(* The last of some approvals.                                             *)
Latest(I) == IF I = {} THEN NoText ELSE approvals[Max(I)]

(* No proposal is approved twice.                                          *)
ApprovedOnce ==
  /\ approvals \in Seq(Nat)
  /\ \A i, j \in DOMAIN approvals : approvals[i] = approvals[j] => i = j

(* Going through the approvals in order ends with the last of each         *)
(* section.                                                                *)
LEMMA LastCounts ==
  ASSUME GuTypeOK, ApprovedOnce, NEW scope \in {"global", "model"}, NEW label \in AllLabels
  PROVE  Revisions(scope, label) = [s \in Sections |-> Latest(Approving(scope, label, s))]
<1> DEFINE D == DOMAIN approvals
           n == Len(approvals)
           Good(x) == /\ proposals[approvals[x]].scope = scope
                      /\ ApprovedFor(proposals[approvals[x]], label)
           none == [s \in Sections |-> NoText]
           Op(texts, i) == IF proposals[i].scope = scope /\ ApprovedFor(proposals[i], label)
                           THEN [texts EXCEPT ![proposals[i].section] = i] ELSE texts
           Solves(f) == f = [S \in SUBSET D |->
                               IF S = {} THEN none
                               ELSE LET x == Max(S) IN Op(f[S \ {x}], approvals[x])]
           Of(S, s) == {x \in S : Good(x) /\ proposals[approvals[x]].section = s}
           g == [S \in SUBSET D |-> [s \in Sections |-> Latest(Of(S, s))]]
<1>1. n \in Nat /\ D = 1..n
  BY LenProperties DEF ApprovedOnce
<1>2. Solves(g)
  <2> SUFFICES ASSUME NEW S \in SUBSET D
               PROVE  g[S] = IF S = {} THEN none
                             ELSE LET x == Max(S) IN Op(g[S \ {x}], approvals[x])
    OBVIOUS
  <2>1. CASE S = {}
    <3>1. \A s \in Sections : Of(S, s) = {}
      BY <2>1
    <3> QED BY <2>1, <3>1 DEF Latest
  <2>2. CASE S # {}
    <3> DEFINE x == Max(S)
               R == S \ {x}
    <3>1. x \in S /\ \A y \in S : y <= x
      BY <1>1, <2>2, LastPosition
    <3> HIDE DEF x
    <3>2. R \in SUBSET D /\ g[R] = [s \in Sections |-> Latest(Of(R, s))]
      OBVIOUS
    <3>3. x \in Nat /\ S \subseteq 1..n
      BY <1>1, <3>1
    <3>4. proposals[approvals[x]].section \in Sections
      <4>1. approvals[x] \in DOMAIN proposals
        BY <3>1 DEF GuTypeOK, ToSet
      <4>2. proposals[approvals[x]] \in Proposal
        BY <4>1, ElementOfSeq, LenProperties DEF GuTypeOK
      <4> QED BY <4>2 DEF Proposal
    <3>5. ASSUME NEW s \in Sections
          PROVE  Latest(Of(S, s)) = Op(g[R], approvals[x])[s]
      <4>1. CASE Good(x) /\ proposals[approvals[x]].section = s
        <5>1. x \in Of(S, s) /\ Of(S, s) \in SUBSET (1..n) /\ Of(S, s) # {}
          BY <3>1, <3>3, <4>1
        <5> DEFINE J == Of(S, s)
        <5>2. \A y \in J : y <= x
          BY <3>1
        <5>3. J \in SUBSET (1..n) /\ J # {} /\ x \in J
          BY <5>1
        <5> HIDE DEF J
        <5>4. Max(J) = x
          BY <1>1, <5>3, <5>2, OneIsLast
        <5>5. Latest(J) = approvals[x]
          BY <5>1, <5>4 DEF Latest, J
        <5>6. Op(g[R], approvals[x])[s] = approvals[x]
          <6>1. Op(g[R], approvals[x]) = [g[R] EXCEPT ![s] = approvals[x]]
            BY <4>1
          <6>2. s \in DOMAIN g[R]
            BY <3>2
          <6> HIDE DEF Op, g
          <6> QED BY <6>1, <6>2
        <5> QED BY <5>5, <5>6 DEF J
      <4>2. CASE ~(Good(x) /\ proposals[approvals[x]].section = s)
        <5>1. Of(S, s) = Of(R, s)
          BY <4>2
        <5>2. Op(g[R], approvals[x])[s] = g[R][s]
          <6>1. CASE Good(x)
            <7>1. Op(g[R], approvals[x]) = [g[R] EXCEPT ![proposals[approvals[x]].section] = approvals[x]]
              BY <6>1
            <7>2. proposals[approvals[x]].section # s /\ DOMAIN g[R] = Sections
              BY <3>2, <4>2, <6>1
            <7> HIDE DEF Op, g
            <7> QED BY <7>1, <7>2
          <6>2. CASE ~Good(x)
            <7>1. Op(g[R], approvals[x]) = g[R]
              BY <6>2
            <7> QED BY <7>1
          <6> QED BY <6>1, <6>2
        <5> HIDE DEF Op, g, Of
        <5>3. g[R][s] = Latest(Of(R, s))
          BY <3>2
        <5> QED BY <5>1, <5>2, <5>3
      <4> QED BY <4>1, <4>2
    <3>6. Op(g[R], approvals[x]) = [s \in Sections |-> Op(g[R], approvals[x])[s]]
      <4> DEFINE h == g[R]
      <4>1. h = [s \in Sections |-> h[s]]
        BY <3>2
      <4> HIDE DEF h, g
      <4>2. Op(h, approvals[x]) = [s \in Sections |-> Op(h, approvals[x])[s]]
        <5>1. CASE Good(x)
          <6>1. Op(h, approvals[x]) = [h EXCEPT ![proposals[approvals[x]].section] = approvals[x]]
            BY <5>1
          <6> HIDE DEF Op
          <6> QED BY <4>1, <6>1
        <5>2. CASE ~Good(x)
          <6>1. Op(h, approvals[x]) = h
            BY <5>2
          <6> QED BY <4>1, <6>1
        <5> QED BY <5>1, <5>2
      <4> QED BY <4>2 DEF h
    <3>7. g[S] = [s \in Sections |-> Latest(Of(S, s))]
      OBVIOUS
    <3> HIDE DEF g, Op, Of
    <3>8. g[S] = Op(g[R], approvals[x])
      BY <3>5, <3>6, <3>7
    <3> QED BY <2>2, <3>8 DEF x
  <2> QED BY <2>1, <2>2
<1> DEFINE it == CHOOSE f : Solves(f)
<1>3. Revisions(scope, label) = it[D]
  BY DEF Revisions, FoldLeft, MapThenFoldSet
<1>4. Solves(it)
  <2> HIDE DEF Solves
  <2> QED BY <1>2
<1> HIDE DEF it
<1>5. \A S \in SUBSET D :
        it[S] = IF S = {} THEN none ELSE LET x == Max(S) IN Op(it[S \ {x}], approvals[x])
  BY <1>4
<1>6. \A S \in SUBSET D :
        g[S] = IF S = {} THEN none ELSE LET x == Max(S) IN Op(g[S \ {x}], approvals[x])
  BY <1>2
<1> HIDE DEF Solves, g, Op, none
<1> DEFINE T == {k \in Nat : \A S \in SUBSET (1..k) : S \subseteq D => it[S] = g[S]}
<1>7. 0 \in T
  <2>1. 1..0 = {}
    OBVIOUS
  <2> QED BY <1>5, <1>6, <2>1
<1>8. ASSUME NEW k \in Nat, k \in T PROVE k + 1 \in T
  <2> SUFFICES ASSUME NEW S \in SUBSET (1..k + 1), S \subseteq D PROVE it[S] = g[S]
    OBVIOUS
  <2>1. CASE S = {}
    BY <1>5, <1>6, <2>1
  <2>2. CASE S # {}
    <3>1. Max(S) \in S /\ \A y \in S : y <= Max(S)
      <4>1. k + 1 \in Nat
        OBVIOUS
      <4> QED BY <2>2, <4>1, LastPosition
    <3> DEFINE x == Max(S)
    <3> HIDE DEF x
    <3>2. S \ {x} \in SUBSET (1..k)
      BY <3>1 DEF x
    <3>3. it[S \ {x}] = g[S \ {x}]
      BY <1>8, <3>2
    <3>4. it[S] = Op(it[S \ {x}], approvals[x]) /\ g[S] = Op(g[S \ {x}], approvals[x])
      BY <1>5, <1>6, <2>2 DEF x
    <3> QED BY <3>3, <3>4
  <2> QED BY <2>1, <2>2
<1> HIDE DEF T
<1>9. n \in T
  BY <1>1, <1>7, <1>8, NatSet
<1>10. it[D] = g[D]
  BY <1>1, <1>9 DEF T
<1>11. g[D] = [s \in Sections |-> Latest(Of(D, s))]
  BY DEF g
<1>12. \A s \in Sections : Of(D, s) = Approving(scope, label, s)
  BY DEF Approving
<1> HIDE DEF Of
<1> QED BY <1>3, <1>10, <1>11, <1>12

(* What is proved together.                                                *)
GuInv == GuTypeOK /\ ApprovedOnce

LEMMA InitGuidance == GuInit => GuInv
<1> SUFFICES ASSUME GuInit PROVE GuInv
  OBVIOUS
<1>1. /\ proposals \in Seq(Proposal) /\ approvals \in Seq(Nat)
      /\ Len(proposals) = 0 /\ Len(approvals) = 0 /\ DOMAIN approvals = {}
  BY EmptySeq DEF GuInit
<1> QED BY <1>1, GuidanceAssumption DEF GuInv, GuTypeOK, ApprovedOnce, ToSet

(* A proposal more leaves those there are as they are.                     *)
LEMMA ProposalAdded ==
  ASSUME GuTypeOK, NEW p \in Proposal, ProposeGuidance(p)
  PROVE  /\ proposals' \in Seq(Proposal) /\ Len(proposals') <= MaxProposals
         /\ DOMAIN proposals \subseteq DOMAIN proposals'
         /\ \A i \in DOMAIN proposals : proposals'[i] = proposals[i]
         /\ approvals' = approvals
<1>1. /\ proposals \in Seq(Proposal) /\ proposals' = Append(proposals, p)
      /\ Len(proposals) < MaxProposals /\ approvals' = approvals
  BY DEF GuTypeOK, ProposeGuidance
<1>2. /\ proposals' \in Seq(Proposal) /\ Len(proposals') = Len(proposals) + 1
      /\ \A i \in 1..Len(proposals) : proposals'[i] = proposals[i]
  BY <1>1, AppendProperties
<1>3. /\ Len(proposals) \in Nat /\ DOMAIN proposals = 1..Len(proposals)
      /\ DOMAIN proposals' = 1..Len(proposals')
  BY <1>1, <1>2, LenProperties
<1> QED BY <1>1, <1>2, <1>3, GuidanceAssumption

(* An approval more comes last.                                            *)
LEMMA ApprovalAdded ==
  ASSUME GuInv, NEW i \in DOMAIN proposals, ApproveGuidance(i)
  PROVE  LET n == Len(approvals)
         IN  /\ n \in Nat /\ DOMAIN approvals = 1..n /\ DOMAIN approvals' = 1..n + 1
             /\ approvals' \in Seq(Nat) /\ Len(approvals') = n + 1
             /\ \A j \in 1..n : approvals'[j] = approvals[j] /\ approvals[j] # i
             /\ approvals'[n + 1] = i /\ Last(approvals') = i
             /\ i \in 1..MaxProposals
             /\ proposals' = proposals
<1> DEFINE n == Len(approvals)
<1>1. approvals \in Seq(Nat) /\ approvals' = Append(approvals, i) /\ proposals' = proposals
  BY DEF GuInv, ApprovedOnce, ApproveGuidance
<1>2. i \in 1..MaxProposals /\ i \in Nat
  <2>1. Len(proposals) \in Nat /\ DOMAIN proposals = 1..Len(proposals) /\ Len(proposals) <= MaxProposals
    BY LenProperties DEF GuInv, GuTypeOK
  <2> QED BY <2>1, GuidanceAssumption
<1>3. /\ approvals' \in Seq(Nat) /\ Len(approvals') = n + 1
      /\ \A j \in 1..n : approvals'[j] = approvals[j]
      /\ approvals'[n + 1] = i
  BY <1>1, <1>2, AppendProperties
<1>4. n \in Nat /\ DOMAIN approvals = 1..n /\ DOMAIN approvals' = 1..n + 1
  BY <1>1, <1>3, LenProperties
<1>5. \A j \in 1..n : approvals[j] # i
  BY <1>4 DEF ApproveGuidance, ToSet
<1> QED BY <1>1, <1>2, <1>3, <1>4, <1>5 DEF Last

LEMMA NextGuidance ==
  ASSUME GuInv, [GuNext]_guVars
  PROVE  GuInv'
<1>1. ASSUME NEW p \in Proposal, ProposeGuidance(p) PROVE GuInv'
  BY <1>1, ProposalAdded DEF GuInv, GuTypeOK, ApprovedOnce, ToSet
<1>2. ASSUME NEW i \in DOMAIN proposals, ApproveGuidance(i) PROVE GuInv'
  <2> DEFINE n == Len(approvals)
  <2>1. /\ n \in Nat /\ DOMAIN approvals = 1..n /\ DOMAIN approvals' = 1..n + 1
        /\ approvals' \in Seq(Nat) /\ Len(approvals') = n + 1
        /\ \A j \in 1..n : approvals'[j] = approvals[j] /\ approvals[j] # i
        /\ approvals'[n + 1] = i /\ proposals' = proposals
    BY <1>2, ApprovalAdded
  <2>2. ApprovedOnce'
    <3> SUFFICES ASSUME NEW j \in 1..n + 1, NEW k \in 1..n + 1, approvals'[j] = approvals'[k]
                 PROVE  j = k
      BY <2>1 DEF ApprovedOnce
    <3>1. j \in 1..n \/ j = n + 1
      BY <2>1
    <3>2. k \in 1..n \/ k = n + 1
      BY <2>1
    <3> QED BY <2>1, <3>1, <3>2 DEF GuInv, ApprovedOnce
  <2>3. \A j \in 1..n + 1 : approvals'[j] \in DOMAIN proposals
    <3> SUFFICES ASSUME NEW j \in 1..n + 1 PROVE approvals'[j] \in DOMAIN proposals
      OBVIOUS
    <3>1. j \in 1..n \/ j = n + 1
      BY <2>1
    <3>2. \A k \in 1..n : approvals[k] \in DOMAIN proposals
      BY <2>1 DEF GuInv, GuTypeOK, ToSet
    <3> QED BY <2>1, <3>1, <3>2
  <2>4. Len(approvals') <= MaxProposals
    <3> DEFINE f == [j \in 1..n + 1 |-> approvals'[j]]
               m == Len(proposals)
    <3>1. m \in Nat /\ DOMAIN proposals = 1..m /\ m <= MaxProposals
      BY LenProperties DEF GuInv, GuTypeOK
    <3>2. f \in Injection(1..n + 1, 1..m)
      BY <2>1, <2>2, <2>3, <3>1 DEF Injection, IsInjective, ApprovedOnce
    <3> HIDE DEF f, m
    <3>3. IsFiniteSet(1..m) /\ Cardinality(1..m) = m
      BY <3>1, UpTo
    <3>4. Cardinality(1..n + 1) = n + 1
      <4>1. n + 1 \in Nat
        BY <2>1
      <4> HIDE DEF n
      <4> QED BY <4>1, UpTo
    <3>5. Cardinality(1..n + 1) <= Cardinality(1..m)
      BY <3>2, <3>3, FS_Injection
    <3> QED BY <2>1, <3>1, <3>3, <3>4, <3>5, GuidanceAssumption
  <2> QED BY <2>1, <2>2, <2>3, <2>4 DEF GuInv, GuTypeOK, ToSet
<1>3. CASE UNCHANGED guVars
  BY <1>3 DEF guVars, GuInv, GuTypeOK, ApprovedOnce
<1> QED BY <1>1, <1>2, <1>3 DEF GuNext

LEMMA GuidanceInvariant == GuSpec => []GuInv
BY InitGuidance, NextGuidance, PTL DEF GuSpec

(* Proposals and approvals are well-typed.                                 *)
THEOREM GuidanceTypes == GuSpec => []GuTypeOK
BY GuidanceInvariant, PTL DEF GuInv

(* What a model is given, told by the last approvals of its sections.      *)
GivenLatest ==
  \A label \in AllLabels, s \in Sections :
    LET own == Latest(Approving("model", label, s))
        global == Latest(Approving("global", label, s))
    IN  Induction(label)[s] =
          IF own # NoText THEN own
          ELSE IF global # NoText THEN global
          ELSE IF s \in BaselineKeys THEN Baseline ELSE NoText

LEMMA InductionLatest == GuInv => GivenLatest
<1> SUFFICES ASSUME GuInv, NEW label \in AllLabels, NEW s \in Sections
             PROVE  LET own == Latest(Approving("model", label, s))
                        global == Latest(Approving("global", label, s))
                    IN  Induction(label)[s] =
                          IF own # NoText THEN own
                          ELSE IF global # NoText THEN global
                          ELSE IF s \in BaselineKeys THEN Baseline ELSE NoText
  BY DEF GivenLatest
<1>1. /\ Revisions("model", label)[s] = Latest(Approving("model", label, s))
      /\ Revisions("global", label)[s] = Latest(Approving("global", label, s))
  BY LastCounts DEF GuInv
<1> QED BY <1>1 DEF Induction

(* What is approved for a model is the last approval of the section, and   *)
(* one of the model's own if its scope is the model.                       *)
LEMMA LatestIsApproved ==
  ASSUME GuInv, NEW label \in AllLabels, NEW s \in Sections, NEW scope \in {"global", "model"}
  PROVE  LET I == Approving(scope, label, s)
         IN  /\ I = {} => Latest(I) = NoText
             /\ I # {} => /\ Latest(I) \in DOMAIN proposals /\ Latest(I) # NoText
                          /\ proposals[Latest(I)].scope = scope
                          /\ ApprovedFor(proposals[Latest(I)], label)
<1> DEFINE I == Approving(scope, label, s)
<1> SUFFICES ASSUME I # {}
             PROVE  /\ Latest(I) \in DOMAIN proposals /\ Latest(I) # NoText
                    /\ proposals[Latest(I)].scope = scope
                    /\ ApprovedFor(proposals[Latest(I)], label)
  BY DEF Latest
<1>1. Len(approvals) \in Nat /\ I \in SUBSET (1..Len(approvals))
  BY LenProperties DEF GuInv, ApprovedOnce, Approving
<1>2. Max(I) \in I
  <2> HIDE DEF I
  <2> QED BY <1>1, LastPosition
<1>3. Latest(I) = approvals[Max(I)]
  BY DEF Latest
<1>4. /\ Max(I) \in DOMAIN approvals
      /\ proposals[approvals[Max(I)]].scope = scope
      /\ ApprovedFor(proposals[approvals[Max(I)]], label)
  BY <1>2 DEF Approving
<1> HIDE DEF I
<1>5. Latest(I) \in DOMAIN proposals
  BY <1>3, <1>4 DEF GuInv, GuTypeOK, ToSet
<1>6. \A i \in DOMAIN proposals : i # NoText
  <2>1. Len(proposals) \in Nat /\ DOMAIN proposals = 1..Len(proposals) /\ Len(proposals) <= MaxProposals
    BY LenProperties DEF GuInv, GuTypeOK
  <2> QED BY <2>1, GuidanceAssumption DEF NoText
<1> QED BY <1>3, <1>4, <1>5, <1>6

(* What an approval does to the approvals of a section for a model.        *)
LEMMA LatestAfter ==
  ASSUME GuInv, NEW i \in DOMAIN proposals, ApproveGuidance(i),
         NEW label \in AllLabels, NEW s \in Sections, NEW scope \in {"global", "model"}
  PROVE  Latest(Approving(scope, label, s))' =
           IF /\ proposals[i].scope = scope /\ ApprovedFor(proposals[i], label)
              /\ proposals[i].section = s
           THEN i ELSE Latest(Approving(scope, label, s))
<1> DEFINE n == Len(approvals)
           I == Approving(scope, label, s)
           J == Approving(scope, label, s)'
           good == /\ proposals[i].scope = scope /\ ApprovedFor(proposals[i], label)
                   /\ proposals[i].section = s
<1>1. /\ n \in Nat /\ DOMAIN approvals = 1..n /\ DOMAIN approvals' = 1..n + 1
      /\ \A j \in 1..n : approvals'[j] = approvals[j]
      /\ approvals'[n + 1] = i /\ proposals' = proposals
  BY ApprovalAdded
<1>2. 1..n + 1 = 1..n \cup {n + 1} /\ n + 1 \notin 1..n /\ n + 1 \in Nat
  BY <1>1
<1>3. J = {j \in 1..n + 1 :
             /\ proposals[approvals'[j]].scope = scope
             /\ ApprovedFor(proposals[approvals'[j]], label)
             /\ proposals[approvals'[j]].section = s}
  BY <1>1 DEF Approving
<1>4. I = {j \in 1..n :
             /\ proposals[approvals[j]].scope = scope
             /\ ApprovedFor(proposals[approvals[j]], label)
             /\ proposals[approvals[j]].section = s}
  BY <1>1 DEF Approving
<1>5. J = IF good THEN I \cup {n + 1} ELSE I
  <2> HIDE DEF J, I, n
  <2> QED BY <1>1, <1>2, <1>3, <1>4
<1>6. Latest(I)' = IF J = {} THEN NoText ELSE approvals'[Max(J)]
  BY DEF Latest, NoText
<1>7. CASE good
  <2>1. J \in SUBSET (1..n + 1) /\ n + 1 \in J /\ \A y \in J : y <= n + 1
    BY <1>1, <1>2, <1>3, <1>5, <1>7
  <2> HIDE DEF J, n
  <2>2. Max(J) = n + 1
    BY <1>2, <2>1, OneIsLast
  <2> HIDE DEF I
  <2>3. Latest(I)' = i
    BY <1>1, <1>6, <2>1, <2>2
  <2> QED BY <1>7, <2>3 DEF I
<1>8. CASE ~good
  <2>1. J = I /\ I \in SUBSET (1..n)
    BY <1>4, <1>5, <1>8
  <2>2. I # {} => Max(I) \in 1..n
    <3> HIDE DEF I, n
    <3> QED BY <1>1, <2>1, LastPosition
  <2>3. Latest(I) = IF I = {} THEN NoText ELSE approvals[Max(I)]
    BY DEF Latest
  <2>4. Latest(I)' = Latest(I)
    <3> HIDE DEF I, J, n
    <3>1. CASE I = {}
      BY <1>6, <2>1, <2>3, <3>1
    <3>2. CASE I # {}
      BY <1>1, <1>6, <2>1, <2>2, <2>3, <3>2
    <3> QED BY <3>1, <3>2
  <2> QED BY <1>8, <2>4
<1> QED BY <1>7, <1>8

(* A proposal changes what no model is given.                              *)
LEMMA ProposalChangesNothing ==
  ASSUME GuInv, GivenLatest, GivenLatest', NEW p \in Proposal, ProposeGuidance(p),
         NEW label \in AllLabels, NEW s \in Sections
  PROVE  Induction(label)[s]' = Induction(label)[s]
<1>1. /\ DOMAIN proposals \subseteq DOMAIN proposals'
      /\ \A i \in DOMAIN proposals : proposals'[i] = proposals[i]
      /\ approvals' = approvals
  BY ProposalAdded DEF GuInv
<1>2. \A j \in DOMAIN approvals : approvals[j] \in DOMAIN proposals
  BY DEF GuInv, GuTypeOK, ToSet
<1>3. ASSUME NEW scope \in {"global", "model"}
      PROVE  Latest(Approving(scope, label, s))' = Latest(Approving(scope, label, s))
  <2>1. Approving(scope, label, s)' = Approving(scope, label, s)
    BY <1>1, <1>2 DEF Approving
  <2> QED BY <1>1, <2>1 DEF Latest, NoText
<1>4. /\ Latest(Approving("model", label, s))' = Latest(Approving("model", label, s))
      /\ Latest(Approving("global", label, s))' = Latest(Approving("global", label, s))
  BY <1>3
<1> QED BY <1>4 DEF GivenLatest, NoText, Baseline

(* What an approval may change.                                            *)
LEMMA ApprovalCounts ==
  ASSUME GuInv, GivenLatest, GivenLatest', NEW i \in DOMAIN proposals, ApproveGuidance(i),
         NEW label \in AllLabels, NEW s \in Sections
  PROVE  LET was == Induction(label)[s]
             is == Induction(label)'[s]
         IN  \/ is = was /\ ~Concerns(i, label, s)
             \/ is = i /\ Concerns(is, label, s) /\ is \in OwnOf(label)
             \/ is = i /\ Concerns(is, label, s) /\ was \notin OwnOf(label)
             \/ is = was /\ was \in OwnOf(label) /\ i \notin OwnOf(label)
<1> DEFINE was == Induction(label)[s]
           is == Induction(label)'[s]
           own == Latest(Approving("model", label, s))
           global == Latest(Approving("global", label, s))
           ownNow == IF /\ proposals[i].scope = "model" /\ ApprovedFor(proposals[i], label)
                        /\ proposals[i].section = s
                     THEN i ELSE own
           globalNow == IF /\ proposals[i].scope = "global" /\ ApprovedFor(proposals[i], label)
                           /\ proposals[i].section = s
                        THEN i ELSE global
           rest == IF s \in BaselineKeys THEN Baseline ELSE NoText
<1>1. was = IF own # NoText THEN own ELSE IF global # NoText THEN global ELSE rest
  BY DEF GivenLatest
<1>2. is = IF ownNow # NoText THEN ownNow ELSE IF globalNow # NoText THEN globalNow ELSE rest
  <2>1. /\ Latest(Approving("model", label, s))' = ownNow
        /\ Latest(Approving("global", label, s))' = globalNow
    BY LatestAfter
  <2> HIDE DEF ownNow, globalNow
  <2> QED BY <2>1 DEF GivenLatest, NoText, Baseline
<1>3. \A j \in DOMAIN proposals : j \in 1..MaxProposals /\ j # NoText /\ j # Baseline
  <2>1. Len(proposals) \in Nat /\ DOMAIN proposals = 1..Len(proposals) /\ Len(proposals) <= MaxProposals
    BY LenProperties DEF GuInv, GuTypeOK
  <2> QED BY <2>1, GuidanceAssumption DEF NoText, Baseline
<1>4. ASSUME NEW j \in DOMAIN proposals
      PROVE  j \in OwnOf(label) <=> proposals[j].scope = "model" /\ ApprovedFor(proposals[j], label)
  BY DEF OwnOf, ApprovedFor
<1>5. rest \notin OwnOf(label) /\ NoText \notin OwnOf(label)
  BY <1>3 DEF OwnOf
<1>6. own # NoText => own \in OwnOf(label)
  <2>1. own # NoText => /\ own \in DOMAIN proposals /\ proposals[own].scope = "model"
                        /\ ApprovedFor(proposals[own], label)
    BY LatestIsApproved
  <2> HIDE DEF own
  <2> QED BY <1>4, <2>1
<1>7. global # NoText => global \notin OwnOf(label)
  <2>1. global # NoText => proposals[global].scope = "global"
    BY LatestIsApproved
  <2> QED BY <2>1 DEF OwnOf
<1>8. Concerns(i, label, s) <=>
        /\ proposals[i].section = s
        /\ i \in OwnOf(label) \/ proposals[i].scope = "global"
  BY DEF Concerns
<1>9. proposals[i].scope = "global" => ApprovedFor(proposals[i], label) /\ i \notin OwnOf(label)
  BY DEF ApprovedFor, OwnOf
<1> HIDE DEF was, is, own, global, rest
<1>10. CASE proposals[i].section = s /\ i \in OwnOf(label)
  <2>1. is = i
    BY <1>2, <1>3, <1>4, <1>10
  <2> QED BY <1>8, <1>10, <2>1 DEF was, is
<1>11. CASE proposals[i].section = s /\ proposals[i].scope = "global"
  <2>1. ownNow = own /\ globalNow = i /\ i # NoText
    BY <1>3, <1>9, <1>11
  <2>2. CASE own # NoText
    <3>1. is = was /\ was \in OwnOf(label) /\ i \notin OwnOf(label)
      BY <1>1, <1>2, <1>6, <1>9, <1>11, <2>1, <2>2
    <3> QED BY <3>1 DEF was, is
  <2>3. CASE own = NoText
    <3>1. is = i /\ was \notin OwnOf(label)
      BY <1>1, <1>2, <1>5, <1>7, <2>1, <2>3
    <3> QED BY <1>8, <1>11, <3>1 DEF was, is
  <2> QED BY <2>2, <2>3
<1>12. CASE ~Concerns(i, label, s)
  <2>1. ownNow = own /\ globalNow = global
    BY <1>4, <1>8, <1>12
  <2>2. is = was
    BY <1>1, <1>2, <2>1
  <2> QED BY <1>12, <2>2 DEF was, is
<1> QED BY <1>8, <1>10, <1>11, <1>12

LEMMA GuidanceStep ==
  ASSUME GuInv, GivenLatest, GivenLatest', [GuNext]_guVars, guVars' # guVars,
         NEW label \in AllLabels, NEW s \in Sections
  PROVE  LET was == Induction(label)[s]
             is == Induction(label)'[s]
         IN  \/ is = was /\ (approvals' = approvals \/ ~Concerns(Last(approvals'), label, s))
             \/ is = Last(approvals') /\ Concerns(is, label, s) /\ is \in OwnOf(label)
             \/ is = Last(approvals') /\ Concerns(is, label, s) /\ was \notin OwnOf(label)
             \/ is = was /\ was \in OwnOf(label) /\ Last(approvals') \notin OwnOf(label)
<1>1. ASSUME NEW p \in Proposal, ProposeGuidance(p)
      PROVE  Induction(label)'[s] = Induction(label)[s] /\ approvals' = approvals
  BY <1>1, ProposalChangesNothing, ProposalAdded DEF GuInv
<1>2. ASSUME NEW i \in DOMAIN proposals, ApproveGuidance(i)
      PROVE  LET was == Induction(label)[s]
                 is == Induction(label)'[s]
             IN  \/ is = was /\ ~Concerns(Last(approvals'), label, s)
                 \/ is = Last(approvals') /\ Concerns(is, label, s) /\ is \in OwnOf(label)
                 \/ is = Last(approvals') /\ Concerns(is, label, s) /\ was \notin OwnOf(label)
                 \/ is = was /\ was \in OwnOf(label) /\ Last(approvals') \notin OwnOf(label)
  <2>1. Last(approvals') = i
    BY <1>2, ApprovalAdded
  <2> QED BY <1>2, <2>1, ApprovalCounts
<1> QED BY <1>1, <1>2 DEF GuNext, guVars

(* What a model is given changes by approvals alone, and by which; for any *)
(* sections, models, names of them, proposals and approvals.               *)
THEOREM OnlyApproved == GuSpec => GuidanceApproved
<1>1. /\ GuInv /\ GivenLatest /\ GivenLatest' /\ [GuNext]_guVars
      => [guVars' # guVars =>
            \A label \in Labels \cup {NoLabel}, s \in Sections :
              LET was == Induction(label)[s]
                  is == Induction(label)'[s]
              IN  \/ is = was /\ (approvals' = approvals \/ ~Concerns(Last(approvals'), label, s))
                  \/ is = Last(approvals') /\ Concerns(is, label, s) /\ is \in OwnOf(label)
                  \/ is = Last(approvals') /\ Concerns(is, label, s) /\ was \notin OwnOf(label)
                  \/ is = was /\ was \in OwnOf(label) /\ Last(approvals') \notin OwnOf(label)]_guVars
  BY GuidanceStep DEF AllLabels
<1> QED BY <1>1, GuidanceInvariant, InductionLatest, PTL DEF GuSpec, GuidanceApproved
=============================================================================
