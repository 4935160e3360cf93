----------------------------- MODULE Collections -----------------------------
(***************************************************************************)
(* Subjects, the collections they belong to and the reviews about them:    *)
(* save_experience, enrich_subject and delete_experience of                *)
(* app/api/mcp_v2.py over app/services/v2.py, with the subjects that REST  *)
(* clients ensure.                                                         *)
(*                                                                         *)
(* The first review of a member submits all members of the collection; the *)
(* server stores them as a manifest on the collection's subject and gives  *)
(* a reference, of the collection and the revision of its manifest, under  *)
(* which later reviews are checked without the members being sent again.   *)
(*                                                                         *)
(* A call of the MCP endpoint is one step.  put_subject of the REST API    *)
(* runs on a thread: it reads a subject, fills what is missing and writes  *)
(* the whole provenance back, of which the manifest is a part.             *)
(***************************************************************************)
EXTENDS Naturals, FiniteSets, Sequences, SequencesExt

CONSTANTS
  Groups,       \* subjects that collect others; the name names the subject
  Items,        \* subjects that are reviewed
  NoGroup,
  MaxRevision,  \* bounds
  MaxRefs,
  MaxReviewed,
  MaxGiven

ASSUME CollectionsAssumption ==
  /\ Groups \cap Items = {} /\ NoGroup \notin Groups
  /\ IsFiniteSet(Groups) /\ IsFiniteSet(Items)
  /\ MaxRevision \in Nat \ {0} /\ {MaxRefs, MaxReviewed, MaxGiven} \subseteq Nat

VARIABLES
  beside,      \* whether REST requests overlap other calls, fixed
  careful,     \* whether clients send what they mean, fixed
  subjects,    \* the rows of subjects that are there
  links,       \* subject_relationships, of an item and a collection
  manifests,   \* what is stored on each collection
  saved,       \* the reviews that are there, by created_at
  given,       \* the references that calls were answered with
  ensuring     \* the REST request in flight, with what it has read

coVars == <<beside, careful, subjects, links, manifests, saved, given, ensuring>>

Subjects == Groups \cup Items
(* Of the relationships of an item and a collection: one is a membership,  *)
(* as branch_of or member_of; there are others; there is none.             *)
Kinds == {"membership", "other"}

NoManifest == [revision |-> 0, members |-> {}, count |-> 0, named |-> NoGroup,
               complete |-> FALSE]

(* The count is that of the submitted refs, of which two may have resolved *)
(* to one member; named is the collection_name of the assessment.          *)
Stored == {NoManifest} \cup
  [revision : 1..MaxRevision, members : (SUBSET Items) \ {{}}, count : 2..MaxRefs,
   named : Groups, complete : BOOLEAN]

(* What a review keeps of a full assessment, count 0 if it had none.       *)
NoAssessment == [count |-> 0, named |-> NoGroup, complete |-> FALSE]
Assessment == {NoAssessment} \cup
  [count : 2..MaxRefs, named : Groups, complete : BOOLEAN]

ReviewRow == [about : Items, assessment : Assessment]

Reference == [of : Groups, revision : 1..MaxRevision, members : SUBSET Items,
              count : 2..MaxRefs, reused : BOOLEAN]

Quiet == [group |-> NoGroup, read |-> NoManifest]

-----------------------------------------------------------------------------
(* _collection_member_ids: what a membership relationship connects to g.   *)
MemberIds(ls, g) == {s \in Items : ls[s, g] = "membership"}

(* add_subject_relationship, of each pair: a row is never removed.         *)
Connected(pairs, kind) ==
  [p \in Items \X Groups |->
     IF p \in pairs /\ links[p] # "membership" THEN kind ELSE links[p]]

(* _legacy_collection_manifest: on a collection without a manifest, the    *)
(* newest review of a member with a full assessment that matches and that  *)
(* counts as many members as are connected stands for one.                 *)
Legacy(ls, g, named) ==
  LET Fits(r) == /\ r.assessment.count = Cardinality(MemberIds(ls, g))
                 /\ r.assessment.count # 0 /\ r.about \in MemberIds(ls, g)
                 /\ named # NoGroup => r.assessment.named = named
      newest == SelectLastInSeq(saved, Fits)
  IN  IF newest = 0 THEN NoManifest
      ELSE LET a == saved[newest].assessment
           IN  [revision |-> 1, members |-> MemberIds(ls, g), count |-> a.count,
                named |-> a.named, complete |-> a.complete]

(* Mutant: a manifest is read whatever has become of it.                   *)
StoredAsIs(ls, g, named) ==
  IF manifests[g] # NoManifest THEN manifests[g] ELSE Legacy(ls, g, named)

(* _stored_collection_manifest: only as long as its members are connected  *)
(* and are as many as were counted.                                        *)
StoredManifest(ls, g, named) ==
  LET state == IF manifests[g] # NoManifest THEN manifests[g] ELSE Legacy(ls, g, named)
  IN  IF /\ state.members # {} /\ state.members \subseteq MemberIds(ls, g)
         /\ Cardinality(state.members) = state.count
        THEN state ELSE NoManifest

(* _reuse_collection_manifest: what a call for a member may find on g,     *)
(* which it gives by id, or by name, or both; a name it supplies is        *)
(* compared, and so are a count and a revision, without which it finds the *)
(* same.                                                                   *)
Reusable(g) ==
  LET By(named) == StoredManifest(links, g, named)
  IN  {m \in {By(NoGroup)} \cup {By(n) : n \in {n \in Groups : By(n).named = n}} : m.complete}

-----------------------------------------------------------------------------
CoInit ==
  /\ beside \in BOOLEAN /\ careful \in BOOLEAN /\ ~(beside /\ careful)
  /\ subjects = {} /\ links = [p \in Items \X Groups |-> "none"]
  /\ manifests = [g \in Groups |-> NoManifest]
  /\ saved = <<>> /\ given = {}
  /\ ensuring = Quiet

(* The MCP endpoint serves one call after the other.                       *)
Served == beside \/ ensuring = Quiet

LiveReviews(s) == {i \in DOMAIN saved : saved[i].about = s}

(* create_experience.                                                      *)
Reviewed(s, assessment) ==
  /\ Len(saved) < MaxReviewed
  /\ saved' = Append(saved, [about |-> s, assessment |-> assessment])

(* The review of a save.  enrich_subject does the same for a subject that  *)
(* is there, and reviews nothing.                                          *)
Recorded(s, enrich, assessment) ==
  IF enrich THEN s \in subjects /\ UNCHANGED saved ELSE Reviewed(s, assessment)

GiveReference(g, m, reused) ==
  /\ Cardinality(given) < MaxGiven
  /\ given' = given \cup {[of |-> g, revision |-> m.revision, members |-> m.members,
                           count |-> m.count, reused |-> reused]}

(* ensure_subject_context: the subjects of the context are ensured, then   *)
(* its relationships.                                                      *)
Context(items, groups, kind) ==
  /\ subjects' = subjects \cup items \cup groups
  /\ links' = Connected(items \X groups, kind)

(* A member, checked against what is stored.  The context of the call may  *)
(* connect more items; what is stored after that is stored again, so that  *)
(* a manifest that was found on a review is one from then on.              *)
SaveReused(s, g, m, enrich) ==
  /\ Served /\ s \in m.members /\ {s, g} \subseteq subjects
  /\ \E more \in SUBSET Items, kind \in Kinds :
       /\ Context(more, {g}, kind)
       /\ LET now == StoredManifest(links', g, m.named)
          IN  IF now = NoManifest THEN UNCHANGED <<manifests, given>>
              ELSE /\ manifests' = [manifests EXCEPT ![g] = now]
                   /\ GiveReference(g, now, TRUE)
  /\ Recorded(s, enrich, NoAssessment)
  /\ UNCHANGED <<beside, careful, ensuring>>

(* _collection_subject_candidates: the subject of the id, or, without an   *)
(* id, the one that has the name.                                          *)
Candidates(id, named) == (IF id # NoGroup THEN {id} ELSE {named}) \cap subjects

(* The ids with which a full assessment is looked at: the one of a stored  *)
(* manifest that is to be refreshed, or of no subject; and none, by which  *)
(* a client may refresh whatever is stored under the name.                 *)
AssessedIds(named) ==
  {NoGroup} \cup
  {id \in Groups : \A g \in Candidates(id, named) : StoredManifest(links, g, named) # NoManifest}

(* _persist_collection_manifest, of submitted members.                     *)
Revised(g, members, count, named) ==
  [revision |-> manifests[g].revision + 1, members |-> members, count |-> count,
   named |-> named, complete |-> TRUE]

(* A full assessment without violations: the reviewed subject is among the *)
(* members, every ref counts once, and the context holds the collection,   *)
(* by its name, and connects it to every member by some relationship.      *)
Submittable(s, members, count) == s \in members /\ Cardinality(members) <= count

(* The manifest is stored on the subject of the id; if that subject is not *)
(* there the review is saved and nothing is stored.                        *)
SaveAssessed(s, id, named, members, count, kind, enrich) ==
  LET g == IF id # NoGroup THEN id ELSE named
      m == Revised(g, members, count, named)
  IN  /\ Served
      /\ Submittable(s, members, count)
      /\ careful => id \in {NoGroup, named} /\ count = Cardinality(members)
                    /\ kind = "membership"
      /\ Context(members, {named}, kind)
      /\ IF id \in {NoGroup} \cup subjects
           THEN /\ m.revision <= MaxRevision
                /\ manifests' = [manifests EXCEPT ![g] = m]
                /\ GiveReference(g, m, FALSE)
           ELSE UNCHANGED <<manifests, given>>
      /\ Recorded(s, enrich, [count |-> count, named |-> named, complete |-> TRUE])
      /\ UNCHANGED <<beside, careful, ensuring>>

SaveMember ==
  \E g \in Groups :
    \/ \E m \in Reusable(g) : \E s \in Items, enrich \in BOOLEAN : SaveReused(s, g, m, enrich)
    \/ \E id \in AssessedIds(g) :
         \E members \in SUBSET Items : \E s \in members, count \in 2..MaxRefs,
            kind \in Kinds, enrich \in BOOLEAN :
              SaveAssessed(s, id, g, members, count, kind, enrich)

(* An assessment as independent or unavailable: nothing of the save may    *)
(* speak of a collection, but a relationship of another kind may.          *)
SaveIndependent ==
  \E s \in Items, groups \in {{}} \cup {{g} : g \in Groups}, enrich \in BOOLEAN :
    /\ Served
    /\ Context({s}, groups, "other")
    /\ Recorded(s, enrich, NoAssessment)
    /\ UNCHANGED <<beside, careful, manifests, given, ensuring>>

(* A subject that no other review and no relationship needs.               *)
Orphan(i) ==
  /\ LiveReviews(saved[i].about) = {i}
  /\ \A g \in Groups : links[saved[i].about, g] = "none"

(* delete_owned_experience.  An orphan goes too if the caller wants that   *)
(* and it is the caller's: by its owner, or, without an owner, by having   *)
(* been created within seconds of the review.                              *)
DeleteReview ==
  \E i \in DOMAIN saved, mine \in BOOLEAN :
    LET gone == IF mine /\ Orphan(i) THEN {saved[i].about} ELSE {}
    IN  /\ Served
        /\ saved' = RemoveAt(saved, i)
        /\ subjects' = subjects \ gone
        /\ UNCHANGED <<beside, careful, links, manifests, given, ensuring>>

-----------------------------------------------------------------------------
(* POST /experiences takes the assessment as it is sent.                   *)
RestReview ==
  \E s \in subjects \cap Items, sent \in Assessment :
    /\ Served
    /\ Reviewed(s, sent)
    /\ UNCHANGED <<beside, careful, subjects, links, manifests, given, ensuring>>

(* put_subject of an identity that is not there.                           *)
RestCreate ==
  \E s \in Subjects \ subjects :
    /\ Served
    /\ subjects' = subjects \cup {s}
    /\ UNCHANGED <<beside, careful, links, manifests, saved, given, ensuring>>

(* And of a collection that is: ensure_subject merges what it has read     *)
(* with a fact that is missing, and commits the provenance it has merged.  *)
RestRead ==
  \E g \in Groups \cap subjects :
    /\ ensuring = Quiet
    /\ ensuring' = [group |-> g, read |-> manifests[g]]
    /\ UNCHANGED <<beside, careful, subjects, links, manifests, saved, given>>

RestCommit ==
  /\ ensuring # Quiet
  /\ manifests' = [manifests EXCEPT ![ensuring.group] = ensuring.read]
  /\ ensuring' = Quiet
  /\ UNCHANGED <<beside, careful, subjects, links, saved, given>>

CoNext ==
  \/ SaveMember \/ SaveIndependent \/ DeleteReview
  \/ RestReview \/ RestCreate \/ RestRead \/ RestCommit

CoSpec == CoInit /\ [][CoNext]_coVars

-----------------------------------------------------------------------------
CoTypeOK ==
  /\ beside \in BOOLEAN /\ careful \in BOOLEAN
  /\ subjects \subseteq Subjects
  /\ links \in [Items \X Groups -> Kinds \cup {"none"}]
  /\ \A p \in DOMAIN links : links[p] # "none" => {p[1], p[2]} \subseteq subjects
  /\ manifests \in [Groups -> Stored]
  /\ saved \in Seq(ReviewRow) /\ \A i \in DOMAIN saved : saved[i].about \in subjects
  /\ given \subseteq Reference
  /\ ensuring = Quiet \/ (ensuring.group \in Groups /\ ensuring.read \in Stored)

(* A reference names one list of members: no two calls were answered with  *)
(* the same collection and revision for different members.                 *)
ReferencesAgree ==
  ~beside => \A q, r \in given :
    q.of = r.of /\ q.revision = r.revision => q.members = r.members

(* The members a review was checked against are there and are connected to *)
(* the collection, as many as counted; and they stay.  So it is with the   *)
(* members of a submission if the client named the collection it meant and *)
(* counted every member once.                                              *)
ReferenceStands ==
  \A r \in given :
    r.reused \/ careful =>
      /\ r.members \subseteq MemberIds(links, r.of) \cap subjects
      /\ Cardinality(r.members) = r.count

(* What a reference promises to later calls: one list of members, all of   *)
(* them connected for good.                                                *)
ReferencesHold == ReferencesAgree /\ ReferenceStands
=============================================================================
