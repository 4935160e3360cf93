--------------------------- MODULE RequestsProofs ---------------------------
(* Proofs about Requests: every part behaves in it as it does alone, so    *)
(* that what is proved of one holds of the requests together.              *)
EXTENDS Requests, WritesProofs, ListsProofs

(* A request is to one part and leaves the rows of the others alone.       *)
LEMMA OnePart ==
  ASSUME RqNext
  PROVE  /\ part' = part
         /\ (part = "deliberations" /\ Next) \/ UNCHANGED vars
         /\ (part = "reviews" /\ RvNext) \/ UNCHANGED rvVars
         /\ (part = "grants" /\ GrNext) \/ UNCHANGED grVars
         /\ (part = "collections" /\ CoNext) \/ UNCHANGED coVars
         /\ (part = "manifests" /\ SmNext) \/ UNCHANGED smVars
         /\ (part = "vocabulary" /\ NaNext) \/ UNCHANGED naVars
         /\ (part = "search" /\ SeNext) \/ UNCHANGED seVars
         /\ (part = "guidance" /\ GuNext) \/ UNCHANGED guVars
         /\ (part = "imports" /\ ImNext) \/ UNCHANGED imVars
<1>1. CASE Deliberate
  BY <1>1 DEF Deliberate, Others
<1>2. CASE Review1
  BY <1>2 DEF Review1, Others
<1>3. CASE Grant
  BY <1>3 DEF Grant, Others
<1>4. CASE Collect
  BY <1>4 DEF Collect, Others
<1>5. CASE Check
  BY <1>5 DEF Check, Others
<1>6. CASE Navigate
  BY <1>6 DEF Navigate, Others
<1>7. CASE Seek
  BY <1>7 DEF Seek, Others
<1>8. CASE Induct
  BY <1>8 DEF Induct, Others
<1>9. CASE Import
  BY <1>9 DEF Import, Others
<1> QED BY <1>1, <1>2, <1>3, <1>4, <1>5, <1>6, <1>7, <1>8, <1>9 DEF RqNext

LEMMA PartSteps ==
  ASSUME [RqNext]_rqVars
  PROVE  /\ [Next]_vars /\ [RvNext]_rvVars /\ [GrNext]_grVars /\ [CoNext]_coVars
         /\ [SmNext]_smVars /\ [NaNext]_naVars /\ [SeNext]_seVars
         /\ [GuNext]_guVars /\ [ImNext]_imVars /\ part' = part
<1>1. CASE RqNext
  BY <1>1, OnePart
<1>2. CASE UNCHANGED rqVars
  BY <1>2 DEF rqVars
<1> QED BY <1>1, <1>2

LEMMA PartInits ==
  ASSUME RqInit
  PROVE  /\ part \in Part
         /\ Init /\ RvInit /\ GrInit /\ CoInit /\ SmInit /\ NaInit /\ SeInit
         /\ GuInit /\ ImInit
BY DEF RqInit

(* Each part's behaviour within the application is one of its own, so the  *)
(* composition implements the specification of every part.                 *)
THEOREM PartsAlone ==
  RqSpec => /\ Spec /\ RvSpec /\ GrSpec /\ CoSpec /\ SmSpec /\ NaSpec /\ SeSpec
            /\ GuSpec /\ ImSpec
<1>1. RqInit => /\ Init /\ RvInit /\ GrInit /\ CoInit /\ SmInit /\ NaInit /\ SeInit
                /\ GuInit /\ ImInit
  BY PartInits
<1>2. [RqNext]_rqVars =>
        /\ [Next]_vars /\ [RvNext]_rvVars /\ [GrNext]_grVars /\ [CoNext]_coVars
        /\ [SmNext]_smVars /\ [NaNext]_naVars /\ [SeNext]_seVars
        /\ [GuNext]_guVars /\ [ImNext]_imVars
  BY PartSteps
<1> QED BY <1>1, <1>2, PTL
        DEF RqSpec, Spec, RvSpec, GrSpec, CoSpec, SmSpec, NaSpec, SeSpec, GuSpec, ImSpec

(* Every variable of every part holds what it is declared to hold.         *)
THEOREM RequestTypes == RqSpec => []RqTypeOK
<1>1. RqSpec => [](part \in Part)
  <2>1. RqInit => part \in Part
    BY PartInits
  <2>2. part \in Part /\ [RqNext]_rqVars => (part \in Part)'
    BY PartSteps
  <2> QED BY <2>1, <2>2, PTL DEF RqSpec
<1>2. /\ part \in Part
      /\ TypeOK /\ RvTypeOK /\ GrTypeOK /\ CoTypeOK /\ SmTypeOK /\ NaTypeOK
      /\ SeTypeOK /\ GuTypeOK /\ ImTypeOK
      => RqTypeOK
  BY DEF RqTypeOK
<1> QED BY <1>1, <1>2, PartsAlone, DeliberationTypes, ReviewTypes, GrantTypes, CollectionTypes,
           ManifestTypes, NavigationTypes, SearchTypes, GuidanceTypes, ImportTypes, PTL

(* A client that is told there is no more, of a list, of the paths of a    *)
(* type or of the hits of a search, has been told all there was.           *)
THEOREM AllTold == RqSpec => []ToldAll
<1>1. PagesComplete /\ PathsComplete /\ SearchExhaustive => ToldAll
  BY DEF ToldAll
<1> QED BY <1>1, PartsAlone, PagedWhole, PathsAllFound, SearchesExhaust, PTL

(* What the runs of Requests check of single parts holds of all of them.   *)
THEOREM RequestsSafe ==
  RqSpec => /\ [](ClaimHolds /\ RecordTruthful /\ AnswersAgree /\ PublishedAsApproved)
            /\ [](GrantFaithful /\ OneLiveToken /\ ReferencesHold /\ AcceptedIsWalk /\ ImportWhole)
            /\ ClosedToNewCalls /\ GuidanceApproved
BY PartsAlone, ClaimsHold, RecordsTruthful, AnswersAlwaysAgree, PublishedIsApproved, GrantedFaithfully,
   OneTokenLives, ReferencesKept, AcceptedWalks, ImportedWhole, ResolvedIsClosed, OnlyApproved, PTL
=============================================================================
