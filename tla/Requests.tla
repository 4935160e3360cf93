------------------------------ MODULE Requests ------------------------------
(***************************************************************************)
(* The requests TestGraph serves next to the classification, one part of   *)
(* the application at a time: `part' picks the one whose requests a        *)
(* behaviour is about, and the rows of the others stay as they begin.      *)
(* Steps of two parts are not interleaved.  Of their rows only those of    *)
(* deliberations meet: guidance is derived from them, and Guidance has     *)
(* resolved deliberations appear on its own, in any order.                 *)
(***************************************************************************)
EXTENDS Deliberation, ReviewsV1, Grants, Collections, SourceManifest,
        Navigation, Search, Guidance, RecipeImport

VARIABLE part

Part == {"deliberations", "reviews", "grants", "collections", "manifests",
         "vocabulary", "search", "guidance", "imports"}

rqVars == <<part, vars, rvVars, grVars, coVars, smVars, naVars, seVars,
            guVars, imVars>>

(* Rows that a request to part p leaves alone.                             *)
Others(p) ==
  /\ UNCHANGED part
  /\ IF p = "deliberations" THEN TRUE ELSE UNCHANGED vars
  /\ IF p = "reviews" THEN TRUE ELSE UNCHANGED rvVars
  /\ IF p = "grants" THEN TRUE ELSE UNCHANGED grVars
  /\ IF p = "collections" THEN TRUE ELSE UNCHANGED coVars
  /\ IF p = "manifests" THEN TRUE ELSE UNCHANGED smVars
  /\ IF p = "vocabulary" THEN TRUE ELSE UNCHANGED naVars
  /\ IF p = "search" THEN TRUE ELSE UNCHANGED seVars
  /\ IF p = "guidance" THEN TRUE ELSE UNCHANGED guVars
  /\ IF p = "imports" THEN TRUE ELSE UNCHANGED imVars

(* The parts a behaviour is not about stay as they begin, in one way.      *)
RqInit ==
  /\ part \in Part
  /\ Init /\ GuInit
  /\ RvInit /\ (part # "reviews" => ~overlap)
  /\ GrInit /\ (part # "grants" => ~parallel)
  /\ CoInit /\ (part # "collections" => ~beside /\ ~careful)
  /\ SmInit /\ (part # "manifests" => manifest = Found(<<CHOOSE u \in Urls : TRUE>>))
  /\ NaInit /\ (part # "vocabulary" => edges = {})
  /\ SeInit /\ (part # "search" => matching = OfBoth({}))
  /\ ImInit /\ (part # "imports" => dataset = CHOOSE d \in Datasets : TRUE)

Deliberate == part = "deliberations" /\ Next /\ Others(part)
Review1 == part = "reviews" /\ RvNext /\ Others(part)
Grant == part = "grants" /\ GrNext /\ Others(part)
Collect == part = "collections" /\ CoNext /\ Others(part)
Check == part = "manifests" /\ SmNext /\ Others(part)
Navigate == part = "vocabulary" /\ NaNext /\ Others(part)
Seek == part = "search" /\ SeNext /\ Others(part)
Induct == part = "guidance" /\ GuNext /\ Others(part)
Import == part = "imports" /\ ImNext /\ Others(part)

RqNext ==
  \/ Deliberate \/ Review1 \/ Grant \/ Collect \/ Check \/ Navigate
  \/ Seek \/ Induct \/ Import

RqSpec == RqInit /\ [][RqNext]_rqVars

-----------------------------------------------------------------------------
(* Types of the variables of every part.                                   *)
RqTypeOK ==
  /\ part \in Part
  /\ TypeOK /\ RvTypeOK /\ GrTypeOK /\ CoTypeOK /\ SmTypeOK /\ NaTypeOK
  /\ SeTypeOK /\ GuTypeOK /\ ImTypeOK

(* A client that is told there is no more, of a list, of the paths of a    *)
(* type or of the hits of a search, has been told all.                     *)
ToldAll == PagesComplete /\ PathsComplete /\ SearchExhaustive
=============================================================================
