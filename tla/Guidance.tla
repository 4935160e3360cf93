------------------------------ MODULE Guidance ------------------------------
(***************************************************************************)
(* The guidance a model is given: get_induction of app/services/           *)
(* guidance.py over the deliberations of one owner.                        *)
(*                                                                         *)
(* Guidance is sections under keys.  The server has a baseline of them; a  *)
(* deliberation may propose the text of a section, for every model or for  *)
(* one, and becomes part of what models are given when it is resolved,     *)
(* which takes the user's approval.                                        *)
(***************************************************************************)
EXTENDS Naturals, Sequences, SequencesExt

CONSTANTS
  Sections,        \* guidance keys
  BaselineKeys,    \* those the server has a text for
  Labels,          \* names models go by
  CanonicalModel,  \* the model each name is of: canonical_model
  NoLabel,         \* a proposal may name no model
  MaxProposals     \* bound

ASSUME GuidanceAssumption ==
  /\ BaselineKeys \subseteq Sections /\ DOMAIN CanonicalModel = Labels
  /\ NoLabel \notin Labels /\ MaxProposals \in Nat

VARIABLES
  proposals,   \* the deliberations, by created_at
  approvals    \* those that were resolved, by resolved_at

guVars == <<proposals, approvals>>

(* Of the context a client sends along only these matter; a scope that is  *)
(* neither, or another kind of context, counts for no guidance at all.     *)
Proposal == [section : Sections, scope : {"global", "model", "none"},
             target : Labels \cup {NoLabel}]

ProposalIds == 1..MaxProposals

(* The texts: a proposal's, the server's, or none.                         *)
Baseline == 0
NoText == MaxProposals + 1

-----------------------------------------------------------------------------
GuInit == proposals = <<>> /\ approvals = <<>>

ProposeGuidance(p) ==
  /\ Len(proposals) < MaxProposals
  /\ proposals' = Append(proposals, p)
  /\ UNCHANGED approvals

(* record_resolution, whose text is never empty.                           *)
ApproveGuidance(i) ==
  /\ i \notin ToSet(approvals)
  /\ approvals' = Append(approvals, i)
  /\ UNCHANGED proposals

GuNext ==
  \/ \E p \in Proposal : ProposeGuidance(p)
  \/ \E i \in DOMAIN proposals : ApproveGuidance(i)

GuSpec == GuInit /\ [][GuNext]_guVars

-----------------------------------------------------------------------------
(* Mutant: the names of the models are compared as they are.               *)
ApprovedForLabel(p, label) ==
  p.scope = "global" \/ (p.scope = "model" /\ p.target = label)

(* Whether a resolved proposal is guidance for the model a caller says it  *)
(* is: _approved_revision.                                                 *)
ApprovedFor(p, label) ==
  \/ p.scope = "global"
  \/ /\ p.scope = "model" /\ p.target # NoLabel /\ label # NoLabel
     /\ CanonicalModel[p.target] = CanonicalModel[label]

(* get_induction: the resolutions are gone through in order, the later one *)
(* of a section replaces the earlier one of its scope; then the model's    *)
(* revisions are laid over the global ones and those over the baseline.    *)
Revisions(scope, label) ==
  FoldLeft(LAMBDA texts, i :
             IF proposals[i].scope = scope /\ ApprovedFor(proposals[i], label)
             THEN [texts EXCEPT ![proposals[i].section] = i] ELSE texts,
           [s \in Sections |-> NoText], approvals)

Induction(label) ==
  LET global == Revisions("global", label)
      own == Revisions("model", label)
  IN  [s \in Sections |->
         CASE own[s] # NoText -> own[s]
           [] own[s] = NoText /\ global[s] # NoText -> global[s]
           [] OTHER -> IF s \in BaselineKeys THEN Baseline ELSE NoText]

-----------------------------------------------------------------------------
GuTypeOK ==
  /\ proposals \in Seq(Proposal) /\ Len(proposals) <= MaxProposals
  /\ ToSet(approvals) \subseteq DOMAIN proposals
  /\ Len(approvals) <= MaxProposals

OwnOf(label) ==
  {i \in DOMAIN proposals : proposals[i].scope = "model" /\ proposals[i].target # NoLabel
     /\ label # NoLabel /\ CanonicalModel[proposals[i].target] = CanonicalModel[label]}

Concerns(i, label, s) ==
  /\ proposals[i].section = s
  /\ i \in OwnOf(label) \/ proposals[i].scope = "global"

(* "A proposal is inactive until record_resolution succeeds" (app/services *)
(* /guidance.py): what a model is given for a section changes by an        *)
(* approval for every model or for this one and by nothing else; it is     *)
(* then what was approved, by whichever name the model asks; but what was  *)
(* approved for this model is not displaced by what is for every model.    *)
GuidanceApproved ==
  [][guVars' # guVars =>
       \A label \in Labels \cup {NoLabel}, s \in Sections :
         LET was == Induction(label)[s]
             is == Induction(label)'[s]
         IN  \/ is = was /\ (approvals' = approvals \/ ~Concerns(Last(approvals'), label, s))
             \/ is = Last(approvals') /\ Concerns(is, label, s) /\ is \in OwnOf(label)
             \/ is = Last(approvals') /\ Concerns(is, label, s) /\ was \notin OwnOf(label)
             \/ is = was /\ was \in OwnOf(label) /\ Last(approvals') \notin OwnOf(label)]_guVars
=============================================================================
