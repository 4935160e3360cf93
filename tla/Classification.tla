--------------------------- MODULE Classification ---------------------------
(***************************************************************************)
(* The classification of subjects: app/services/classification.py, with    *)
(* the creation proposal (classification_proposals.py, ensure_subject in   *)
(* v2.py, migration 0025) and the dispute resolver (tg_ai_resolver.py).    *)
(*                                                                         *)
(* A subject is created under a type and its creator is recorded as the    *)
(* proposer of that type.  The first decision of a different client in the *)
(* round settles the proposal or disputes it.  A dispute is handed once,   *)
(* right after it has been committed, to the TG-AI resolver, which picks   *)
(* one of the positions.  A settled subject is locked until it is          *)
(* reopened; reopening restores the type the round started from and makes  *)
(* the reopening client the proposer of the next round.  Subjects without  *)
(* a proposal (rows of an earlier release) settle on two equal votes.      *)
(*                                                                         *)
(* An action is one database transaction.  The resolver is called between  *)
(* two of them: `offered' holds the positions it was sent, and requests of *)
(* another process (a redeploy runs the old and the new one side by side)  *)
(* may be served before its answer is applied.                             *)
(***************************************************************************)
EXTENDS Naturals

CONSTANTS
  Subjects,        \* rows of v2_subjects that share one canonical_key
  LegacySubjects,  \* those written by a release that kept no proposals
  Clients,         \* authenticated OAuth clients
  Resolver,        \* the client name "testgraph-resolver"
  NoClient,        \* a backfilled proposal of unknown origin
  Types,           \* semantic subject types
  NoType,          \* no type: a row or a proposal that is not there
  IsA,             \* active taxonomy edges, a set of <<child, parent>>
  Labels,          \* model labels a client can send
  TgLabels,        \* labels that start with "tg-ai:"
  ResolverLabel,   \* the label of the configured resolver model
  NoLabel,
  MaxVersion,      \* bound: rounds per subject
  ResolverMayFail  \* FALSE: every dispute handed to the resolver is answered

ASSUME SubjectsAssumption == LegacySubjects \subseteq Subjects
ASSUME ClientsAssumption == Resolver \notin Clients /\ NoClient \notin Clients
                            /\ NoClient # Resolver
ASSUME TypesAssumption == NoType \notin Types /\ IsA \subseteq Types \X Types
ASSUME LabelsAssumption == ResolverLabel \in TgLabels
                           /\ NoLabel \notin Labels \cup TgLabels
ASSUME VersionAssumption == MaxVersion \in Nat \ {0}
ASSUME ResolverAssumption == ResolverMayFail \in BOOLEAN

VARIABLES
  subject,     \* the rows of v2_subjects
  decisions,   \* the rows of subject_classification_decisions
  typeStatus,  \* the status column of subject_types
  offered      \* the positions sent to the resolver, {} if no call is open

vars == <<subject, decisions, typeStatus, offered>>

Voters   == Clients \cup {Resolver}
Versions == 1..MaxVersion
Statuses == {"provisional", "candidate", "disputed", "confirmed"}
Outcomes == {"none", "candidate", "confirmed", "ignored_locked",
             "rejected_resolver", "resolver_selected"}
Settling == {"confirmed", "resolver_selected"}

Row == [live : BOOLEAN, type : Types \cup {NoType}, status : Statuses,
        version : Versions, locked : BOOLEAN,
        proposal : Types \cup {NoType}, proposer : Clients \cup {NoClient}]

Decision == [from : Types \cup {NoType}, target : Types \cup {NoType},
             outcome : Outcomes, label : Labels \cup {ResolverLabel, NoLabel}]

TypeStatuses == {"provisional", "candidate", "confirmed"}

(* A row at the start of its round v.                                      *)
OpenRow(t, v, p, c) ==
  [live |-> TRUE, type |-> t, status |-> "provisional", version |-> v,
   locked |-> FALSE, proposal |-> p, proposer |-> c]

(* A row that does not exist, a decision nobody has made.                  *)
NoRow == [live |-> FALSE, type |-> NoType, status |-> "provisional",
          version |-> 1, locked |-> FALSE,
          proposal |-> NoType, proposer |-> NoClient]
NoDecision == [from |-> NoType, target |-> NoType,
               outcome |-> "none", label |-> NoLabel]
NoDecisions == [v \in Versions |-> [c \in Voters |-> NoDecision]]

-----------------------------------------------------------------------------
(* The taxonomy.  Strict descent through active edges.                     *)

Descends(t, a) ==
  \A S \in SUBSET Types :
    (\A e \in IsA : e[2] \in S \cup {a} => e[1] \in S) => t \in S

Narrows(t, a) == t = a \/ Descends(t, a)

(* State formulas the handlers compute.                                    *)

Round(s) == decisions[s][subject[s].version]

Active(s) == {c \in Voters : Round(s)[c].outcome = "candidate"}

Positions(s) == {Round(s)[c].target : c \in Active(s)}
                \cup ({subject[s].proposal} \ {NoType})

(* Another subject already has this type and the same canonical key.       *)
Taken(s, t) == \E r \in Subjects \ {s} : subject[r].live /\ subject[r].type = t

HasDecided(s, c) == Round(s)[c].outcome # "none"

(* What propose_reclassification and affirm_classification let through: a  *)
(* client repeats its own decision, or makes its first one, which in an    *)
(* unsettled round is the current type or a strict descendant of it.       *)
Admissible(s, c, t) ==
  /\ subject[s].live
  /\ IF HasDecided(s, c)
       THEN Round(s)[c].target = t
       ELSE subject[s].status = "confirmed" \/ Narrows(t, subject[s].type)

(* Mutant: a repeated decision is written over the first one.              *)
EnteredAgain(s, c, t, l, o) ==
  [Round(s) EXCEPT ![c] = [from |-> subject[s].type, target |-> t,
                           outcome |-> o, label |-> l]]

(* The round of s once c's decision is in it; a repeated one is kept.      *)
Entered(s, c, t, l, o) ==
  IF HasDecided(s, c) THEN Round(s)
  ELSE [Round(s) EXCEPT ![c] = [from |-> subject[s].type, target |-> t,
                                outcome |-> o, label |-> l]]

SetRound(s, r) == decisions' = [decisions EXCEPT ![s][subject[s].version] = r]

Raise(t) == typeStatus' = [typeStatus EXCEPT ![t] =
                             IF @ = "provisional" THEN "candidate" ELSE @]

(* Mutant: the type a subject is settled on is only raised.                *)
SettleOnRaised(s, t) ==
  /\ subject' = [subject EXCEPT ![s] = [@ EXCEPT !.type = t,
                                   !.status = "confirmed", !.locked = TRUE]]
  /\ Raise(t)

(* The row of s once it is settled on t.                                   *)
SettleOn(s, t) ==
  /\ subject' = [subject EXCEPT ![s] = [@ EXCEPT !.type = t,
                                   !.status = "confirmed", !.locked = TRUE]]
  /\ typeStatus' = [typeStatus EXCEPT ![t] = "confirmed"]

(* The hook that follows the commit of a new dispute: the resolver is sent *)
(* the positions, unless the request's label says it came from TG-AI.      *)
CallResolver(s, l, positions) ==
  offered' = IF l \in TgLabels THEN offered
             ELSE [offered EXCEPT ![s] = positions]
-----------------------------------------------------------------------------
(* Rows of an earlier release carry distinct types and no proposal.        *)
Init ==
  /\ \E kind \in [LegacySubjects -> Types] :
       /\ \A r, s \in LegacySubjects : kind[r] = kind[s] => r = s
       /\ subject = [s \in Subjects |-> IF s \in LegacySubjects
                                          THEN OpenRow(kind[s], 1, NoType, NoClient)
                                          ELSE NoRow]
  /\ decisions = [s \in Subjects |-> NoDecisions]
  /\ typeStatus = [t \in Types |-> "provisional"]
  /\ offered = [s \in Subjects |-> {}]

(* ensure_subject: the identity preflight refuses a second row for a       *)
(* canonical key; the creator is recorded as the proposer of the type.     *)
Create(s, c, t) ==
  /\ \A r \in Subjects : ~subject[r].live
  /\ subject' = [subject EXCEPT ![s] = OpenRow(t, 1, t, c)]
  /\ UNCHANGED <<decisions, typeStatus, offered>>

(* delete_owned_experience removes an orphaned subject; its decisions go   *)
(* with it, and an answer of the resolver finds no row to update.          *)
Delete(s) ==
  /\ subject[s].live
  /\ subject' = [subject EXCEPT ![s] = NoRow]
  /\ decisions' = [decisions EXCEPT ![s] = NoDecisions]
  /\ offered' = [offered EXCEPT ![s] = {}]
  /\ UNCHANGED typeStatus

(* Migration 0025 gives a row without a proposal one: its current type, on *)
(* behalf of the client that appears in the audit, if one does.            *)
Backfill(s, p) ==
  /\ subject[s].live /\ subject[s].proposal = NoType
  /\ subject' = [subject EXCEPT ![s] =
                   [@ EXCEPT !.proposal = subject[s].type, !.proposer = p]]
  /\ UNCHANGED <<decisions, typeStatus, offered>>

(* A decision on a locked subject is kept for the record only.             *)
IgnoreDecision(s, c, t, l) ==
  /\ Admissible(s, c, t) /\ subject[s].status = "confirmed"
  /\ ~HasDecided(s, c)
  /\ SetRound(s, Entered(s, c, t, l, "ignored_locked"))
  /\ UNCHANGED <<subject, typeStatus, offered>>

(* _settle_against_creation_proposal, branch by branch.  A repeated        *)
(* decision goes through it again.                                         *)
Proposed(s) == subject[s].proposal # NoType /\ subject[s].status # "confirmed"

JoinDispute(s, c, t, l) ==
  /\ Admissible(s, c, t) /\ Proposed(s) /\ subject[s].status = "disputed"
  /\ SetRound(s, Entered(s, c, t, l, "candidate"))
  /\ Raise(t)
  /\ UNCHANGED <<subject, offered>>

DecideOwnProposal(s, c, t, l) ==
  /\ Admissible(s, c, t) /\ Proposed(s) /\ subject[s].status # "disputed"
  /\ c = subject[s].proposer
  /\ SetRound(s, Entered(s, c, t, l, "candidate"))
  /\ subject' = [subject EXCEPT ![s].status = "candidate"]
  /\ Raise(t)
  /\ UNCHANGED offered

(* Mutants: the creator counts as a reviewer; a dispute can be confirmed.  *)
ConfirmOwnProposal(s, c, t, l) ==
  /\ Admissible(s, c, t) /\ Proposed(s) /\ subject[s].status # "disputed"
  /\ t = subject[s].proposal /\ ~Taken(s, t)
  /\ SetRound(s, [Entered(s, c, t, l, "candidate")
                    EXCEPT ![c].outcome = "confirmed"])
  /\ SettleOn(s, t)
  /\ UNCHANGED offered

ConfirmDisputed(s, c, t, l) ==
  /\ Admissible(s, c, t) /\ Proposed(s) /\ c # subject[s].proposer
  /\ t = subject[s].proposal /\ ~Taken(s, t)
  /\ SetRound(s, [Entered(s, c, t, l, "candidate")
                    EXCEPT ![c].outcome = "confirmed"])
  /\ SettleOn(s, t)
  /\ UNCHANGED offered

ConfirmProposal(s, c, t, l) ==
  /\ Admissible(s, c, t) /\ Proposed(s) /\ subject[s].status # "disputed"
  /\ c # subject[s].proposer
  /\ t = subject[s].proposal
  /\ ~Taken(s, t)
  /\ SetRound(s, [Entered(s, c, t, l, "candidate")
                    EXCEPT ![c].outcome = "confirmed"])
  /\ SettleOn(s, t)
  /\ UNCHANGED offered

(* Mutant: the creator can dispute its own proposal.                       *)
DisputeOwnProposal(s, c, t, l) ==
  /\ Admissible(s, c, t) /\ Proposed(s) /\ subject[s].status # "disputed"
  /\ t # subject[s].proposal
  /\ SetRound(s, Entered(s, c, t, l, "candidate"))
  /\ subject' = [subject EXCEPT ![s].status = "disputed"]
  /\ Raise(t)
  /\ CallResolver(s, l, Positions(s) \cup {t})

DisputeProposal(s, c, t, l) ==
  /\ Admissible(s, c, t) /\ Proposed(s) /\ subject[s].status # "disputed"
  /\ c # subject[s].proposer
  /\ t # subject[s].proposal
  /\ SetRound(s, Entered(s, c, t, l, "candidate"))
  /\ subject' = [subject EXCEPT ![s].status = "disputed"]
  /\ Raise(t)
  /\ CallResolver(s, l, Positions(s) \cup {t})

(* Without a proposal the first decisions are counted; a repeated one      *)
(* changes nothing.                                                        *)
Unproposed(s, c) ==
  /\ subject[s].proposal = NoType /\ subject[s].status # "confirmed"
  /\ ~HasDecided(s, c)

FirstPosition(s, c, t, l) ==
  /\ Admissible(s, c, t) /\ Unproposed(s, c)
  /\ Active(s) = {}
  /\ SetRound(s, Entered(s, c, t, l, "candidate"))
  /\ subject' = [subject EXCEPT ![s].status = "candidate"]
  /\ Raise(t)
  /\ UNCHANGED offered

AgreeUnproposed(s, c, t, l) ==
  /\ Admissible(s, c, t) /\ Unproposed(s, c)
  /\ Active(s) # {} /\ Positions(s) = {t}
  /\ ~Taken(s, t)
  /\ LET round == Entered(s, c, t, l, "candidate")
     IN  SetRound(s, [d \in Voters |->
                        IF round[d].outcome = "candidate"
                          THEN [round[d] EXCEPT !.outcome = "confirmed"]
                          ELSE round[d]])
  /\ SettleOn(s, t)
  /\ UNCHANGED offered

SplitUnproposed(s, c, t, l) ==
  /\ Admissible(s, c, t) /\ Unproposed(s, c)
  /\ Positions(s) \ {t} # {}
  /\ SetRound(s, Entered(s, c, t, l, "candidate"))
  /\ subject' = [subject EXCEPT ![s].status = "disputed"]
  /\ Raise(t)
  /\ IF subject[s].status = "disputed"
       THEN UNCHANGED offered
       ELSE CallResolver(s, l, Positions(s) \cup {t})

(* Mutants: a taken type is accepted; the proposal is no position.         *)
ArbitrableTaken(s, t) ==
  /\ subject[s].status = "disputed"
  /\ t \in Positions(s) /\ Positions(s) # {t}
  /\ \A c \in Voters : Round(s)[c].label # ResolverLabel

ArbitrableDecided(s, t) ==
  /\ subject[s].status = "disputed" /\ ~Taken(s, t)
  /\ \E c, d \in Active(s) :
       Round(s)[c].target = t /\ Round(s)[d].target # t
  /\ \A c \in Voters : Round(s)[c].label # ResolverLabel

(* The resolver's answer may be applied: it names one of at least two      *)
(* positions, the type is free, and no decision of the round carries the   *)
(* label of the resolver's own model.                                      *)
Arbitrable(s, t) ==
  /\ subject[s].status = "disputed"
  /\ t \in Positions(s) /\ Positions(s) # {t}
  /\ ~Taken(s, t)
  /\ \A c \in Voters : Round(s)[c].label # ResolverLabel

(* Mutant: every pending decision is marked confirmed.                     *)
ArbitrateForAll(s, t) ==
  /\ t \in offered[s] /\ Arbitrable(s, t)
  /\ SetRound(s, [c \in Voters |->
       IF c = Resolver
         THEN [from |-> subject[s].type, target |-> t,
               outcome |-> "resolver_selected", label |-> ResolverLabel]
       ELSE IF c \in Active(s)
         THEN [Round(s)[c] EXCEPT !.outcome = "confirmed"]
       ELSE Round(s)[c]])
  /\ SettleOn(s, t)
  /\ offered' = [offered EXCEPT ![s] = {}]

(* apply_resolver_arbitration.                                             *)
Arbitrate(s, t) ==
  /\ t \in offered[s] /\ Arbitrable(s, t)
  /\ SetRound(s, [c \in Voters |->
       IF c = Resolver
         THEN [from |-> subject[s].type, target |-> t,
               outcome |-> "resolver_selected", label |-> ResolverLabel]
       ELSE IF c \in Active(s)
         THEN [Round(s)[c] EXCEPT !.outcome =
                 IF Round(s)[c].target = t THEN "confirmed"
                 ELSE "rejected_resolver"]
       ELSE Round(s)[c]])
  /\ SettleOn(s, t)
  /\ offered' = [offered EXCEPT ![s] = {}]

(* The answer is refused and the refusal logged; the dispute stays.        *)
RefuseArbitration(s, t) ==
  /\ t \in offered[s] /\ ~Arbitrable(s, t)
  /\ offered' = [offered EXCEPT ![s] = {}]
  /\ UNCHANGED <<subject, decisions, typeStatus>>

(* The resolver is disabled, times out twice, answers nonsense, or the     *)
(* process ends while it waits.  Nothing calls it again for this dispute.  *)
ResolverFails(s) ==
  /\ ResolverMayFail /\ offered[s] # {}
  /\ offered' = [offered EXCEPT ![s] = {}]
  /\ UNCHANGED <<subject, decisions, typeStatus>>

(* Mutant: the settled type is kept.                                       *)
ReopenSettledType(s, c) ==
  /\ subject[s].live /\ subject[s].status = "confirmed"
  /\ subject[s].version < MaxVersion
  /\ subject' = [subject EXCEPT ![s] =
       OpenRow(subject[s].type, subject[s].version + 1, subject[s].type, c)]
  /\ UNCHANGED <<decisions, typeStatus, offered>>

(* reopen_classification: the round's settling decision says which type    *)
(* the round started from.  The table's uniqueness refuses a taken type.   *)
Reopen(s, c) ==
  /\ subject[s].live /\ subject[s].status = "confirmed"
  /\ subject[s].version < MaxVersion
  /\ \E d \in Voters :
       LET from == Round(s)[d].from
       IN  /\ Round(s)[d].outcome \in Settling
           /\ ~Taken(s, from)
           /\ subject' = [subject EXCEPT ![s] =
                            OpenRow(from, subject[s].version + 1, from, c)]
  /\ UNCHANGED <<decisions, typeStatus, offered>>

Propose(s, c, t, l) ==
  \/ IgnoreDecision(s, c, t, l)
  \/ JoinDispute(s, c, t, l)
  \/ DecideOwnProposal(s, c, t, l)
  \/ ConfirmProposal(s, c, t, l)
  \/ DisputeProposal(s, c, t, l)
  \/ FirstPosition(s, c, t, l)
  \/ AgreeUnproposed(s, c, t, l)
  \/ SplitUnproposed(s, c, t, l)

Next ==
  \E s \in Subjects :
    \/ \E c \in Clients, t \in Types : Create(s, c, t)
    \/ \E c \in Clients, t \in Types, l \in Labels : Propose(s, c, t, l)
    \/ \E t \in Types : Arbitrate(s, t) \/ RefuseArbitration(s, t)
    \/ \E p \in Clients \cup {NoClient} : Backfill(s, p)
    \/ \E c \in Clients : Reopen(s, c)
    \/ ResolverFails(s)
    \/ Delete(s)

Spec == Init /\ [][Next]_vars

(* Clients come back with decisions, and the process serves the resolver's *)
(* answer once it is there.                                                *)
Hook(s) == \E t \in Types : Arbitrate(s, t) \/ RefuseArbitration(s, t)

FairSpec ==
  /\ Spec
  /\ \A s \in Subjects :
       /\ WF_vars(Hook(s))
       /\ \A c \in Clients, t \in Types, l \in Labels :
            WF_vars(Propose(s, c, t, l))

-----------------------------------------------------------------------------
(* Types of the variables, and what an empty row is.                       *)
TypeOK ==
  /\ subject \in [Subjects -> Row]
  /\ decisions \in [Subjects -> [Versions -> [Voters -> Decision]]]
  /\ typeStatus \in [Types -> TypeStatuses]
  /\ offered \in [Subjects -> SUBSET Types]

(* A subject is locked exactly while it is confirmed.  The audit of its    *)
(* round then holds a settling decision, all of them chose the type it is  *)
(* filed under and all started from the same type: reopening finds the one *)
(* baseline it restores, however the decisions are ordered.                *)
Audited(s) ==
  /\ subject[s].locked <=> subject[s].status = "confirmed"
  /\ subject[s].locked =>
       /\ \E c \in Voters : Round(s)[c].outcome \in Settling
       /\ \A c, d \in Voters :
            (Round(s)[c].outcome \in Settling /\ Round(s)[d].outcome \in Settling)
              => /\ Round(s)[c].target = subject[s].type
                 /\ Round(s)[c].from = Round(s)[d].from

SettlementAudited == \A s \in Subjects : Audited(s)

(* p took part in the round and is on record for type t: by its decision,  *)
(* or as the proposer.                                                     *)
Holds(s, p, t) ==
  \/ /\ p \in Clients
     /\ Round(s)[p].outcome \notin {"none", "ignored_locked"}
     /\ Round(s)[p].target = t
  \/ p = subject[s].proposer /\ t = subject[s].proposal

Parties == Clients \cup {NoClient}

(* No client settles a classification alone: two different parties hold    *)
(* the settled type, or the resolver chose it between the different types  *)
(* of two different parties.                                               *)
Independent(s) ==
  subject[s].status = "confirmed" =>
    \E p, q \in Parties :
      /\ p # q /\ Holds(s, p, subject[s].type)
      /\ \/ Holds(s, q, subject[s].type)
         \/ /\ Round(s)[Resolver].outcome = "resolver_selected"
            /\ \E t \in Types \ {subject[s].type} : Holds(s, q, t)

SettlementIndependent == \A s \in Subjects : Independent(s)

(* A subject is disputed only while two different parties are on record    *)
(* for two different types, so the resolver always has two positions.      *)
Genuine(s) ==
  subject[s].status = "disputed" =>
    \E p, q \in Parties, t, u \in Types :
      p # q /\ t # u /\ Holds(s, p, t) /\ Holds(s, q, u)

DisputeIsGenuine == \A s \in Subjects : Genuine(s)

(* While the resolver is thinking nothing it was told goes stale: the      *)
(* subject stays disputed and every type it may name is still a position.  *)
OfferOpen(s) ==
  offered[s] # {} =>
    /\ subject[s].live /\ subject[s].status = "disputed"
    /\ offered[s] \subseteq Positions(s)

OfferStaysOpen == \A s \in Subjects : OfferOpen(s)

(* Rows that share a canonical key never share a type, whatever votes,     *)
(* arbitration and reopening do to their types.                            *)
UniqueIdentity ==
  \A r, s \in Subjects :
    (subject[r].live /\ subject[s].live /\ subject[r].type = subject[s].type)
      => r = s

(* The vocabulary has accepted the type every settled subject is filed     *)
(* under.                                                                  *)
SettledTypeAccepted ==
  \A s \in Subjects :
    subject[s].status = "confirmed" => typeStatus[subject[s].type] = "confirmed"

(* While a subject exists its audit is append-only: a closed round is      *)
(* never touched, a decision is never withdrawn or redirected, and only a  *)
(* pending one gets another outcome.                                       *)
AuditAppendOnly ==
  [][\A s \in Subjects, v \in Versions, c \in Voters :
       LET old == decisions[s][v][c]  new == decisions'[s][v][c]
       IN  (subject'[s].live /\ old.outcome # "none" /\ new # old) =>
             /\ v = subject[s].version
             /\ old.outcome = "candidate"
             /\ new.outcome \in {"confirmed", "rejected_resolver"}
             /\ new = [old EXCEPT !.outcome = new.outcome]]_vars

(* The inductive invariant adds what the handlers rely on.                 *)
(* A row that is not there has no history; one that is has a type.         *)
RowOK(s) ==
  IF subject[s].live
    THEN subject[s].type \in Types
    ELSE subject[s] = NoRow /\ decisions[s] = NoDecisions

(* Rounds that have not been opened are empty.                             *)
FutureEmpty(s) ==
  \A v \in Versions, c \in Voters :
    v > subject[s].version => decisions[s][v][c] = NoDecision

(* In an unsettled round every decision is pending, started from the       *)
(* current type and names it or a narrower one; the proposal is the        *)
(* current type.                                                           *)
OpenRoundOK(s) ==
  subject[s].status # "confirmed" =>
    /\ subject[s].proposal \in {NoType, subject[s].type}
    /\ ~HasDecided(s, Resolver)
    /\ \A c \in Voters : HasDecided(s, c) =>
         /\ Round(s)[c].outcome = "candidate"
         /\ Round(s)[c].from = subject[s].type
         /\ Round(s)[c].target \in Types
         /\ Narrows(Round(s)[c].target, subject[s].type)

(* A settled type is the round's starting type or narrower.                *)
SettledNarrows(s) ==
  \A c \in Voters :
    (subject[s].status = "confirmed" /\ Round(s)[c].outcome \in Settling) =>
      /\ Round(s)[c].from \in Types
      /\ Narrows(subject[s].type, Round(s)[c].from)

SubjectInv(s) ==
  /\ RowOK(s) /\ FutureEmpty(s) /\ OpenRoundOK(s)
  /\ Audited(s) /\ SettledNarrows(s)
  /\ Genuine(s) /\ Independent(s) /\ OfferOpen(s)

IInv ==
  /\ TypeOK
  /\ \A s \in Subjects : SubjectInv(s)
  /\ UniqueIdentity /\ SettledTypeAccepted

(* Every round is opened, settled and reopened as ClassificationRounds     *)
(* says: in particular the baseline of a subject never changes and its     *)
(* type is always the baseline or narrower.                                *)
Started(s) ==
  IF subject[s].status = "confirmed"
    THEN Round(s)[CHOOSE c \in Voters : Round(s)[c].outcome \in Settling].from
    ELSE subject[s].type

Phase(s) ==
  CASE ~subject[s].live                                   -> "absent"
    [] subject[s].live /\ subject[s].status # "confirmed" -> "open"
    [] subject[s].live /\ subject[s].status = "confirmed" -> "settled"

RoundNo(s) == IF subject[s].live THEN subject[s].version ELSE 0

Rounds == INSTANCE ClassificationRounds WITH
  phase    <- [s \in Subjects |-> Phase(s)],
  round    <- [s \in Subjects |-> RoundNo(s)],
  baseline <- [s \in Subjects |-> Started(s)],
  type     <- [s \in Subjects |-> subject[s].type]

ImplementsRounds == Rounds!Spec

(* If the resolver answers, a dispute does not last.                       *)
DisputeSettles ==
  \A s \in Subjects :
    subject[s].status = "disputed" ~> subject[s].status # "disputed"

(* What the resolver's design says of a resolver that fails: the subject   *)
(* is left disputed "for later resolution".                                *)
LaterResolution ==
  \A s \in Subjects :
    (subject[s].status = "disputed" /\ offered[s] = {})
      ~> subject[s].status # "disputed"
=============================================================================
