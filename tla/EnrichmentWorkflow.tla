------------------------- MODULE EnrichmentWorkflow -------------------------
(***************************************************************************)
(* The durable enrich_subject workflow around the classification of a      *)
(* subject: app/services/workflows.py, the MCP write handlers that gate on *)
(* it or finalize it (app/api/mcp_v2.py), and the middleware that brings   *)
(* it up to date after a tool call (mcp_v2_guidance_policy.py).            *)
(*                                                                         *)
(* A run is a copy of the classification's state: which state the subject  *)
(* is in and who has to act.  The write handlers refresh it inside their   *)
(* own transaction, the two decision tools do not: the middleware does so  *)
(* when it sees their response, in a transaction of its own, and between   *)
(* the two the requests of other clients are served.  Reopening refreshes  *)
(* nothing.                                                                *)
(*                                                                         *)
(* The classification actions are those of Classification, each joined     *)
(* with what the request around it leaves for the middleware to do.  The   *)
(* handlers and the middleware's step run on one event loop without a      *)
(* pause, so each of their transactions is one action.  The deployment is  *)
(* past migration 0025: no row is without a proposal.                      *)
(*                                                                         *)
(* A request comes from a person through a client.  Subjects and reviews   *)
(* belong to people, who write to and decide about what is theirs; the     *)
(* decisions are told apart by client, and a person may use several.       *)
(***************************************************************************)
EXTENDS Classification, Sequences, FiniteSets

CONSTANTS
  Users,        \* people with an account
  NoUser,       \* nobody: the owner of a row without one, the development key
  MaxRuns,      \* bound: workflow runs per subject
  MaxEnriched   \* bound: clients with an enrichment of a subject on record

ASSUME UsersAssumption == NoUser \notin Users
ASSUME RunsAssumption ==
  MaxRuns \in Nat \ {0} /\ MaxEnriched \in Nat /\ Subjects # {}

VARIABLES
  owner,      \* the subject's owner_id
  reviews,    \* who has a live review of the subject
  enriched,   \* the clients whose enrichments have an idempotency record
  runs,       \* the rows of workflow_runs, in the order of created_at
  request,    \* what is left of each client's request in flight
  lost        \* subjects with a run that a lost step has not brought up to date

wfVars == <<owner, reviews, enriched, runs, request, lost>>
allVars == <<vars, wfVars>>

RunStates == {"classification_review_required", "disputed", "completed"}
Actors == {"independent_model", "current_model", "resolver", "none"}
Run == [state : RunStates, actor : Actors]

(* A decision waiting for the resolver, a decision or an enrichment that   *)
(* the middleware has yet to see the response of.                          *)
Tools == {"none", "dispute", "decision", "enrichment"}
Idle == [tool |-> "none", on |-> CHOOSE s \in Subjects : TRUE]
Pending(tool, s) == [tool |-> tool, on |-> s]

(* Mutants: the state an earlier release had; a dispute is one more review. *)
DeriveSecondModel(r, active) ==
  IF r.status = "confirmed" THEN [state |-> "completed", actor |-> "none"]
  ELSE [state |-> "awaiting_second_model", actor |-> "independent_model"]

DeriveNoDispute(r, active) ==
  IF r.status = "confirmed" THEN [state |-> "completed", actor |-> "none"]
  ELSE [state |-> "classification_review_required",
        actor |-> "independent_model"]

(* _derive_state, of a row r whose round has `active' pending deciders.    *)
Derive(r, active) ==
  CASE r.status = "confirmed" -> [state |-> "completed", actor |-> "none"]
    [] r.status = "disputed"  -> [state |-> "disputed", actor |-> "resolver"]
    [] OTHER ->
         [state |-> "classification_review_required",
          actor |-> IF active # {} \/ r.proposer # NoClient
                      THEN "independent_model" ELSE "current_model"]

Derived(s) == Derive(subject[s], Active(s))

ActiveRuns(s) ==
  {i \in DOMAIN runs[s] : runs[s][i].state # "completed"}

(* _active_run: the latest of them.                                        *)
Latest(s) ==
  CHOOSE i \in ActiveRuns(s) : \A j \in ActiveRuns(s) : j <= i

(* Mutant: a run is resumed only if nothing has changed since.             *)
StartOrKeep(s, derived) ==
  /\ lost' = lost \ {s}
  /\ IF \E i \in ActiveRuns(s) : runs[s][i] = derived THEN UNCHANGED runs
     ELSE /\ Len(runs[s]) < MaxRuns
          /\ runs' = [runs EXCEPT ![s] = Append(@, derived)]

(* start_or_resume_enrichment_workflow.                                    *)
StartOrResume(s, derived) ==
  /\ lost' = lost \ {s}
  /\ IF ActiveRuns(s) # {}
       THEN runs' = [runs EXCEPT ![s][Latest(s)] = derived]
       ELSE /\ Len(runs[s]) < MaxRuns
            /\ runs' = [runs EXCEPT ![s] = Append(@, derived)]

(* Bound: a client has one such request in flight at a time.               *)
Free(c) == request[c].tool = "none"

Principals == Users \cup {NoUser}

(* Mutant: the decision tools look for the owner only.                     *)
MaySeeOwned(s, u) == owner[s] = u

(* _classification_subject finds the subject for u.                        *)
MaySee(s, u) == owner[s] = u \/ u \in reviews[s]

(* preflight_existing_subject_mutation lets the write through.             *)
MayMutate(s, u) ==
  \/ subject[s].status = "confirmed"
  \/ u # NoUser /\ (owner[s] = u \/ u \in reviews[s])

(* create_experience: the first review may make a subject its author's.    *)
Review(s, u) ==
  /\ reviews' = [reviews EXCEPT ![s] = @ \cup {u}]
  /\ \/ UNCHANGED owner
     \/ /\ owner[s] = NoUser /\ reviews[s] = {}
        /\ owner' = [owner EXCEPT ![s] = u]

-----------------------------------------------------------------------------
(* Rows of an earlier release: the migration recorded their type as the    *)
(* proposal of an unknown client.                                          *)
WfInit ==
  /\ \E kind \in [LegacySubjects -> Types] :
       /\ \A r, s \in LegacySubjects : kind[r] = kind[s] => r = s
       /\ subject = [s \in Subjects |->
            IF s \in LegacySubjects THEN OpenRow(kind[s], 1, kind[s], NoClient)
            ELSE NoRow]
  /\ decisions = [s \in Subjects |-> NoDecisions]
  /\ typeStatus = [t \in Types |-> "provisional"]
  /\ offered = [s \in Subjects |-> {}]
  /\ owner \in [Subjects -> Principals]
  /\ \A s \in Subjects \ LegacySubjects : owner[s] = NoUser
  /\ reviews = [s \in Subjects |-> {}]
  /\ enriched = [s \in Subjects |-> {}]
  /\ runs = [s \in Subjects |-> <<>>]
  /\ request = [c \in Clients |-> Idle]
  /\ lost = {}

(* save_experience on a subject that does not exist yet.                   *)
SaveNew(s, u, c, t) ==
  /\ Create(s, c, t)
  /\ owner' = [owner EXCEPT ![s] = u]
  /\ reviews' = [reviews EXCEPT ![s] = {u}]
  /\ StartOrResume(s, Derive(OpenRow(t, 1, t, c), {}))
  /\ UNCHANGED <<enriched, request>>

(* A subject that nobody reviews yet: part of the context of another one,  *)
(* or without an owner, put by the REST interface or as a place.  No run   *)
(* refers to a row that is new.                                            *)
CreateOnly(s, o, c, t) ==
  /\ Create(s, c, t)
  /\ owner' = [owner EXCEPT ![s] = o]
  /\ runs' = [runs EXCEPT ![s] = <<>>]
  /\ UNCHANGED <<reviews, enriched, request, lost>>

(* A review by the REST interface passes no gate and starts no run.        *)
PublishReview(s, u) ==
  /\ subject[s].live /\ Review(s, u)
  /\ UNCHANGED <<vars, enriched, runs, request, lost>>

(* save_experience on an existing subject: the gate, the review, and the   *)
(* finalize hook in one transaction.                                       *)
SaveReview(s, u) ==
  /\ subject[s].live /\ MayMutate(s, u) /\ Review(s, u)
  /\ StartOrResume(s, Derived(s))
  /\ UNCHANGED <<vars, enriched, request>>

(* enrich_subject: as above, and the middleware is to start or resume a    *)
(* run once more.                                                          *)
Enrich(s, u, c) ==
  /\ Free(c) /\ subject[s].live /\ MayMutate(s, u)
  /\ StartOrResume(s, Derived(s))
  /\ enriched' = [enriched EXCEPT ![s] = @ \cup {c}]
  /\ Cardinality(enriched'[s]) <= MaxEnriched
  /\ request' = [request EXCEPT ![c] = Pending("enrichment", s)]
  /\ UNCHANGED <<vars, owner, reviews>>

(* The same enrich_subject request again: the stored response is returned  *)
(* and the middleware treats it like the first one.                        *)
ReplayEnrich(s, c) ==
  /\ Free(c) /\ subject[s].live /\ c \in enriched[s]
  /\ request' = [request EXCEPT ![c] = Pending("enrichment", s)]
  /\ UNCHANGED <<vars, owner, reviews, enriched, runs, lost>>

(* The gate refuses a write, and commits the run that tells the client     *)
(* what has to happen first.                                               *)
Block(s, u) ==
  /\ subject[s].live /\ ~MayMutate(s, u)
  /\ StartOrResume(s, Derived(s))
  /\ UNCHANGED <<vars, owner, reviews, enriched, request>>

(* affirm_ and propose_subject_reclassification.  If the decision opened a *)
(* dispute the handler first waits for the resolver.                       *)
Decide(s, u, c, t, l) ==
  /\ Free(c) /\ MaySee(s, u) /\ Propose(s, c, t, l)
  /\ request' = [request EXCEPT ![c] =
       Pending(IF offered' # offered THEN "dispute" ELSE "decision", s)]
  /\ UNCHANGED <<owner, reviews, enriched, runs, lost>>

(* A decision repeated on a settled subject.                               *)
DecideAgain(s, u, c, t) ==
  /\ Free(c) /\ MaySee(s, u) /\ Admissible(s, c, t)
  /\ HasDecided(s, c) /\ subject[s].status = "confirmed"
  /\ request' = [request EXCEPT ![c] = Pending("decision", s)]
  /\ UNCHANGED <<vars, owner, reviews, enriched, runs, lost>>

(* Mutant: the handler's response is lost with an answer that is refused.  *)
DisputeEnded(s) ==
  request' = [c \in Clients |->
    IF request[c] = Pending("dispute", s)
      THEN IF subject'[s].status = "disputed" THEN Idle
           ELSE Pending("decision", s)
      ELSE request[c]]

(* The handler returns from the resolver.                                  *)
DisputeServed(s) ==
  request' = [c \in Clients |->
    IF request[c] = Pending("dispute", s) THEN Pending("decision", s)
    ELSE request[c]]

Answer(s, t) ==
  /\ Arbitrate(s, t) \/ RefuseArbitration(s, t)
  /\ DisputeServed(s)
  /\ UNCHANGED <<owner, reviews, enriched, runs, lost>>

NoAnswer(s) ==
  /\ ResolverFails(s)
  /\ DisputeServed(s)
  /\ UNCHANGED <<owner, reviews, enriched, runs, lost>>

(* Mutant: like the gate, it has nothing to do for a settled subject.      *)
SyncUnsettled(c) ==
  LET s == request[c].on
  IN  /\ request[c].tool = "decision"
      /\ IF ActiveRuns(s) = {} \/ subject[s].status = "confirmed"
           THEN UNCHANGED <<runs, lost>>
           ELSE StartOrResume(s, Derived(s))
      /\ request' = [request EXCEPT ![c] = Idle]
      /\ UNCHANGED <<vars, owner, reviews, enriched>>

(* _advance_workflow_after_tool: only a decision leaves a subject without  *)
(* an active run alone.                                                    *)
SyncDecision(c) ==
  LET s == request[c].on
  IN  /\ request[c].tool = "decision"
      /\ IF ActiveRuns(s) = {} THEN UNCHANGED <<runs, lost>>
         ELSE StartOrResume(s, Derived(s))
      /\ request' = [request EXCEPT ![c] = Idle]
      /\ UNCHANGED <<vars, owner, reviews, enriched>>

SyncEnrichment(c) ==
  LET s == request[c].on
  IN  /\ request[c].tool = "enrichment"
      /\ StartOrResume(s, Derived(s))
      /\ request' = [request EXCEPT ![c] = Idle]
      /\ UNCHANGED <<vars, owner, reviews, enriched>>

(* It fails and the failure is swallowed.                                  *)
SyncFails(c) ==
  /\ request[c].tool \in {"decision", "enrichment"}
  /\ request' = [request EXCEPT ![c] = Idle]
  /\ lost' = lost \cup {request[c].on}
  /\ UNCHANGED <<vars, owner, reviews, enriched, runs>>

(* The process ends: every request in flight is gone.                      *)
Crash ==
  /\ request' = [c \in Clients |-> Idle]
  /\ lost' = lost \cup {request[c].on : c \in {d \in Clients : ~Free(d)}}
  /\ offered' = [s \in Subjects |-> {}]
  /\ UNCHANGED <<subject, decisions, typeStatus, owner, reviews, enriched, runs>>

(* reopen_subject_classification.                                          *)
ReopenSubject(s, u, c) ==
  /\ MaySee(s, u) /\ Reopen(s, c)
  /\ UNCHANGED wfVars

(* delete_experience of a person's last review of the subject.  It may     *)
(* take the subject with it, and the subject its runs: if nobody else has  *)
(* a review and the subject is theirs, or was made with the review.        *)
DeleteReview(s, u) ==
  /\ subject[s].live /\ u \in reviews[s]
  /\ reviews' = [reviews EXCEPT ![s] = @ \ {u}]
  /\ UNCHANGED <<vars, owner, enriched, runs, request, lost>>

DeleteSubject(s, u) ==
  /\ Delete(s)
  /\ reviews[s] = {u} /\ owner[s] \in {u, NoUser}
  /\ reviews' = [reviews EXCEPT ![s] = {}]
  /\ owner' = [owner EXCEPT ![s] = NoUser]
  /\ enriched' = [enriched EXCEPT ![s] = {}]
  /\ runs' = [runs EXCEPT ![s] = <<>>]
  /\ request' = [d \in Clients |->
                   IF request[d].on = s THEN Idle ELSE request[d]]
  /\ lost' = lost \ {s}

WfNext ==
  \/ \E s \in Subjects, u \in Users :
       \/ PublishReview(s, u) \/ SaveReview(s, u)
       \/ DeleteReview(s, u) \/ DeleteSubject(s, u)
       \/ \E c \in Clients, t \in Types : SaveNew(s, u, c, t)
  \/ \E s \in Subjects, u \in Principals :
       \/ Block(s, u)
       \/ \E c \in Clients :
            \/ Enrich(s, u, c) \/ ReopenSubject(s, u, c)
            \/ \E t \in Types :
                 \/ CreateOnly(s, u, c, t) \/ DecideAgain(s, u, c, t)
                 \/ \E l \in Labels : Decide(s, u, c, t, l)
  \/ \E s \in Subjects, c \in Clients : ReplayEnrich(s, c)
  \/ \E s \in Subjects :
       NoAnswer(s) \/ \E t \in Types : Answer(s, t)
  \/ \E c \in Clients : SyncDecision(c) \/ SyncEnrichment(c) \/ SyncFails(c)
  \/ Crash

(* The middleware always sees the response of a handler that returns, and  *)
(* the resolver's call ends: it has a timeout.                             *)
WfSpec ==
  /\ WfInit /\ [][WfNext]_allVars
  /\ \A c \in Clients : WF_allVars(SyncDecision(c) \/ SyncEnrichment(c))
  /\ \A s \in Subjects : WF_allVars(NoAnswer(s) \/ \E t \in Types : Answer(s, t))

-----------------------------------------------------------------------------
(* Types of the variables.                                                 *)
WfTypeOK ==
  /\ TypeOK
  /\ owner \in [Subjects -> Principals]
  /\ reviews \in [Subjects -> SUBSET Users]
  /\ enriched \in [Subjects -> SUBSET Clients]
  /\ \A s \in Subjects : \A i \in DOMAIN runs[s] : runs[s][i] \in Run
  /\ request \in [Clients -> [tool : Tools, on : Subjects]]
  /\ lost \subseteq Subjects

(* Latest active run and subject disagree only while a request is in       *)
(* flight there.                                                           *)
Follows(s) ==
  ActiveRuns(s) # {} =>
    \/ runs[s][Latest(s)] = Derived(s)
    \/ \E c \in Clients : request[c].on = s /\ ~Free(c)

(* What a client reads from the active run of a subject is what the        *)
(* classification says: no interleaving of decisions, arbitration,         *)
(* reopening and writes leaves a run behind, except that one whose         *)
(* synchronisation got lost stays behind until the next write or decision  *)
(* on the subject repairs it.                                              *)
RunFollowsSubject == \A s \in Subjects : s \in lost \/ Follows(s)

(* The requests of one process never give a subject two active runs: the   *)
(* older one would not be looked at again.                                 *)
OneActiveRun ==
  \A s \in Subjects : \A i, j \in ActiveRuns(s) : i = j

(* The decision tools accept a first decision of client c from user u.     *)
MayDecide(s, u, c) ==
  MaySee(s, u) /\ ~HasDecided(s, c) /\ \E t \in Types : Admissible(s, c, t)

(* A run that asks for an independent model tells whoever may write to the *)
(* subject something they can do: through any client that is not the       *)
(* proposer's the decision is theirs to make, none of these clients has    *)
(* used its decision up, and the tools show them the subject.  For a       *)
(* subject without an owner and without a review there is no such person.  *)
HandoffOpen ==
  \A s \in Subjects :
    (subject[s].live /\ ActiveRuns(s) # {} /\ runs[s][Latest(s)] = Derived(s)
       /\ Derived(s).actor = "independent_model") =>
      \A u \in Users, c \in Clients \ {subject[s].proposer} :
        MayMutate(s, u) => MayDecide(s, u, c)

(* The run of a settled subject is completed, unless the subject is        *)
(* reopened first or the synchronisation gets lost.                        *)
SettledRunCompletes ==
  \A s \in Subjects :
    (subject[s].status = "confirmed" /\ ActiveRuns(s) # {})
      ~> \/ subject[s].status # "confirmed" \/ ActiveRuns(s) = {}
         \/ s \in lost
=============================================================================
