---------------------- MODULE EnrichmentWorkflowProofs ----------------------
(***************************************************************************)
(* Proofs about EnrichmentWorkflow, for any set of subjects, people, clients,*)
(* types and edges and any bounds on rounds and runs.                      *)
(*                                                                         *)
(* The requests around the classification keep its inductive invariant,    *)
(* and each subject stays tracked: it has one active run, which says what  *)
(* the subject says unless somebody is about to bring it up to date.       *)
(***************************************************************************)
EXTENDS EnrichmentWorkflow, ClassificationProofs

USE DEF Voters, Versions

(* A request of somebody is under way on s.                                *)
Busy(s) == \E c \in Clients : request[c].on = s /\ ~Free(c)

(* Every active run of s, of which there is one, shows its state.          *)
Shown(s) == \A i \in ActiveRuns(s) : runs[s][i] = Derived(s)

(* A subject that is there has a proposal, and until it is disputed or     *)
(* settled nobody but the proposer has decided in its round.               *)
Reviewable(s) ==
  subject[s].live =>
    /\ subject[s].proposal # NoType
    /\ subject[s].status \in {"provisional", "candidate"} =>
         \A c \in Clients : HasDecided(s, c) => c = subject[s].proposer

Tracked(s) ==
  /\ \A i, j \in ActiveRuns(s) : i = j
  /\ s \in lost \/ Shown(s) \/ Busy(s)
  /\ offered[s] # {} => \E c \in Clients : request[c] = Pending("dispute", s)
  /\ Reviewable(s)

(* As WfTypeOK, with the runs as sequences.                                *)
ClientsTyped ==
  /\ owner \in [Subjects -> Principals]
  /\ reviews \in [Subjects -> SUBSET Users]
  /\ enriched \in [Subjects -> SUBSET Clients]
  /\ request \in [Clients -> [tool : Tools, on : Subjects]]

RunsTyped ==
  /\ runs \in [Subjects -> Seq(Run)]
  /\ lost \subseteq Subjects

WfInv ==
  /\ IInv /\ ClientsTyped /\ RunsTyped
  /\ \A s \in Subjects : Tracked(s)

-----------------------------------------------------------------------------
LEMMA PendingType ==
  /\ Idle \in [tool : Tools, on : Subjects] /\ Idle.tool = "none"
  /\ \A tool \in Tools, s \in Subjects :
       /\ Pending(tool, s) \in [tool : Tools, on : Subjects]
       /\ Pending(tool, s).tool = tool /\ Pending(tool, s).on = s
BY RunsAssumption DEF Idle, Pending, Tools

LEMMA DerivedType ==
  ASSUME TypeOK, NEW s \in Subjects
  PROVE  Derived(s) \in Run
BY RoundType DEF Derived, Derive, Run, RunStates, Actors, Row, Statuses

(* What is derived for a row that has just been created.                   *)
LEMMA NewRun ==
  ASSUME NEW s \in Subjects, NEW c \in Clients, NEW t \in Types
  PROVE  Derive(OpenRow(t, 1, t, c), {}) \in Run
BY ClientsAssumption DEF Derive, OpenRow, Run, RunStates, Actors

(* Starting or resuming a run leaves one, or none, that shows d.           *)
LEMMA Resumed ==
  ASSUME runs \in [Subjects -> Seq(Run)], NEW s \in Subjects, NEW d \in Run,
         \A i, j \in ActiveRuns(s) : i = j,
         StartOrResume(s, d)
  PROVE  /\ runs' \in [Subjects -> Seq(Run)]
         /\ \A r \in Subjects \ {s} : runs'[r] = runs[r]
         /\ \A i, j \in ActiveRuns(s)' : i = j
         /\ \A i \in ActiveRuns(s)' : runs'[s][i] = d
         /\ lost' = lost \ {s}
<1>1. /\ ActiveRuns(s) = {i \in DOMAIN runs[s] : runs[s][i].state # "completed"}
      /\ ActiveRuns(s)' = {i \in DOMAIN runs'[s] : runs'[s][i].state # "completed"}
      /\ runs[s] \in Seq(Run) /\ DOMAIN runs[s] = 1..Len(runs[s]) /\ Len(runs[s]) \in Nat
      /\ lost' = lost \ {s}
  BY DEF ActiveRuns, StartOrResume
<1>2. CASE ActiveRuns(s) # {}
  <2>1. PICK k \in ActiveRuns(s) : ActiveRuns(s) = {k}
    BY <1>2
  <2>2. k \in 1..Len(runs[s]) /\ k <= k
    BY <1>1, <2>1
  <2>3. Latest(s) = k
    BY <2>1, <2>2 DEF Latest
  <2>4. runs' = [runs EXCEPT ![s] = [runs[s] EXCEPT ![k] = d]]
    BY <1>2, <2>3 DEF StartOrResume
  <2>5. PICK rs : rs = [runs[s] EXCEPT ![k] = d]
    OBVIOUS
  <2>6. /\ rs \in Seq(Run) /\ DOMAIN rs = DOMAIN runs[s] /\ rs[k] = d
        /\ \A i \in DOMAIN rs : i # k => rs[i] = runs[s][i]
    BY <1>1, <2>2, <2>5
  <2>7. /\ runs'[s] = rs /\ runs' \in [Subjects -> Seq(Run)]
        /\ \A r \in Subjects \ {s} : runs'[r] = runs[r]
    BY <2>4, <2>5, <2>6
  <2>8. ActiveRuns(s)' \subseteq {k}
    BY <1>1, <2>1, <2>6, <2>7
  <2> QED BY <1>1, <2>6, <2>7, <2>8
<1>3. CASE ActiveRuns(s) = {}
  <2>1. runs' = [runs EXCEPT ![s] = Append(runs[s], d)]
    BY <1>3 DEF StartOrResume
  <2>2. PICK rs : rs = Append(runs[s], d)
    OBVIOUS
  <2>3. /\ rs \in Seq(Run) /\ DOMAIN rs = 1..Len(runs[s]) + 1
        /\ rs[Len(runs[s]) + 1] = d
        /\ \A i \in 1..Len(runs[s]) : rs[i] = runs[s][i]
    BY <1>1, <2>2
  <2>4. /\ runs'[s] = rs /\ runs' \in [Subjects -> Seq(Run)]
        /\ \A r \in Subjects \ {s} : runs'[r] = runs[r]
    BY <2>1, <2>2, <2>3
  <2>5. ActiveRuns(s)' \subseteq {Len(runs[s]) + 1}
    BY <1>1, <1>3, <2>3, <2>4
  <2> QED BY <1>1, <2>3, <2>4, <2>5
<1> QED BY <1>2, <1>3

(* A step that leaves the rows of r alone, and the requests that are under *)
(* way on it.                                                              *)
LEMMA OtherTracked ==
  ASSUME NEW r \in Subjects, Tracked(r),
         subject'[r] = subject[r], decisions'[r] = decisions[r],
         offered'[r] = offered[r], runs'[r] = runs[r],
         r \in lost => r \in lost',
         \A c \in Clients : (request[c].on = r /\ ~Free(c)) => request'[c] = request[c]
  PROVE  Tracked(r)'
<1>1. Round(r)' = Round(r)
  BY DEF Round
<1>2. ActiveRuns(r)' = ActiveRuns(r)
  BY DEF ActiveRuns
<1>3. Derived(r)' = Derived(r)
  <2>1. Active(r)' = Active(r)
    BY <1>1 DEF Active
  <2> QED BY <2>1 DEF Derived
<1>4. Busy(r) => Busy(r)'
  BY DEF Busy, Free
<1>5. Shown(r) => Shown(r)'
  BY <1>2, <1>3 DEF Shown
<1>6. Reviewable(r)'
  BY <1>1 DEF Tracked, Reviewable, HasDecided
<1>7. offered'[r] # {} => \E c \in Clients : request'[c] = Pending("dispute", r)
  <2>1. ASSUME NEW c \in Clients, request[c] = Pending("dispute", r)
        PROVE  request'[c] = request[c]
    BY <2>1, PendingType DEF Free, Pending
  <2> QED BY <2>1 DEF Tracked
<1> QED BY <1>2, <1>4, <1>5, <1>6, <1>7 DEF Tracked, Pending
(* A request that is under way and not on s stays as it is.                *)
KeepsOthers(s) ==
  \A c \in Clients : (~Free(c) /\ request[c].on # s) => request'[c] = request[c]

(* A step about one subject.                                               *)
LEMMA OneTracked ==
  ASSUME WfInv, NEW s \in Subjects,
         IInv', ClientsTyped', RunsTyped', Tracked(s)', KeepsOthers(s),
         \A r \in Subjects \ {s} :
           /\ subject'[r] = subject[r] /\ decisions'[r] = decisions[r]
           /\ offered'[r] = offered[r] /\ runs'[r] = runs[r]
           /\ r \in lost => r \in lost'
  PROVE  WfInv'
<1>1. ASSUME NEW r \in Subjects \ {s} PROVE Tracked(r)'
  BY OtherTracked DEF WfInv, KeepsOthers
<1> QED BY <1>1 DEF WfInv

(* A step that writes no row but what the requests do for their clients.   *)
LEMMA RequestsOnly ==
  ASSUME WfInv, ClientsTyped', UNCHANGED <<vars, runs, lost>>,
         \A c \in Clients : ~Free(c) => request'[c] = request[c]
  PROVE  WfInv'
<1>1. IInv'
  BY StepInv DEF WfInv
<1>2. ASSUME NEW r \in Subjects PROVE Tracked(r)'
  BY OtherTracked DEF WfInv, vars
<1>3. RunsTyped'
  BY DEF WfInv, RunsTyped
<1> QED BY <1>1, <1>2, <1>3 DEF WfInv

(* A step that writes the run of s down from the row of s.                 *)
LEMMA RunWritten ==
  ASSUME WfInv, NEW s \in Subjects, ClientsTyped', UNCHANGED vars,
         StartOrResume(s, Derived(s)), KeepsOthers(s),
         \A c \in Clients : request[c] = Pending("dispute", s) => request'[c] = request[c]
  PROVE  WfInv'
<1>1. IInv' /\ TypeOK /\ Tracked(s)
  BY StepInv DEF WfInv, IInv
<1>2. Derived(s) \in Run /\ Derived(s)' = Derived(s)
  BY <1>1, DerivedType DEF Derived, Active, Round, vars
<1>3. /\ runs' \in [Subjects -> Seq(Run)]
      /\ \A r \in Subjects \ {s} : runs'[r] = runs[r]
      /\ \A i, j \in ActiveRuns(s)' : i = j
      /\ \A i \in ActiveRuns(s)' : runs'[s][i] = Derived(s)
      /\ lost' = lost \ {s}
  BY <1>1, <1>2, Resumed DEF WfInv, RunsTyped, Tracked
<1>4. Shown(s)'
  BY <1>2, <1>3 DEF Shown
<1>5. Reviewable(s)'
  BY <1>1 DEF Tracked, Reviewable, HasDecided, Round, vars
<1>6. offered'[s] # {} => \E c \in Clients : request'[c] = Pending("dispute", s)
  BY <1>1 DEF Tracked, vars
<1>7. Tracked(s)'
  BY <1>3, <1>4, <1>5, <1>6 DEF Tracked, Pending
<1>8. RunsTyped'
  BY <1>3 DEF WfInv, RunsTyped
<1> QED BY <1>1, <1>3, <1>7, <1>8, OneTracked DEF vars

-----------------------------------------------------------------------------
(* The writes.                                                             *)
LEMMA Reviewed ==
  ASSUME ClientsTyped, NEW s \in Subjects, NEW u \in Users, Review(s, u)
  PROVE  /\ reviews' \in [Subjects -> SUBSET Users]
         /\ owner' \in [Subjects -> Principals]
BY DEF ClientsTyped, Review, Principals

LEMMA WriteInv ==
  ASSUME WfInv, NEW s \in Subjects,
         \/ \E u \in Users : SaveReview(s, u)
         \/ \E u \in Principals : Block(s, u)
  PROVE  WfInv'
<1>1. /\ UNCHANGED <<vars, enriched, request>>
      /\ StartOrResume(s, Derived(s))
  BY DEF SaveReview, Block
<1>2. ClientsTyped'
  <2>1. /\ reviews' \in [Subjects -> SUBSET Users]
        /\ owner' \in [Subjects -> Principals]
    BY Reviewed DEF WfInv, ClientsTyped, SaveReview, Block
  <2> QED BY <1>1, <2>1 DEF WfInv, ClientsTyped
<1> QED BY <1>1, <1>2, RunWritten DEF KeepsOthers

LEMMA EnrichInv ==
  ASSUME WfInv, NEW s \in Subjects, NEW u \in Principals, NEW c \in Clients,
         Enrich(s, u, c)
  PROVE  WfInv'
<1>1. /\ UNCHANGED vars /\ StartOrResume(s, Derived(s)) /\ Free(c)
      /\ request' = [request EXCEPT ![c] = Pending("enrichment", s)]
  BY DEF Enrich
<1>2. ClientsTyped'
  BY PendingType DEF WfInv, ClientsTyped, Enrich, Tools
<1>3. \A d \in Clients : ~Free(d) => request'[d] = request[d]
  BY <1>1 DEF WfInv, ClientsTyped
<1>4. \A d \in Clients : request[d] = Pending("dispute", s) => ~Free(d)
  BY DEF Free, Pending
<1> QED BY <1>1, <1>2, <1>3, <1>4, RunWritten DEF KeepsOthers

(* Reviews that come and go without a run.                                 *)
LEMMA ReviewsInv ==
  ASSUME WfInv, NEW s \in Subjects, NEW u \in Users,
         PublishReview(s, u) \/ DeleteReview(s, u)
  PROVE  WfInv'
<1>1. UNCHANGED <<vars, enriched, runs, request, lost>>
  BY DEF PublishReview, DeleteReview
<1>2. ClientsTyped'
  <2>1. /\ reviews' \in [Subjects -> SUBSET Users]
        /\ owner' \in [Subjects -> Principals]
    BY Reviewed DEF WfInv, ClientsTyped, PublishReview, DeleteReview
  <2> QED BY <1>1, <2>1 DEF WfInv, ClientsTyped
<1> QED BY <1>1, <1>2, RequestsOnly

LEMMA AskedAgainInv ==
  ASSUME WfInv, NEW s \in Subjects, NEW c \in Clients,
         \/ ReplayEnrich(s, c)
         \/ \E u \in Principals, t \in Types : DecideAgain(s, u, c, t)
  PROVE  WfInv'
<1>1. /\ UNCHANGED <<vars, owner, reviews, enriched, runs, lost>> /\ Free(c)
      /\ \E tool \in Tools : request' = [request EXCEPT ![c] = Pending(tool, s)]
  BY DEF ReplayEnrich, DecideAgain, Tools
<1>2. ClientsTyped'
  BY <1>1, PendingType DEF WfInv, ClientsTyped
<1>3. \A d \in Clients : ~Free(d) => request'[d] = request[d]
  BY <1>1 DEF WfInv, ClientsTyped
<1> QED BY <1>1, <1>2, <1>3, RequestsOnly

(* The middleware's step, and its failure.                                 *)
LEMMA Served ==
  ASSUME WfInv, NEW c \in Clients, request' = [request EXCEPT ![c] = Idle],
         request[c].tool # "dispute", UNCHANGED <<owner, reviews, enriched>>
  PROVE  /\ request[c].on \in Subjects /\ ClientsTyped' /\ KeepsOthers(request[c].on)
         /\ \A s \in Subjects, d \in Clients :
              request[d] = Pending("dispute", s) => request'[d] = request[d]
<1>1. request \in [Clients -> [tool : Tools, on : Subjects]]
  BY DEF WfInv, ClientsTyped
<1>2. /\ \A d \in Clients : d # c => request'[d] = request[d]
      /\ request[c].on \in Subjects
  BY <1>1
<1>3. \A s \in Subjects : request[c] # Pending("dispute", s)
  BY DEF Pending
<1>4. ClientsTyped'
  BY <1>1, PendingType DEF WfInv, ClientsTyped
<1> QED BY <1>2, <1>3, <1>4 DEF KeepsOthers

LEMMA SyncInv ==
  ASSUME WfInv, NEW c \in Clients, SyncDecision(c) \/ SyncEnrichment(c)
  PROVE  WfInv'
<1>1. PICK s : s = request[c].on
  OBVIOUS
<1>2. /\ request' = [request EXCEPT ![c] = Idle] /\ request[c].tool # "dispute"
      /\ UNCHANGED <<owner, reviews, enriched, vars>>
      /\ \/ StartOrResume(s, Derived(s))
         \/ ActiveRuns(s) = {} /\ UNCHANGED <<runs, lost>>
  BY <1>1 DEF SyncDecision, SyncEnrichment
<1>3. /\ s \in Subjects /\ ClientsTyped' /\ KeepsOthers(s)
      /\ \A r \in Subjects, d \in Clients :
           request[d] = Pending("dispute", r) => request'[d] = request[d]
  BY <1>1, <1>2, Served
<1>4. CASE StartOrResume(s, Derived(s))
  BY <1>2, <1>3, <1>4, RunWritten
<1>5. CASE ActiveRuns(s) = {} /\ UNCHANGED <<runs, lost>>
  <2>1. IInv' /\ RunsTyped' /\ Tracked(s)
    BY <1>2, <1>3, <1>5, StepInv DEF WfInv, RunsTyped
  <2>2. ActiveRuns(s)' = {}
    BY <1>5 DEF ActiveRuns
  <2>3. Reviewable(s)'
    BY <1>2, <2>1 DEF Tracked, Reviewable, HasDecided, Round, vars
  <2>4. offered'[s] # {} => \E d \in Clients : request'[d] = Pending("dispute", s)
    BY <1>2, <1>3, <2>1 DEF Tracked, vars
  <2>5. Tracked(s)'
    BY <2>2, <2>3, <2>4 DEF Tracked, Shown, Pending
  <2> QED BY <1>2, <1>3, <1>5, <2>1, <2>5, OneTracked DEF vars
<1> QED BY <1>2, <1>4, <1>5

LEMMA SyncFailsInv ==
  ASSUME WfInv, NEW c \in Clients, SyncFails(c)
  PROVE  WfInv'
<1>1. PICK s : s = request[c].on
  OBVIOUS
<1>2. /\ request' = [request EXCEPT ![c] = Idle] /\ request[c].tool # "dispute"
      /\ UNCHANGED <<owner, reviews, enriched, vars, runs>> /\ lost' = lost \cup {s}
  BY <1>1 DEF SyncFails
<1>3. /\ s \in Subjects /\ ClientsTyped' /\ KeepsOthers(s)
      /\ \A r \in Subjects, d \in Clients :
           request[d] = Pending("dispute", r) => request'[d] = request[d]
  BY <1>1, <1>2, Served
<1>4. IInv' /\ RunsTyped' /\ Tracked(s)
  BY <1>2, <1>3, StepInv DEF WfInv, RunsTyped
<1>5. \A i, j \in ActiveRuns(s)' : i = j
  BY <1>2, <1>4 DEF ActiveRuns, Tracked
<1>6. Reviewable(s)'
  BY <1>2, <1>4 DEF Tracked, Reviewable, HasDecided, Round, vars
<1>7. offered'[s] # {} => \E d \in Clients : request'[d] = Pending("dispute", s)
  BY <1>2, <1>3, <1>4 DEF Tracked, vars
<1>8. Tracked(s)'
  BY <1>2, <1>5, <1>6, <1>7 DEF Tracked, Pending
<1> QED BY <1>2, <1>3, <1>4, <1>8, OneTracked DEF vars
-----------------------------------------------------------------------------
(* The decisions.  One writes rows of s alone.                             *)
LEMMA ProposeTouches ==
  ASSUME TypeOK, NEW s \in Subjects, NEW c \in Clients, NEW t \in Types,
         NEW l \in Labels, Propose(s, c, t, l)
  PROVE  /\ subject[s].live
         /\ \A r \in Subjects \ {s} :
              /\ subject'[r] = subject[r] /\ decisions'[r] = decisions[r]
              /\ offered'[r] = offered[r]
<1>1. subject[s].live
  BY DEF Propose, IgnoreDecision, JoinDispute, DecideOwnProposal, ConfirmProposal,
     DisputeProposal, FirstPosition, AgreeUnproposed, SplitUnproposed, Admissible
<1>2. \E round : decisions' = [decisions EXCEPT ![s][subject[s].version] = round]
  BY DEF Propose, IgnoreDecision, JoinDispute, DecideOwnProposal, ConfirmProposal,
     DisputeProposal, FirstPosition, AgreeUnproposed, SplitUnproposed, SetRound
<1>3. subject' = subject \/ \E row : subject' = [subject EXCEPT ![s] = row]
  BY DEF Propose, IgnoreDecision, JoinDispute, DecideOwnProposal, ConfirmProposal,
     DisputeProposal, FirstPosition, AgreeUnproposed, SplitUnproposed, SettleOn
<1>4. offered' = offered \/ \E positions : offered' = [offered EXCEPT ![s] = positions]
  BY DEF Propose, IgnoreDecision, JoinDispute, DecideOwnProposal, ConfirmProposal,
     DisputeProposal, FirstPosition, AgreeUnproposed, SplitUnproposed, CallResolver
<1> QED BY <1>1, <1>2, <1>3, <1>4 DEF TypeOK

(* What settling and a change of the status leave in the row of s.         *)
LEMMA SettledRowIs ==
  ASSUME TypeOK, NEW s \in Subjects, NEW t \in Types, SettleOn(s, t)
  PROVE  /\ subject'[s].status = "confirmed"
         /\ subject'[s].proposal = subject[s].proposal
         /\ subject'[s].proposer = subject[s].proposer
         /\ subject'[s].version = subject[s].version
         /\ subject'[s].live = subject[s].live
<1>1. /\ subject[s] \in Row
      /\ subject'[s] = [subject[s] EXCEPT !.type = t, !.status = "confirmed", !.locked = TRUE]
  BY DEF TypeOK, SettleOn
<1> QED BY <1>1 DEF Row

LEMMA StatusRowIs ==
  ASSUME TypeOK, NEW s \in Subjects, NEW st \in Statuses,
         subject' = [subject EXCEPT ![s].status = st]
  PROVE  /\ subject'[s].status = st
         /\ subject'[s].proposal = subject[s].proposal
         /\ subject'[s].proposer = subject[s].proposer
         /\ subject'[s].version = subject[s].version
<1>1. subject[s] \in Row /\ subject'[s] = [subject[s] EXCEPT !.status = st]
  BY DEF TypeOK
<1> QED BY <1>1 DEF Row

(* It leaves the proposal, and a round in which only the proposer decided, *)
(* disputed or settled, or a decision of the proposer more.                *)
LEMMA ProposeReviewable ==
  ASSUME IInv, NEW s \in Subjects, NEW c \in Clients, NEW t \in Types,
         NEW l \in Labels, Propose(s, c, t, l), Reviewable(s)
  PROVE  Reviewable(s)'
<1>1. /\ TypeOK /\ subject[s] \in Row /\ subject[s].live
      /\ subject[s].proposal # NoType
  BY ProposeTouches, RoundType DEF IInv, Reviewable
<1>2. ASSUME subject' = subject \/ SettleOn(s, t)
             \/ \E st \in Statuses : subject' = [subject EXCEPT ![s].status = st]
      PROVE  /\ subject'[s].proposal = subject[s].proposal
             /\ subject'[s].proposer = subject[s].proposer
             /\ subject'[s].version = subject[s].version
  <2>1. CASE subject' = subject
    BY <2>1
  <2>2. CASE SettleOn(s, t)
    BY <1>1, <2>2, SettledRowIs
  <2>3. ASSUME NEW st \in Statuses, subject' = [subject EXCEPT ![s].status = st]
        PROVE  /\ subject'[s].proposal = subject[s].proposal
               /\ subject'[s].proposer = subject[s].proposer
               /\ subject'[s].version = subject[s].version
    BY <1>1, <2>3, StatusRowIs
  <2> QED BY <1>2, <2>1, <2>2, <2>3
<1>3. CASE DecideOwnProposal(s, c, t, l)
  <2>1. /\ c = subject[s].proposer /\ subject[s].status \in {"provisional", "candidate"}
        /\ subject' = [subject EXCEPT ![s].status = "candidate"]
        /\ SetRound(s, Entered(s, c, t, l, "candidate"))
    BY <1>1, <1>3 DEF DecideOwnProposal, Proposed, Row, Statuses
  <2>2. /\ subject'[s].proposal = subject[s].proposal
        /\ subject'[s].proposer = subject[s].proposer
        /\ subject'[s].version = subject[s].version
    BY <1>2, <2>1 DEF Statuses
  <2>3. Round(s)' = Entered(s, c, t, l, "candidate")
    BY <1>1, <2>1, <2>2, RoundType DEF SetRound, Round, TypeOK
  <2>4. \A d \in Clients : d # c => Entered(s, c, t, l, "candidate")[d] = Round(s)[d]
    BY <1>1, RoundType DEF Entered
  <2> QED BY <1>1, <2>1, <2>2, <2>3, <2>4 DEF Reviewable, HasDecided
<1>4. CASE \/ IgnoreDecision(s, c, t, l) \/ JoinDispute(s, c, t, l)
           \/ ConfirmProposal(s, c, t, l) \/ DisputeProposal(s, c, t, l)
  <2>1. \/ subject' = subject /\ subject[s].status \in {"confirmed", "disputed"}
        \/ SettleOn(s, t) \/ subject' = [subject EXCEPT ![s].status = "disputed"]
    BY <1>4 DEF IgnoreDecision, JoinDispute, ConfirmProposal, DisputeProposal
  <2>2. subject'[s].status \in {"confirmed", "disputed"}
    BY <1>1, <2>1, SettledRowIs, StatusRowIs DEF Statuses
  <2>3. subject'[s].proposal = subject[s].proposal
    BY <1>2, <2>1 DEF Statuses
  <2> QED BY <1>1, <2>2, <2>3 DEF Reviewable
<1>5. ~Unproposed(s, c)
  BY <1>1 DEF Unproposed
<1> QED BY <1>3, <1>4, <1>5 DEF Propose, FirstPosition, AgreeUnproposed, SplitUnproposed

LEMMA DecideInv ==
  ASSUME WfInv, NEW s \in Subjects, NEW u \in Principals, NEW c \in Clients,
         NEW t \in Types, NEW l \in Labels, Decide(s, u, c, t, l)
  PROVE  WfInv'
<1>1. PICK tool \in {"dispute", "decision"} :
        /\ request' = [request EXCEPT ![c] = Pending(tool, s)]
        /\ offered' # offered => tool = "dispute"
  BY DEF Decide
<1>2. /\ IInv /\ TypeOK /\ Tracked(s) /\ Free(c) /\ Propose(s, c, t, l)
      /\ UNCHANGED <<owner, reviews, enriched, runs, lost>>
      /\ request \in [Clients -> [tool : Tools, on : Subjects]] /\ tool \in Tools
  BY DEF WfInv, IInv, Decide, ClientsTyped, Tools
<1>3. /\ request' \in [Clients -> [tool : Tools, on : Subjects]]
      /\ request'[c] = Pending(tool, s)
      /\ \A d \in Clients : d # c => request'[d] = request[d]
  BY <1>1, <1>2, PendingType
<1>4. IInv' /\ ClientsTyped' /\ RunsTyped'
  BY <1>2, <1>3, ProposeInv DEF WfInv, ClientsTyped, RunsTyped
<1>5. KeepsOthers(s)
  BY <1>2, <1>3 DEF KeepsOthers
<1>6. Busy(s)'
  BY <1>3, PendingType DEF Busy, Free, Tools
<1>7. offered'[s] # {} => \E d \in Clients : request'[d] = Pending("dispute", s)
  <2>1. CASE offered' # offered
    BY <1>1, <1>3, <2>1
  <2>2. CASE offered' = offered
    <3>1. ASSUME NEW d \in Clients, request[d] = Pending("dispute", s)
          PROVE  request'[d] = request[d]
      BY <1>2, <1>3, <3>1 DEF Free, Pending
    <3> QED BY <1>2, <2>2, <3>1 DEF Tracked
  <2> QED BY <2>1, <2>2
<1>8. Tracked(s)'
  <2>1. \A i, j \in ActiveRuns(s)' : i = j
    BY <1>2 DEF Tracked, ActiveRuns
  <2>2. Reviewable(s)'
    BY <1>2, ProposeReviewable DEF Tracked
  <2> QED BY <1>6, <1>7, <2>1, <2>2 DEF Tracked, Pending
<1> QED BY <1>2, <1>4, <1>5, <1>8, ProposeTouches, OneTracked

-----------------------------------------------------------------------------
(* The end of the resolver's call: whoever waited for it goes on.          *)
LEMMA WaitersServed ==
  ASSUME WfInv, NEW s \in Subjects, offered[s] # {}, DisputeServed(s)
  PROVE  /\ request' \in [Clients -> [tool : Tools, on : Subjects]]
         /\ KeepsOthers(s) /\ Busy(s)'
<1>1. request \in [Clients -> [tool : Tools, on : Subjects]]
  BY DEF WfInv, ClientsTyped
<1>2. Pending("decision", s) \in [tool : Tools, on : Subjects]
  BY PendingType DEF Tools
<1>3. request' \in [Clients -> [tool : Tools, on : Subjects]]
  BY <1>1, <1>2 DEF DisputeServed
<1>4. KeepsOthers(s)
  BY PendingType DEF KeepsOthers, DisputeServed, Tools
<1>5. PICK c \in Clients : request[c] = Pending("dispute", s)
  BY DEF WfInv, Tracked
<1>6. request'[c] = Pending("decision", s)
  BY <1>5 DEF DisputeServed
<1>7. Busy(s)'
  BY <1>6, PendingType DEF Busy, Free, Tools
<1> QED BY <1>3, <1>4, <1>7

LEMMA AnswerInv ==
  ASSUME WfInv, NEW s \in Subjects,
         NoAnswer(s) \/ \E t \in Types : Answer(s, t)
  PROVE  WfInv'
<1>1. /\ IInv /\ TypeOK /\ Tracked(s) /\ subject[s] \in Row
      /\ UNCHANGED <<owner, reviews, enriched, runs, lost>>
  BY RoundType DEF WfInv, IInv, NoAnswer, Answer
<1>2. /\ DisputeServed(s) /\ offered[s] # {}
      /\ offered' = [offered EXCEPT ![s] = {}]
      /\ \/ UNCHANGED <<subject, decisions>>
         \/ \E t \in Types : Arbitrate(s, t)
  BY DEF NoAnswer, Answer, ResolverFails, RefuseArbitration, Arbitrate
<1>3. IInv'
  <2>1. Next
    BY DEF NoAnswer, Answer, Next
  <2> QED BY <1>1, <2>1, StepInv
<1>4. /\ KeepsOthers(s) /\ Busy(s)' /\ ClientsTyped' /\ RunsTyped'
  BY <1>1, <1>2, WaitersServed DEF WfInv, ClientsTyped, RunsTyped
<1>5. /\ offered'[s] = {}
      /\ \A r \in Subjects \ {s} : /\ subject'[r] = subject[r]
                                   /\ decisions'[r] = decisions[r]
                                   /\ offered'[r] = offered[r]
  BY <1>1, <1>2 DEF TypeOK, Arbitrate, SetRound, SettleOn
<1>6. Reviewable(s)'
  <2>1. CASE UNCHANGED <<subject, decisions>>
    BY <1>1, <2>1 DEF Tracked, Reviewable, HasDecided, Round
  <2>2. ASSUME NEW t \in Types, Arbitrate(s, t) PROVE Reviewable(s)'
    <3>1. /\ subject'[s].status = "confirmed"
          /\ subject'[s].proposal = subject[s].proposal
          /\ subject'[s].live = subject[s].live
      BY <1>1, <2>2 DEF Arbitrate, SettleOn, TypeOK, Row
    <3> QED BY <1>1, <3>1 DEF Tracked, Reviewable
  <2> QED BY <1>2, <2>1, <2>2
<1>7. Tracked(s)'
  <2>1. \A i, j \in ActiveRuns(s)' : i = j
    BY <1>1 DEF Tracked, ActiveRuns
  <2> QED BY <1>4, <1>5, <1>6, <2>1 DEF Tracked
<1> QED BY <1>1, <1>3, <1>4, <1>5, <1>7, OneTracked

(* The process ends.                                                       *)
LEMMA CrashClassification ==
  ASSUME IInv, offered' = [s \in Subjects |-> {}],
         UNCHANGED <<subject, decisions, typeStatus>>
  PROVE  IInv'
<1>1. ASSUME NEW s \in Subjects PROVE SubjectInv(s)'
  <2>1. SubjectInv(s) /\ Round(s)' = Round(s) /\ offered'[s] = {}
    BY DEF IInv, Round
  <2>2. \A p, u : Holds(s, p, u)' <=> Holds(s, p, u)
    BY <2>1 DEF Holds
  <2>3. RowOK(s)' /\ FutureEmpty(s)'
    BY <2>1 DEF SubjectInv, RowOK, FutureEmpty
  <2>4. OpenRoundOK(s)'
    BY <2>1 DEF SubjectInv, OpenRoundOK, HasDecided
  <2>5. Audited(s)' /\ SettledNarrows(s)'
    BY <2>1 DEF SubjectInv, Audited, SettledNarrows
  <2>6. Genuine(s)' /\ Independent(s)'
    BY <2>1, <2>2 DEF SubjectInv, Genuine, Independent
  <2>7. OfferOpen(s)'
    BY <2>1 DEF OfferOpen
  <2> QED BY <2>3, <2>4, <2>5, <2>6, <2>7 DEF SubjectInv
<1>2. TypeOK'
  BY DEF IInv, TypeOK
<1> QED BY <1>1, <1>2 DEF IInv, UniqueIdentity, SettledTypeAccepted

LEMMA CrashInv ==
  ASSUME WfInv, Crash
  PROVE  WfInv'
<1>1. IInv'
  BY CrashClassification DEF Crash, WfInv
<1>2. ClientsTyped' /\ RunsTyped'
  BY PendingType DEF Crash, WfInv, ClientsTyped, RunsTyped
<1>3. ASSUME NEW s \in Subjects PROVE Tracked(s)'
  <2>1. Tracked(s) /\ offered'[s] = {}
    BY DEF WfInv, Crash
  <2>2. Round(s)' = Round(s) /\ ActiveRuns(s)' = ActiveRuns(s)
    BY DEF Crash, Round, ActiveRuns
  <2>3. Derived(s)' = Derived(s)
    BY <2>2 DEF Derived, Active, Crash
  <2>4. Busy(s) => s \in lost'
    BY DEF Busy, Crash
  <2>5. s \in lost => s \in lost'
    BY DEF Crash
  <2>6. Shown(s) => Shown(s)'
    BY <2>2, <2>3 DEF Shown, Crash
  <2>7. Reviewable(s)'
    BY <2>1, <2>2 DEF Tracked, Reviewable, HasDecided, Crash
  <2> QED BY <2>1, <2>2, <2>4, <2>5, <2>6, <2>7 DEF Tracked
<1> QED BY <1>1, <1>2, <1>3 DEF WfInv
-----------------------------------------------------------------------------
(* Subjects come, are reopened and go.                                     *)
(* The row of a new subject: its round is empty.                           *)
LEMMA NewRow ==
  ASSUME IInv, NEW s \in Subjects, NEW c \in Clients, NEW t \in Types,
         Create(s, c, t)
  PROVE  /\ subject'[s] = OpenRow(t, 1, t, c)
         /\ offered'[s] = {} /\ decisions' = decisions /\ offered' = offered
         /\ \A r \in Subjects \ {s} : subject'[r] = subject[r]
         /\ Active(s)' = {} /\ Reviewable(s)' /\ IInv'
<1>1. PICK row : row = OpenRow(t, 1, t, c)
  OBVIOUS
<1>2. TypeOK /\ ~subject[s].live
  BY DEF IInv, Create
<1>3. decisions[s] = NoDecisions /\ offered[s] = {}
  BY <1>2 DEF IInv, SubjectInv, RowOK, OfferOpen
<1>4. /\ subject'[s] = row /\ decisions' = decisions /\ offered' = offered
      /\ \A r \in Subjects \ {s} : subject'[r] = subject[r]
      /\ row.version = 1 /\ row.status = "provisional" /\ row.proposal = t
  BY <1>1, <1>2 DEF Create, TypeOK, OpenRow
<1>5. \A d \in Voters : Round(s)'[d] = NoDecision
  BY <1>3, <1>4, VersionAssumption DEF Round, NoDecisions
<1>6. Active(s)' = {}
  BY <1>5 DEF Active, NoDecision
<1>7. Reviewable(s)'
  BY <1>4, <1>5, TypesAssumption DEF Reviewable, HasDecided, NoDecision
<1> QED BY <1>1, <1>3, <1>4, <1>6, <1>7, CreateInv

LEMMA SaveNewInv ==
  ASSUME WfInv, NEW s \in Subjects, NEW u \in Users, NEW c \in Clients,
         NEW t \in Types, SaveNew(s, u, c, t)
  PROVE  WfInv'
<1>1. PICK row : row = OpenRow(t, 1, t, c)
  OBVIOUS
<1>2. /\ Tracked(s) /\ IInv /\ Create(s, c, t)
      /\ StartOrResume(s, Derive(row, {})) /\ UNCHANGED <<enriched, request>>
  BY <1>1 DEF WfInv, SaveNew
<1>3. /\ subject'[s] = row /\ offered'[s] = {}
      /\ decisions' = decisions /\ offered' = offered
      /\ \A r \in Subjects \ {s} : subject'[r] = subject[r]
      /\ Active(s)' = {} /\ Reviewable(s)' /\ IInv'
  BY <1>1, <1>2, NewRow
<1>4. Derived(s)' = Derive(row, {}) /\ Derive(row, {}) \in Run
  BY <1>1, <1>3, NewRun DEF Derived
<1>5. /\ runs' \in [Subjects -> Seq(Run)]
      /\ \A r \in Subjects \ {s} : runs'[r] = runs[r]
      /\ \A i, j \in ActiveRuns(s)' : i = j
      /\ \A i \in ActiveRuns(s)' : runs'[s][i] = Derive(row, {})
      /\ lost' = lost \ {s}
  BY <1>2, <1>4, Resumed DEF WfInv, RunsTyped, Tracked
<1>6. Tracked(s)'
  <2>1. Shown(s)'
    BY <1>4, <1>5 DEF Shown
  <2> QED BY <1>3, <1>5, <2>1 DEF Tracked
<1>7. RunsTyped' /\ ClientsTyped' /\ KeepsOthers(s)
  <2>1. ClientsTyped'
    BY DEF SaveNew, WfInv, ClientsTyped, Principals
  <2> QED BY <1>2, <1>5, <2>1 DEF WfInv, RunsTyped, KeepsOthers
<1> QED BY <1>3, <1>5, <1>6, <1>7, OneTracked

LEMMA CreateOnlyInv ==
  ASSUME WfInv, NEW s \in Subjects, NEW o \in Principals, NEW c \in Clients,
         NEW t \in Types, CreateOnly(s, o, c, t)
  PROVE  WfInv'
<1>1. /\ IInv /\ Create(s, c, t) /\ UNCHANGED <<reviews, enriched, request, lost>>
      /\ runs \in [Subjects -> Seq(Run)] /\ runs' = [runs EXCEPT ![s] = <<>>]
  BY DEF WfInv, RunsTyped, CreateOnly
<1>2. /\ offered'[s] = {} /\ decisions' = decisions /\ offered' = offered
      /\ \A r \in Subjects \ {s} : subject'[r] = subject[r]
      /\ Reviewable(s)' /\ IInv'
  BY <1>1, NewRow
<1>3. /\ runs' \in [Subjects -> Seq(Run)] /\ runs'[s] = <<>>
      /\ \A r \in Subjects \ {s} : runs'[r] = runs[r]
  BY <1>1
<1>4. ActiveRuns(s)' = {}
  BY <1>3 DEF ActiveRuns
<1>5. Tracked(s)'
  BY <1>2, <1>4 DEF Tracked, Shown
<1>6. RunsTyped' /\ ClientsTyped' /\ KeepsOthers(s)
  <2>1. ClientsTyped'
    BY DEF CreateOnly, WfInv, ClientsTyped, Principals
  <2> QED BY <1>1, <1>3, <2>1 DEF WfInv, RunsTyped, KeepsOthers
<1> QED BY <1>1, <1>2, <1>3, <1>5, <1>6, OneTracked

LEMMA ReopenSubjectInv ==
  ASSUME WfInv, NEW s \in Subjects, NEW u \in Principals, NEW c \in Clients,
         ReopenSubject(s, u, c)
  PROVE  WfInv'
<1>1. /\ IInv /\ TypeOK /\ Tracked(s) /\ SubjectInv(s) /\ subject[s] \in Row
      /\ Reopen(s, c) /\ UNCHANGED <<owner, reviews, enriched, runs, request, lost>>
      /\ subject[s].status = "confirmed"
      /\ decisions' = decisions /\ offered' = offered
  BY RoundType DEF WfInv, IInv, ReopenSubject, Reopen, wfVars
<1>2. PICK d \in Voters :
        /\ Round(s)[d].outcome \in Settling
        /\ subject' = [subject EXCEPT ![s] =
             OpenRow(Round(s)[d].from, subject[s].version + 1, Round(s)[d].from, c)]
  BY <1>1 DEF Reopen
<1>3. PICK from : from = Round(s)[d].from
  OBVIOUS
<1>4. from \in Types /\ from # NoType
  BY <1>1, <1>2, <1>3, TypesAssumption DEF SubjectInv, SettledNarrows
<1>5. /\ subject'[s].version = subject[s].version + 1
      /\ subject'[s].proposal = from
      /\ \A r \in Subjects \ {s} : subject'[r] = subject[r]
  BY <1>1, <1>2, <1>3 DEF TypeOK, OpenRow
<1>6. subject[s].version + 1 \in Versions /\ subject[s].version + 1 > subject[s].version
  BY <1>1, VersionAssumption DEF Reopen, Row
<1>7. \A e \in Voters : Round(s)'[e] = NoDecision
  BY <1>1, <1>5, <1>6 DEF SubjectInv, FutureEmpty, Round
<1>8. Reviewable(s)'
  BY <1>4, <1>5, <1>7 DEF Reviewable, HasDecided, NoDecision
<1>9. ActiveRuns(s)' = ActiveRuns(s) /\ Busy(s)' = Busy(s)
  BY <1>1 DEF ActiveRuns, Busy, Free
<1>10. s \in lost \/ ActiveRuns(s) = {} \/ Busy(s)
  <2>1. Derived(s).state = "completed"
    BY <1>1 DEF Derived, Derive
  <2>2. \A i \in ActiveRuns(s) : runs[s][i] # Derived(s)
    BY <2>1 DEF ActiveRuns
  <2> QED BY <1>1, <2>2 DEF Tracked, Shown
<1>11. Tracked(s)'
  <2>1. s \in lost' \/ Shown(s)' \/ Busy(s)'
    BY <1>1, <1>9, <1>10 DEF Shown
  <2> QED BY <1>1, <1>8, <1>9, <2>1 DEF Tracked, Pending
<1>12. IInv' /\ RunsTyped' /\ ClientsTyped' /\ KeepsOthers(s)
  BY <1>1, ReopenInv DEF WfInv, RunsTyped, ClientsTyped, KeepsOthers
<1> QED BY <1>1, <1>5, <1>11, <1>12, OneTracked

LEMMA DeleteSubjectInv ==
  ASSUME WfInv, NEW s \in Subjects, NEW u \in Users, DeleteSubject(s, u)
  PROVE  WfInv'
<1>1. /\ IInv /\ TypeOK /\ Delete(s) /\ ClientsTyped /\ RunsTyped
  BY DEF WfInv, IInv, DeleteSubject
<1>2. /\ subject'[s] = NoRow /\ offered'[s] = {}
      /\ \A r \in Subjects \ {s} : /\ subject'[r] = subject[r]
                                   /\ decisions'[r] = decisions[r]
                                   /\ offered'[r] = offered[r]
  BY <1>1 DEF Delete, TypeOK
<1>3. /\ runs'[s] = <<>> /\ \A r \in Subjects \ {s} : runs'[r] = runs[r]
      /\ runs' \in [Subjects -> Seq(Run)] /\ lost' = lost \ {s}
  BY <1>1 DEF DeleteSubject, RunsTyped
<1>4. ActiveRuns(s)' = {}
  BY <1>3 DEF ActiveRuns
<1>5. KeepsOthers(s)
  BY DEF DeleteSubject, KeepsOthers
<1>6. ClientsTyped'
  BY <1>1, PendingType DEF DeleteSubject, ClientsTyped, Principals
<1>7. Tracked(s)'
  BY <1>2, <1>4 DEF Tracked, Shown, Reviewable, NoRow
<1>8. RunsTyped'
  BY <1>1, <1>3 DEF RunsTyped
<1>9. IInv'
  BY <1>1, DeleteInv
<1> QED BY <1>2, <1>3, <1>5, <1>6, <1>7, <1>8, <1>9, OneTracked

-----------------------------------------------------------------------------
LEMMA WfInitInv == WfInit => WfInv
<1> SUFFICES ASSUME WfInit PROVE WfInv
  OBVIOUS
<1> USE DEF Statuses, Outcomes
<1>1. PICK kind \in [LegacySubjects -> Types] :
        /\ \A r, s \in LegacySubjects : kind[r] = kind[s] => r = s
        /\ subject = [s \in Subjects |->
             IF s \in LegacySubjects THEN OpenRow(kind[s], 1, kind[s], NoClient)
             ELSE NoRow]
  BY DEF WfInit
<1>2. 1 \in Versions /\ NoRow \in Row /\ NoDecision \in Decision
  <2>1. 1 \in Versions
    BY VersionAssumption
  <2> QED BY <2>1 DEF NoRow, NoDecision, Row, Decision
<1>3. \A s \in LegacySubjects : OpenRow(kind[s], 1, kind[s], NoClient) \in Row
  BY <1>1, <1>2 DEF OpenRow, Row
<1>4. /\ decisions = [s \in Subjects |-> NoDecisions]
      /\ typeStatus = [t \in Types |-> "provisional"]
      /\ offered = [s \in Subjects |-> {}]
  BY DEF WfInit
<1>5. NoDecisions \in [Versions -> [Voters -> Decision]]
  BY <1>2 DEF NoDecisions
<1>6. TypeOK
  BY <1>1, <1>2, <1>3, <1>4, <1>5 DEF TypeOK, TypeStatuses
<1>7. \A s \in Subjects : /\ subject[s].status = "provisional"
                          /\ subject[s].version = 1 /\ subject[s].locked = FALSE
  BY <1>1 DEF OpenRow, NoRow
<1>8. \A s \in Subjects :
        IF s \in LegacySubjects
          THEN /\ subject[s].live /\ subject[s].type = kind[s]
               /\ subject[s].proposal = kind[s]
          ELSE ~subject[s].live /\ subject[s] = NoRow
  BY <1>1 DEF OpenRow, NoRow
<1>9. ASSUME NEW s \in Subjects PROVE \A c \in Voters : Round(s)[c] = NoDecision
  BY <1>2, <1>4, <1>7 DEF Round, NoDecisions
<1>10. ASSUME NEW s \in Subjects PROVE SubjectInv(s)
  <2>1. \A v \in Versions, c \in Voters : decisions[s][v][c] = NoDecision
    BY <1>4 DEF NoDecisions
  <2>2. RowOK(s) /\ FutureEmpty(s)
    BY <1>1, <1>4, <1>8, <2>1 DEF RowOK, FutureEmpty
  <2>3. subject[s].proposal \in {NoType, subject[s].type}
    BY <1>8 DEF NoRow
  <2>4. OpenRoundOK(s)
    BY <1>7, <1>9, <2>3 DEF OpenRoundOK, HasDecided, NoDecision
  <2>5. /\ Audited(s) /\ SettledNarrows(s) /\ Genuine(s) /\ Independent(s)
        /\ OfferOpen(s)
    BY <1>4, <1>7 DEF Audited, SettledNarrows, Genuine, Independent, OfferOpen
  <2> QED BY <2>2, <2>4, <2>5 DEF SubjectInv
<1>11. IInv
  <2>1. UniqueIdentity
    BY <1>1, <1>8 DEF UniqueIdentity
  <2>2. SettledTypeAccepted
    BY <1>7 DEF SettledTypeAccepted
  <2> QED BY <1>6, <1>10, <2>1, <2>2 DEF IInv
<1>12. ClientsTyped /\ RunsTyped
  <2>1. <<>> \in Seq(Run)
    OBVIOUS
  <2> QED BY <2>1, PendingType DEF WfInit, ClientsTyped, RunsTyped
<1>13. ASSUME NEW s \in Subjects PROVE Tracked(s)
  <2>1. ActiveRuns(s) = {}
    BY DEF WfInit, ActiveRuns
  <2>2. Reviewable(s)
    BY <1>1, <1>8, <1>9, TypesAssumption DEF Reviewable, HasDecided, NoDecision
  <2> QED BY <1>4, <2>1, <2>2 DEF Tracked, Shown
<1> QED BY <1>11, <1>12, <1>13 DEF WfInv

LEMMA WfStepInv == WfInv /\ [WfNext]_allVars => WfInv'
<1> SUFFICES ASSUME WfInv, [WfNext]_allVars PROVE WfInv'
  OBVIOUS
<1>1. CASE UNCHANGED allVars
  BY <1>1, RequestsOnly DEF allVars, wfVars, WfInv, ClientsTyped
<1>2. ASSUME NEW s \in Subjects, NEW u \in Users,
             \/ PublishReview(s, u) \/ SaveReview(s, u)
             \/ DeleteReview(s, u) \/ DeleteSubject(s, u)
             \/ \E c \in Clients, t \in Types : SaveNew(s, u, c, t)
      PROVE  WfInv'
  BY <1>2, WriteInv, ReviewsInv, DeleteSubjectInv, SaveNewInv
<1>3. ASSUME NEW s \in Subjects, NEW u \in Principals, NEW c \in Clients,
             \/ Block(s, u) \/ Enrich(s, u, c) \/ ReopenSubject(s, u, c)
             \/ \E t \in Types : CreateOnly(s, u, c, t) \/ DecideAgain(s, u, c, t)
      PROVE  WfInv'
  BY <1>3, WriteInv, EnrichInv, ReopenSubjectInv, CreateOnlyInv, AskedAgainInv
<1>4. ASSUME NEW s \in Subjects, NEW u \in Principals, NEW c \in Clients,
             NEW t \in Types, NEW l \in Labels, Decide(s, u, c, t, l)
      PROVE  WfInv'
  BY <1>4, DecideInv
<1>5. ASSUME NEW s \in Subjects, NoAnswer(s) \/ \E t \in Types : Answer(s, t)
      PROVE  WfInv'
  BY <1>5, AnswerInv
<1>6. ASSUME NEW c \in Clients, SyncDecision(c) \/ SyncEnrichment(c) \/ SyncFails(c)
      PROVE  WfInv'
  BY <1>6, SyncInv, SyncFailsInv
<1>7. ASSUME NEW s \in Subjects, NEW u \in Principals, Block(s, u)
      PROVE  WfInv'
  BY <1>7, WriteInv
<1>8. ASSUME NEW s \in Subjects, NEW c \in Clients, ReplayEnrich(s, c)
      PROVE  WfInv'
  BY <1>8, AskedAgainInv
<1> QED BY <1>1, <1>2, <1>3, <1>4, <1>5, <1>6, <1>7, <1>8, CrashInv DEF WfNext

LEMMA WfInvariance == WfSpec => []WfInv
BY WfInitInv, WfStepInv, PTL DEF WfSpec

(* Types of the rows and of the requests around the classification.        *)
THEOREM WfTypeCorrect == WfSpec => []WfTypeOK
<1>1. WfInv => WfTypeOK
  <2> SUFFICES ASSUME WfInv, NEW s \in Subjects, NEW i \in DOMAIN runs[s]
               PROVE  runs[s][i] \in Run
    BY DEF WfInv, IInv, ClientsTyped, RunsTyped, WfTypeOK
  <2>1. runs[s] \in Seq(Run)
    BY DEF WfInv, RunsTyped
  <2> QED BY <2>1
<1> QED BY <1>1, WfInvariance, PTL

(* No subject ever has two active runs, however writes, decisions, replays,*)
(* failures and crashes follow each other.                                 *)
THEOREM RunIsAlone == WfSpec => []OneActiveRun
<1>1. WfInv => OneActiveRun
  BY DEF WfInv, Tracked, OneActiveRun
<1> QED BY <1>1, WfInvariance, PTL

(* The active run says what the classification says, up to requests under  *)
(* way and synchronisations that were lost.                                *)
THEOREM RunIsCurrent == WfSpec => []RunFollowsSubject
<1>1. ASSUME WfInv, NEW s \in Subjects, ActiveRuns(s) # {}
      PROVE  Latest(s) \in ActiveRuns(s)
  <2>1. PICK k \in ActiveRuns(s) : ActiveRuns(s) = {k}
    BY <1>1 DEF WfInv, Tracked
  <2>2. k \in Nat
    <3>1. runs[s] \in Seq(Run)
      BY <1>1 DEF WfInv, RunsTyped
    <3>2. DOMAIN runs[s] = 1..Len(runs[s]) /\ Len(runs[s]) \in Nat
      BY <3>1
    <3> QED BY <3>2 DEF ActiveRuns
  <2>3. \A j \in ActiveRuns(s) : j <= k
    BY <2>1, <2>2
  <2> QED BY <2>1, <2>3 DEF Latest
<1>2. WfInv => RunFollowsSubject
  BY <1>1 DEF WfInv, Tracked, Shown, Busy, RunFollowsSubject, Follows
<1> QED BY <1>2, WfInvariance, PTL

(* Whoever may write to a subject whose run asks for an independent model  *)
(* can decide through every client but the proposer's: none of them has    *)
(* decided, the decision tools find the subject for that person, and the   *)
(* current type is a decision they accept.                                 *)
THEOREM HandoffStaysOpen == WfSpec => []HandoffOpen
<1>1. WfInv => HandoffOpen
  <2> SUFFICES ASSUME WfInv, NEW s \in Subjects, Derived(s).actor = "independent_model",
                      subject[s].live, NEW u \in Users,
                      NEW c \in Clients \ {subject[s].proposer}, MayMutate(s, u)
               PROVE  MayDecide(s, u, c)
    BY DEF HandoffOpen
  <2>1. TypeOK /\ Tracked(s) /\ SubjectInv(s) /\ subject[s] \in Row
    BY RoundType DEF WfInv, IInv
  <2>2. subject[s].status \in {"provisional", "candidate"}
    BY <2>1 DEF Derived, Derive, Row, Statuses
  <2>3. ~HasDecided(s, c)
    BY <2>1, <2>2 DEF Tracked, Reviewable
  <2>4. MaySee(s, u)
    BY <2>2 DEF MayMutate, MaySee
  <2>5. subject[s].type \in Types
    BY <2>1 DEF SubjectInv, RowOK
  <2>6. Admissible(s, c, subject[s].type)
    BY <2>3 DEF Admissible, Narrows
  <2> QED BY <2>3, <2>4, <2>5, <2>6 DEF MayDecide
<1> QED BY <1>1, WfInvariance, PTL

-----------------------------------------------------------------------------
(* The classification within the workflow.  A request takes one step of it *)
(* or none; the end of the process only drops what the resolver was asked. *)
LEMMA Classifies ==
  ASSUME [WfNext]_allVars
  PROVE  [Next]_vars \/ UNCHANGED <<subject, decisions, typeStatus>>
<1>1. CASE UNCHANGED allVars
  BY <1>1 DEF allVars, vars
<1>2. CASE Crash
  BY <1>2 DEF Crash
<1>3. ASSUME NEW c \in Clients, SyncDecision(c) \/ SyncEnrichment(c) \/ SyncFails(c)
      PROVE  UNCHANGED vars
  BY <1>3 DEF SyncDecision, SyncEnrichment, SyncFails
<1>4. ASSUME NEW s \in Subjects, NEW u \in Principals,
             \/ PublishReview(s, u) \/ SaveReview(s, u) \/ DeleteReview(s, u)
             \/ Block(s, u)
      PROVE  UNCHANGED vars
  BY <1>4 DEF PublishReview, SaveReview, DeleteReview, Block
<1>5. ASSUME NEW s \in Subjects, NEW u \in Principals, NEW c \in Clients,
             \/ Enrich(s, u, c) \/ ReplayEnrich(s, c)
             \/ \E t \in Types : DecideAgain(s, u, c, t)
      PROVE  UNCHANGED vars
  BY <1>5 DEF Enrich, ReplayEnrich, DecideAgain
<1>6. ASSUME NEW s \in Subjects, NEW u \in Principals, NEW c \in Clients,
             ReopenSubject(s, u, c) \/ DeleteSubject(s, u)
      PROVE  Next
  BY <1>6 DEF ReopenSubject, DeleteSubject, Next
<1>7. ASSUME NEW s \in Subjects, NEW u \in Principals, NEW c \in Clients,
             NEW t \in Types, SaveNew(s, u, c, t) \/ CreateOnly(s, u, c, t)
      PROVE  Next
  BY <1>7 DEF SaveNew, CreateOnly, Next
<1>8. ASSUME NEW s \in Subjects, NEW u \in Principals, NEW c \in Clients,
             NEW t \in Types, NEW l \in Labels, Decide(s, u, c, t, l)
      PROVE  Next
  BY <1>8 DEF Decide, Next
<1>9. ASSUME NEW s \in Subjects, NoAnswer(s) \/ \E t \in Types : Answer(s, t)
      PROVE  Next
  BY <1>9 DEF NoAnswer, Answer, Next
<1>10. CASE \E s \in Subjects, u \in Users :
              \/ PublishReview(s, u) \/ SaveReview(s, u)
              \/ DeleteReview(s, u) \/ DeleteSubject(s, u)
              \/ \E c \in Clients, t \in Types : SaveNew(s, u, c, t)
  <2>1. PICK s \in Subjects, u \in Users :
          \/ PublishReview(s, u) \/ SaveReview(s, u)
          \/ DeleteReview(s, u) \/ DeleteSubject(s, u)
          \/ \E c \in Clients, t \in Types : SaveNew(s, u, c, t)
    BY <1>10
  <2>2. u \in Principals
    BY DEF Principals
  <2>3. CASE DeleteSubject(s, u)
    BY <2>3 DEF DeleteSubject, Next
  <2> QED BY <1>4, <1>7, <2>1, <2>2, <2>3
<1>11. CASE \E s \in Subjects, u \in Principals :
              \/ Block(s, u)
              \/ \E c \in Clients :
                   \/ Enrich(s, u, c) \/ ReopenSubject(s, u, c)
                   \/ \E t \in Types :
                        \/ CreateOnly(s, u, c, t) \/ DecideAgain(s, u, c, t)
                        \/ \E l \in Labels : Decide(s, u, c, t, l)
  BY <1>4, <1>5, <1>6, <1>7, <1>8, <1>11
<1>12. CASE \E s \in Subjects, c \in Clients : ReplayEnrich(s, c)
  BY <1>12 DEF ReplayEnrich
<1> QED BY <1>1, <1>2, <1>3, <1>9, <1>10, <1>11, <1>12 DEF WfNext

(* What the classification promises it also keeps among reviews, runs and  *)
(* requests in flight, with rows of an earlier release, and when the       *)
(* process ends while the resolver is asked.                               *)
THEOREM ClassificationSafe ==
  WfSpec => [](/\ SettlementIndependent /\ SettlementAudited /\ DisputeIsGenuine
               /\ OfferStaysOpen /\ UniqueIdentity /\ SettledTypeAccepted)
<1>1. WfInv => /\ SettlementIndependent /\ SettlementAudited /\ DisputeIsGenuine
               /\ OfferStaysOpen /\ UniqueIdentity /\ SettledTypeAccepted
  BY DEF WfInv, IInv, SubjectInv, SettlementIndependent, SettlementAudited,
         DisputeIsGenuine, OfferStaysOpen
<1> QED BY <1>1, WfInvariance, PTL

(* Also when the process ends and calls are repeated, the audit of a       *)
(* subject only grows.                                                     *)
THEOREM AuditKept == WfSpec => AuditAppendOnly
<1>1. ASSUME WfInv, [WfNext]_allVars PROVE Appends
  <2>1. CASE [Next]_vars
    BY <1>1, <2>1, StepAppends DEF WfInv
  <2>2. CASE UNCHANGED <<subject, decisions, typeStatus>>
    BY <2>2 DEF Appends
  <2> QED BY <1>1, <2>1, <2>2, Classifies
<1>2. Appends => (\A s \in Subjects, v \in Versions, c \in Voters :
        LET old == decisions[s][v][c]  new == decisions'[s][v][c]
        IN  (subject'[s].live /\ old.outcome # "none" /\ new # old) =>
              /\ v = subject[s].version
              /\ old.outcome = "candidate"
              /\ new.outcome \in {"confirmed", "rejected_resolver"}
              /\ new = [old EXCEPT !.outcome = new.outcome])
  BY DEF Appends, Closes
<1>3. WfInv /\ [WfNext]_allVars => Appends
  BY <1>1
<1> QED BY <1>2, <1>3, WfInvariance, PTL DEF WfSpec, AuditAppendOnly

(* Rows of an earlier release begin with an open round.                    *)
LEMMA WfInitMaps == WfInit => Rounds!Init
<1> SUFFICES ASSUME WfInit PROVE Rounds!Init
  OBVIOUS
<1>1. PICK kind \in [LegacySubjects -> Types] :
        subject = [s \in Subjects |-> IF s \in LegacySubjects
                                        THEN OpenRow(kind[s], 1, kind[s], NoClient)
                                        ELSE NoRow]
  BY DEF WfInit
<1>2. \A s \in Subjects : /\ subject[s].status = "provisional"
                          /\ subject[s].version = 1
                          /\ subject[s].live \in BOOLEAN
                          /\ subject[s].type \in Types \cup {NoType}
  BY <1>1 DEF OpenRow, NoRow
<1>3. \A s \in Subjects : /\ Phase(s) \in {"absent", "open"}
                          /\ RoundNo(s) = IF Phase(s) = "absent" THEN 0 ELSE 1
                          /\ Started(s) = subject[s].type
  BY <1>2 DEF Phase, RoundNo, Started
<1>4. /\ [s \in Subjects |-> Phase(s)] \in [Subjects -> {"absent", "open"}]
      /\ [s \in Subjects |-> subject[s].type] \in [Subjects -> Types \cup {NoType}]
      /\ [s \in Subjects |-> Started(s)] = [s \in Subjects |-> subject[s].type]
  BY <1>2, <1>3
<1>5. [s \in Subjects |-> RoundNo(s)] =
        [s \in Subjects |->
           IF [r \in Subjects |-> Phase(r)][s] = "absent" THEN 0 ELSE 1]
  BY <1>3
<1> QED BY <1>4, <1>5 DEF Rounds!Init

(* The workflow still implements the abstract rounds: what it adds to the  *)
(* classification never moves a subject between them.                      *)
THEOREM WorkflowImplementsRounds == WfSpec => ImplementsRounds
<1>1. ASSUME WfInv, [WfNext]_allVars PROVE [Rounds!Next]_(Rounds!vars)
  <2>1. CASE [Next]_vars
    BY <1>1, <2>1, StepMaps DEF WfInv
  <2>2. CASE UNCHANGED <<subject, decisions, typeStatus>>
    BY <2>2, NoRowMaps
  <2> QED BY <1>1, <2>1, <2>2, Classifies
<1>2. WfInv /\ [WfNext]_allVars => [Rounds!Next]_(Rounds!vars)
  BY <1>1
<1> QED BY <1>2, WfInitMaps, WfInvariance, PTL DEF WfSpec, ImplementsRounds, Rounds!Spec
=============================================================================
