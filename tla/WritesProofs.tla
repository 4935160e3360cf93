---------------------------- MODULE WritesProofs ----------------------------
(* Proofs about Deliberation, ReviewsV1 and Grants: what clients write and *)
(* are answered, for any number of clients, processes and requests.  What  *)
(* is published and one live token need requests in order; deliberations   *)
(* need no order, for what overlapping calls may do is said exactly.       *)
EXTENDS Deliberation, ReviewsV1, Grants,
        SequenceTheorems, FiniteSetTheorems, WellFoundedInduction, TLAPS

-----------------------------------------------------------------------------
(* Deliberation: what is resolved stays so.                                *)

(* The claim a call was verified against when its checks were made.        *)
JobsVerified ==
  \A w \in Workers :
    Serving(w) /\ job[w].verified.claimed =>
      row[job[w].call.on].claimer = job[w].call.client

ClaimInv == TypeOK /\ ClaimHolds /\ JobsVerified

(* What a call has checked or written stays so until its record is there,  *)
(* unless the deliberation is resolved meanwhile, or once more.            *)
JobTruthful(w) ==
  LET c == job[w].call
  IN  Serving(w) =>
        IF job[w].stage = "checked"
          THEN c.op \in {"contribute", "resolve"} =>
                 \/ row[c.on].status = "open"
                 \/ row[c.on].status = "resolved" /\ w \in late[c.on]
          ELSE CASE c.op = "create"  -> row[c.on].status # "absent"
                 [] c.op = "claim"   -> row[c.on].claimer = c.client
                 [] c.op = "resolve" ->
                      /\ row[c.on].resolver = c.client \/ c.on \in replaced
                      /\ row[c.on].status = "resolved"
                 [] c.op = "contribute" ->
                      /\ job[w].id \in DOMAIN contributions
                      /\ contributions[job[w].id].by = c

(* A recorded resolution is of a resolved deliberation.                    *)
RecordFinal ==
  \A r \in records : r.of.op = "resolve" => row[r.of.on].status = "resolved"

FinalInv ==
  /\ TypeOK
  /\ RecordTruthful
  /\ RecordFinal
  /\ \A w \in Workers : JobTruthful(w)

-----------------------------------------------------------------------------
(* The fields of the records a step builds.                                *)
LEMMA ServingJob ==
  ASSUME TypeOK, NEW w \in Workers, Serving(w)
  PROVE  /\ job[w] \in Job
         /\ job[w].call \in Call /\ job[w].verified \in Verification
         /\ job[w].call.on \in Deliberations /\ job[w].call.client \in Clients
         /\ row[job[w].call.on] \in Row
BY DEF TypeOK, Serving, Job, Call

LEMMA VerifyType ==
  ASSUME TypeOK, NEW c \in Call
  PROVE  Verify(c) \in Verification
BY DEF Verify, Verification

LEMMA InitType == Init => TypeOK
<1> SUFFICES ASSUME Init PROVE TypeOK
  OBVIOUS
<1>1. row \in [Deliberations -> Row]
  BY DeliberationAssumption DEF Init, Absent, Row, Ids
<1>2. contributions \in Seq(Contribution) /\ Len(contributions) <= MaxContributions
  BY DeliberationAssumption DEF Init
<1>3. job \in [Workers -> Job \cup {Idle}]
  BY DEF Init
<1> QED BY <1>1, <1>2, <1>3 DEF Init, TypeOK

(* Each action keeps the types of the variables.                           *)
LEMMA StartType ==
  ASSUME TypeOK, NEW w \in Workers, NEW c \in Call, Start(w, c)
  PROVE  TypeOK'
<1>1. [stage |-> "checked", call |-> c, verified |-> Verify(c), id |-> 0] \in Job
  BY VerifyType, DeliberationAssumption DEF Job
<1> QED BY <1>1 DEF TypeOK, Start

LEMMA CommittedType ==
  ASSUME TypeOK, NEW w \in Workers, Serving(w),
         NEW i \in 0..MaxContributions, Committed(w, i)
  PROVE  job' \in [Workers -> Job \cup {Idle}]
<1>1. [job[w] EXCEPT !.stage = "committed", !.id = i] \in Job
  BY ServingJob DEF Job
<1> QED BY <1>1 DEF TypeOK, Committed

LEMMA LeaveType ==
  ASSUME TypeOK, NEW w \in Workers, Leave(w)
  PROVE  /\ job' \in [Workers -> Job \cup {Idle}]
         /\ late' \in [Deliberations -> SUBSET Workers]
BY DEF TypeOK, Leave

LEMMA CreateType ==
  ASSUME TypeOK, NEW w \in Workers, CommitCreate(w)
  PROVE  TypeOK'
<1>1. Serving(w)
  BY DEF CommitCreate, Checked
<1>2. [row[job[w].call.on] EXCEPT !.status = "open"] \in Row
  BY <1>1, ServingJob DEF Row
<1>3. row' \in [Deliberations -> Row]
  BY <1>1, <1>2, ServingJob DEF CommitCreate, TypeOK
<1>4. job' \in [Workers -> Job \cup {Idle}] /\ late' \in [Deliberations -> SUBSET Workers]
  BY <1>1, CommittedType, LeaveType, DeliberationAssumption DEF CommitCreate, TypeOK
<1> QED BY <1>3, <1>4 DEF CommitCreate, TypeOK

LEMMA ClaimType ==
  ASSUME TypeOK, NEW w \in Workers, CommitClaim(w)
  PROVE  TypeOK'
<1>1. Serving(w)
  BY DEF CommitClaim, Checked
<1>2. [row[job[w].call.on] EXCEPT !.claimer = job[w].call.client] \in Row
  BY <1>1, ServingJob DEF Row
<1>3. row' \in [Deliberations -> Row]
  BY <1>1, <1>2, ServingJob DEF CommitClaim, TypeOK
<1>4. job' \in [Workers -> Job \cup {Idle}] /\ late' \in [Deliberations -> SUBSET Workers]
  BY <1>1, CommittedType, LeaveType, DeliberationAssumption DEF CommitClaim, TypeOK
<1> QED BY <1>3, <1>4 DEF CommitClaim, TypeOK

LEMMA ContributionType ==
  ASSUME TypeOK, NEW w \in Workers, CommitContribution(w)
  PROVE  TypeOK'
<1>1. Serving(w)
  BY DEF CommitContribution, Checked
<1>2. [by |-> job[w].call, verified |-> job[w].verified] \in Contribution
  BY <1>1, ServingJob DEF Contribution
<1>3. /\ contributions' \in Seq(Contribution)
      /\ Len(contributions') = Len(contributions) + 1
      /\ Len(contributions') <= MaxContributions
  BY <1>2, DeliberationAssumption DEF CommitContribution, TypeOK
<1>4. Len(contributions) + 1 \in 0..MaxContributions
  BY DeliberationAssumption DEF CommitContribution, TypeOK
<1>5. job' \in [Workers -> Job \cup {Idle}]
  BY <1>1, <1>4, CommittedType DEF CommitContribution
<1> QED BY <1>3, <1>5 DEF CommitContribution, TypeOK

LEMMA ResolutionType ==
  ASSUME TypeOK, NEW w \in Workers, CommitResolution(w)
  PROVE  TypeOK'
<1>1. Serving(w)
  BY DEF CommitResolution, Checked
<1>2. job[w].call.refs \in SUBSET Ids
  BY <1>1, ServingJob DEF Call
<1>3. row' \in [Deliberations -> Row]
  BY <1>1, <1>2, ServingJob DEF CommitResolution, TypeOK, Row
<1>4. job' \in [Workers -> Job \cup {Idle}]
  BY <1>1, CommittedType, DeliberationAssumption DEF CommitResolution
<1>5. late' \in [Deliberations -> SUBSET Workers] /\ replaced' \subseteq Deliberations
  BY <1>1, ServingJob DEF CommitResolution, TypeOK
<1> QED BY <1>3, <1>4, <1>5 DEF CommitResolution, TypeOK

LEMMA FinishType ==
  ASSUME TypeOK, NEW w \in Workers, Finish(w)
  PROVE  TypeOK'
<1>1. [of |-> job[w].call, id |-> job[w].id] \in Record
  BY ServingJob DEF Finish, Record, Job
<1> QED BY <1>1, LeaveType DEF Finish, TypeOK

LEMMA TypeStep == TypeOK /\ [Next]_vars => TypeOK'
<1> SUFFICES ASSUME TypeOK, [Next]_vars PROVE TypeOK'
  OBVIOUS
<1>1. CASE UNCHANGED vars
  BY <1>1 DEF TypeOK, vars
<1>2. ASSUME NEW w \in Workers, NEW c \in Call, Replay(w, c) PROVE TypeOK'
  BY <1>2 DEF Replay, TypeOK
<1>3. ASSUME NEW w \in Workers, Crash(w) PROVE TypeOK'
  BY <1>3, LeaveType DEF Crash, TypeOK
<1> QED BY <1>1, <1>2, <1>3, StartType, CreateType, ClaimType, ContributionType,
           ResolutionType, FinishType DEF Next

(* The variables of Deliberation keep their types, for any instance.       *)
THEOREM DeliberationTypes == Spec => []TypeOK
BY InitType, TypeStep, PTL DEF Spec

-----------------------------------------------------------------------------
(* A claim, once made, stays whose it is: the claim of another client is   *)
(* refused under the lock, and no other tool writes the claimer.           *)
LEMMA ClaimKept ==
  ASSUME TypeOK, [Next]_vars,
         NEW d \in Deliberations, row[d].claimer # NoClient
  PROVE  row'[d].claimer = row[d].claimer
<1>1. ASSUME NEW w \in Workers, CommitCreate(w)
      PROVE  row'[d].claimer = row[d].claimer
  <2>1. Serving(w)
    BY <1>1 DEF CommitCreate, Checked
  <2>2. \/ row' = row
        \/ row' = [row EXCEPT ![job[w].call.on].status = "open"]
    BY <1>1 DEF CommitCreate
  <2>3. CASE d = job[w].call.on
    BY <2>2, <2>3 DEF TypeOK, Row
  <2>4. CASE d # job[w].call.on
    BY <2>1, <2>2, <2>4, ServingJob DEF TypeOK
  <2> QED BY <2>3, <2>4
<1>2. ASSUME NEW w \in Workers, CommitClaim(w)
      PROVE  row'[d].claimer = row[d].claimer
  <2>1. Serving(w)
    BY <1>2 DEF CommitClaim, Checked
  <2>2. CASE d # job[w].call.on
    BY <1>2, <2>1, <2>2, ServingJob DEF CommitClaim, TypeOK
  <2>3. CASE d = job[w].call.on /\ row[d].claimer = job[w].call.client
    BY <1>2, <2>1, <2>3, ServingJob DEF CommitClaim, TypeOK, Row
  <2>4. CASE d = job[w].call.on /\ row[d].claimer # job[w].call.client
    BY <1>2, <2>1, <2>4, ServingJob DEF CommitClaim, TypeOK
  <2> QED BY <2>2, <2>3, <2>4
<1>3. ASSUME NEW w \in Workers, CommitResolution(w)
      PROVE  row'[d].claimer = row[d].claimer
  BY <1>3, ServingJob DEF CommitResolution, Checked, TypeOK, Row
<1>4. CASE UNCHANGED row
  BY <1>4
<1> QED BY <1>1, <1>2, <1>3, <1>4
        DEF Next, Replay, Start, CommitContribution, Finish, Crash, vars

(* A call that serves as before was verified as before.                    *)
LEMMA VerifiedKept ==
  ASSUME ClaimInv, [Next]_vars, NEW w \in Workers, Serving(w),
         job[w].verified.claimed
  PROVE  row'[job[w].call.on].claimer = job[w].call.client
<1>1. row[job[w].call.on].claimer = job[w].call.client
  BY DEF ClaimInv, JobsVerified
<1>2. job[w].call.client # NoClient
  BY ServingJob, DeliberationAssumption DEF ClaimInv
<1> QED BY <1>1, <1>2, ClaimKept, ServingJob DEF ClaimInv

(* What a commit leaves of the job, and of the jobs of others.             *)
LEMMA CommittedJob ==
  ASSUME TypeOK, NEW w \in Workers, Serving(w), NEW i, Committed(w, i)
  PROVE  /\ job'[w].stage = "committed" /\ job'[w].call = job[w].call
         /\ job'[w].verified = job[w].verified /\ job'[w].id = i
BY ServingJob DEF Committed, TypeOK, Job

LEMMA OtherJobs ==
  ASSUME TypeOK, NEW w \in Workers, NEW v \in Workers, v # w
  PROVE  /\ \A c \in Call : Start(v, c) => job'[w] = job[w]
         /\ \A i \in 0..MaxContributions : Committed(v, i) => job'[w] = job[w]
         /\ Leave(v) => job'[w] = job[w]
<1>1. ASSUME NEW c \in Call, Start(v, c) PROVE job'[w] = job[w]
  BY <1>1 DEF Start, TypeOK
<1>2. ASSUME NEW i \in 0..MaxContributions, Committed(v, i) PROVE job'[w] = job[w]
  BY <1>2 DEF Committed, TypeOK
<1>3. ASSUME Leave(v) PROVE job'[w] = job[w]
  BY <1>3 DEF Leave, TypeOK
<1> QED BY <1>1, <1>2, <1>3

(* A step serves a call it has begun with, or begins one.                  *)
LEMMA ServedBefore ==
  ASSUME TypeOK, [Next]_vars, NEW w \in Workers, Serving(w)'
  PROVE  \/ /\ Serving(w) /\ job'[w].call = job[w].call
            /\ job'[w].verified = job[w].verified
         \/ \E c \in Call : Start(w, c)
<1> DEFINE P == \/ /\ Serving(w) /\ job'[w].call = job[w].call
                   /\ job'[w].verified = job[w].verified
                \/ \E c \in Call : Start(w, c)
<1>1. CASE job'[w] = job[w]
  BY <1>1 DEF Serving
<1>2. ASSUME NEW v \in Workers, v # w, \/ \E c \in Call : Start(v, c)
                                       \/ \E i \in 0..MaxContributions : Committed(v, i)
                                       \/ Leave(v)
      PROVE job'[w] = job[w]
  BY <1>2, OtherJobs
<1>3. ASSUME Leave(w) PROVE FALSE
  BY <1>3 DEF Leave, Serving, TypeOK
<1>4. ASSUME NEW i \in 0..MaxContributions, Serving(w), Committed(w, i)
      PROVE  job'[w].call = job[w].call /\ job'[w].verified = job[w].verified
  BY <1>4, CommittedJob
<1>5. Len(contributions) + 1 \in 0..MaxContributions
        \/ ~(Len(contributions) < MaxContributions)
  BY DeliberationAssumption DEF TypeOK
<1>6. 0 \in 0..MaxContributions
  BY DeliberationAssumption
<1>7. ASSUME NEW v \in Workers, CommitCreate(v) PROVE P
  BY <1>1, <1>2, <1>3, <1>4, <1>6, <1>7 DEF CommitCreate, Checked
<1>8. ASSUME NEW v \in Workers, CommitClaim(v) PROVE P
  BY <1>1, <1>2, <1>3, <1>4, <1>6, <1>8 DEF CommitClaim, Checked
<1>9. ASSUME NEW v \in Workers, CommitContribution(v) PROVE P
  BY <1>1, <1>2, <1>4, <1>5, <1>9 DEF CommitContribution, Checked
<1>10. ASSUME NEW v \in Workers, CommitResolution(v) PROVE P
  BY <1>1, <1>2, <1>4, <1>6, <1>10 DEF CommitResolution, Checked
<1>11. ASSUME NEW v \in Workers, Finish(v) \/ Crash(v) PROVE P
  BY <1>1, <1>2, <1>3, <1>11 DEF Finish, Crash
<1>12. ASSUME NEW v \in Workers, NEW c \in Call, Start(v, c) PROVE P
  BY <1>1, <1>2, <1>12
<1>13. ASSUME NEW v \in Workers, NEW c \in Call, Replay(v, c) PROVE P
  BY <1>1, <1>13 DEF Replay
<1>14. CASE UNCHANGED vars
  BY <1>1, <1>14 DEF vars
<1> QED BY <1>7, <1>8, <1>9, <1>10, <1>11, <1>12, <1>13, <1>14 DEF Next

LEMMA JobsVerifiedStep == ClaimInv /\ [Next]_vars => JobsVerified'
<1> SUFFICES ASSUME ClaimInv, [Next]_vars,
                    NEW w \in Workers, Serving(w)', job'[w].verified.claimed
             PROVE  row'[job'[w].call.on].claimer = job'[w].call.client
  BY DEF JobsVerified
<1>1. ASSUME NEW c \in Call, Start(w, c)
      PROVE  row'[job'[w].call.on].claimer = job'[w].call.client
  <2>1. job'[w].call = c /\ row' = row
        /\ job'[w].verified.claimed = (row[c.on].claimer = c.client)
    BY <1>1 DEF Start, Verify, ClaimInv, TypeOK
  <2> QED BY <2>1
<1>2. CASE /\ Serving(w) /\ job'[w].call = job[w].call
           /\ job'[w].verified = job[w].verified
  BY <1>2, VerifiedKept
<1> QED BY <1>1, <1>2, ServedBefore DEF ClaimInv

(* A step of one process.                                                  *)
StepOf(w) ==
  \/ \E c \in Call : Replay(w, c) \/ Start(w, c)
  \/ CommitCreate(w) \/ CommitClaim(w) \/ CommitContribution(w) \/ CommitResolution(w)
  \/ Finish(w) \/ Crash(w)

LEMMA NextIsStep == Next <=> \E w \in Workers : StepOf(w)
BY DEF Next, StepOf

(* Which action writes which table.                                        *)
LEMMA StepWrites ==
  ASSUME NEW w, StepOf(w)
  PROVE  /\ contributions' = contributions \/ CommitContribution(w)
         /\ records' = records \/ Finish(w)
         /\ replaced \subseteq replaced'
<1>1. ASSUME CommitResolution(w)
      PROVE  UNCHANGED <<contributions, records>> /\ replaced \subseteq replaced'
  BY <1>1 DEF CommitResolution
<1>2. ASSUME CommitContribution(w) PROVE UNCHANGED <<records, replaced>>
  BY <1>2 DEF CommitContribution
<1>3. ASSUME Finish(w) PROVE UNCHANGED <<contributions, replaced>>
  BY <1>3 DEF Finish
<1>4. ASSUME CommitCreate(w) \/ CommitClaim(w) \/ Crash(w)
      PROVE  UNCHANGED <<contributions, records, replaced>>
  BY <1>4 DEF CommitCreate, CommitClaim, Crash
<1>5. ASSUME NEW c \in Call, Replay(w, c) \/ Start(w, c)
      PROVE  UNCHANGED <<contributions, records, replaced>>
  BY <1>5 DEF Replay, Start
<1> QED BY <1>1, <1>2, <1>3, <1>4, <1>5 DEF StepOf

(* What is in the table stays there, and only a contribution is added.     *)
LEMMA ContributionsGrow ==
  ASSUME TypeOK, [Next]_vars
  PROVE  \/ contributions' = contributions
         \/ \E w \in Workers :
              /\ Checked(w, "contribute")
              /\ contributions' = Append(contributions,
                   [by |-> job[w].call, verified |-> job[w].verified])
<1>1. ASSUME NEW w \in Workers, StepOf(w), CommitContribution(w)
      PROVE  /\ Checked(w, "contribute")
             /\ contributions' = Append(contributions,
                  [by |-> job[w].call, verified |-> job[w].verified])
  BY <1>1 DEF CommitContribution
<1>2. CASE UNCHANGED vars
  BY <1>2 DEF vars
<1> QED BY <1>1, <1>2, NextIsStep, StepWrites

LEMMA ClaimHoldsStep == ClaimInv /\ [Next]_vars => ClaimHolds'
<1> SUFFICES ASSUME ClaimInv, [Next]_vars,
                    NEW i \in DOMAIN contributions',
                    contributions'[i].verified.claimed
             PROVE  row'[contributions'[i].by.on].claimer = contributions'[i].by.client
  BY DEF ClaimHolds
<1>1. CASE i \in DOMAIN contributions /\ contributions'[i] = contributions[i]
  <2>1. contributions[i] \in Contribution
    BY <1>1 DEF ClaimInv, TypeOK
  <2>2. /\ row[contributions[i].by.on].claimer = contributions[i].by.client
        /\ contributions[i].by.client # NoClient
        /\ contributions[i].by.on \in Deliberations
    BY <1>1, <2>1, DeliberationAssumption
    DEF ClaimInv, ClaimHolds, Contribution, Call
  <2> QED BY <1>1, <2>2, ClaimKept DEF ClaimInv
<1>2. ASSUME NEW w \in Workers, Checked(w, "contribute"),
             contributions'[i] = [by |-> job[w].call, verified |-> job[w].verified]
      PROVE  row'[contributions'[i].by.on].claimer = contributions'[i].by.client
  BY <1>2, VerifiedKept DEF Checked
<1>3. ASSUME NEW w \in Workers, Checked(w, "contribute"),
             contributions' = Append(contributions,
                   [by |-> job[w].call, verified |-> job[w].verified])
      PROVE  \/ i \in DOMAIN contributions /\ contributions'[i] = contributions[i]
             \/ contributions'[i] = [by |-> job[w].call, verified |-> job[w].verified]
  BY <1>3 DEF ClaimInv, TypeOK
<1> QED BY <1>1, <1>2, <1>3, ContributionsGrow DEF ClaimInv

(* The claim a contribution was verified against stands for ever, however  *)
(* many clients claim through however many server processes: the row lock  *)
(* of claim_deliberation is enough.                                        *)
THEOREM ClaimsHold == Spec => []ClaimHolds
<1>1. Init => ClaimInv
  BY InitType DEF Init, ClaimInv, ClaimHolds, JobsVerified, Serving
<1>2. ClaimInv /\ [Next]_vars => ClaimInv'
  BY TypeStep, ClaimHoldsStep, JobsVerifiedStep DEF ClaimInv
<1>3. ClaimInv => ClaimHolds
  BY DEF ClaimInv
<1> QED BY <1>1, <1>2, <1>3, PTL DEF Spec

-----------------------------------------------------------------------------
(* How the rows change, however many processes serve calls: what is there  *)
(* stays, a claim is kept, and a resolved deliberation stays resolved, by  *)
(* the same client unless it is remembered as replaced.                    *)
Persists(d) ==
  /\ row[d].status # "absent" => row'[d].status # "absent"
  /\ row[d].claimer # NoClient => row'[d].claimer = row[d].claimer
  /\ row[d].status = "resolved" =>
       /\ row'[d].status = "resolved"
       /\ row'[d].resolver = row[d].resolver \/ d \in replaced'

LEMMA RowPersists ==
  ASSUME TypeOK, [Next]_vars, NEW d \in Deliberations
  PROVE  Persists(d)
<1>1. ASSUME NEW w \in Workers, CommitCreate(w)
      PROVE  Persists(d)
  <2>1. Serving(w)
    BY <1>1 DEF CommitCreate, Checked
  <2>2. CASE row'[d] = row[d]
    BY <2>2 DEF Persists
  <2>3. CASE d = job[w].call.on /\ row[d].status = "absent"
             /\ row' = [row EXCEPT ![d].status = "open"]
    BY <2>3 DEF Persists, TypeOK, Row
  <2> QED BY <1>1, <2>1, <2>2, <2>3, ServingJob DEF CommitCreate, TypeOK
<1>2. ASSUME NEW w \in Workers, CommitClaim(w)
      PROVE  Persists(d)
  <2>1. Serving(w)
    BY <1>2 DEF CommitClaim, Checked
  <2>2. CASE row'[d] = row[d]
    BY <2>2 DEF Persists
  <2>3. CASE d = job[w].call.on /\ row[d].status = "open"
             /\ row[d].claimer \in {NoClient, job[w].call.client}
             /\ row' = [row EXCEPT ![d].claimer = job[w].call.client]
    BY <2>3 DEF Persists, TypeOK, Row
  <2> QED BY <1>2, <2>1, <2>2, <2>3, ServingJob DEF CommitClaim, TypeOK
<1>3. ASSUME NEW w \in Workers, CommitResolution(w)
      PROVE  Persists(d)
  <2>1. Serving(w)
    BY <1>3 DEF CommitResolution, Checked
  <2>2. CASE d # job[w].call.on
    BY <1>3, <2>1, <2>2, ServingJob DEF CommitResolution, Persists, TypeOK
  <2>3. CASE d = job[w].call.on
    BY <1>3, <2>3 DEF CommitResolution, Persists, TypeOK, Row
  <2> QED BY <2>2, <2>3
<1>4. CASE UNCHANGED row
  BY <1>4 DEF Persists
<1> QED BY <1>1, <1>2, <1>3, <1>4
        DEF Next, Replay, Start, CommitContribution, Finish, Crash, vars

(* What was replaced stays remembered.                                     *)
LEMMA ReplacedGrows ==
  ASSUME [Next]_vars
  PROVE  replaced \subseteq replaced'
<1>1. CASE UNCHANGED vars
  BY <1>1 DEF vars
<1> QED BY <1>1, NextIsStep, StepWrites

LEMMA ContributionsPersist ==
  ASSUME TypeOK, [Next]_vars, NEW i \in DOMAIN contributions
  PROVE  i \in DOMAIN contributions' /\ contributions'[i] = contributions[i]
<1>1. ASSUME NEW x, contributions' = Append(contributions, x)
      PROVE  i \in DOMAIN contributions' /\ contributions'[i] = contributions[i]
  BY <1>1 DEF TypeOK
<1> QED BY <1>1, ContributionsGrow

(* The record a call leaves tells what the call had committed.             *)
LEMMA RecordStep ==
  ASSUME FinalInv, [Next]_vars
  PROVE  RecordTruthful' /\ RecordFinal'
<1> DEFINE True(c, i) ==
      CASE c.op = "create"  -> row'[c.on].status # "absent"
        [] c.op = "claim"   -> row'[c.on].claimer = c.client
        [] c.op = "resolve" -> row'[c.on].resolver = c.client \/ c.on \in replaced'
        [] c.op = "contribute" ->
             i \in DOMAIN contributions' /\ contributions'[i].by = c
<1> DEFINE Final(c) == c.op = "resolve" => row'[c.on].status = "resolved"
<1>1. ASSUME NEW r \in records
      PROVE  True(r.of, r.id) /\ Final(r.of)
  <2>1. r.of \in Call /\ r.of.on \in Deliberations /\ r.of.client \in Clients
        /\ r.of.op \in {"create", "claim", "contribute", "resolve"}
    BY <1>1 DEF FinalInv, TypeOK, Record, Call
  <2>2. Persists(r.of.on) /\ r.of.client # NoClient
    BY <2>1, RowPersists, DeliberationAssumption DEF FinalInv
  <2>3. CASE r.of.op = "create"
    BY <1>1, <2>2, <2>3 DEF FinalInv, RecordTruthful, Persists
  <2>4. CASE r.of.op = "claim"
    BY <1>1, <2>2, <2>4 DEF FinalInv, RecordTruthful, Persists
  <2>5. CASE r.of.op = "resolve"
    BY <1>1, <2>2, <2>5, ReplacedGrows DEF FinalInv, RecordTruthful, RecordFinal, Persists
  <2>6. CASE r.of.op = "contribute"
    BY <1>1, <2>6, ContributionsPersist DEF FinalInv, RecordTruthful
  <2> QED BY <2>1, <2>3, <2>4, <2>5, <2>6
<1>2. ASSUME NEW w \in Workers, Finish(w),
             NEW r \in {[of |-> job[w].call, id |-> job[w].id]}
      PROVE  True(r.of, r.id) /\ Final(r.of)
  <2>1. /\ Serving(w) /\ job[w].stage = "committed" /\ JobTruthful(w)
        /\ UNCHANGED <<row, contributions, replaced>>
    BY <1>2 DEF Finish, FinalInv
  <2>2. job[w].call.op \in {"create", "claim", "contribute", "resolve"}
    BY <2>1, ServingJob DEF FinalInv, Call
  <2>3. r.of = job[w].call /\ r.id = job[w].id
    BY <1>2
  <2>4. CASE job[w].call.op = "create"
    BY <2>1, <2>3, <2>4 DEF JobTruthful
  <2>5. CASE job[w].call.op = "claim"
    BY <2>1, <2>3, <2>5 DEF JobTruthful
  <2>6. CASE job[w].call.op = "resolve"
    BY <2>1, <2>3, <2>6 DEF JobTruthful
  <2>7. CASE job[w].call.op = "contribute"
    BY <2>1, <2>3, <2>7 DEF JobTruthful
  <2> QED BY <2>2, <2>4, <2>5, <2>6, <2>7
<1>3. \/ records' = records
      \/ \E w \in Workers :
           /\ Finish(w)
           /\ records' \subseteq records \cup {[of |-> job[w].call, id |-> job[w].id]}
  <2>1. ASSUME NEW w \in Workers, Finish(w)
        PROVE  records' \subseteq records \cup {[of |-> job[w].call, id |-> job[w].id]}
    BY <2>1 DEF Finish
  <2>2. CASE UNCHANGED vars
    BY <2>2 DEF vars
  <2> QED BY <2>1, <2>2, NextIsStep, StepWrites
<1>4. ASSUME NEW r \in records' PROVE True(r.of, r.id) /\ Final(r.of)
  BY <1>1, <1>2, <1>3, <1>4
<1> HIDE DEF True, Final
<1>5. RecordTruthful'
  BY <1>4 DEF RecordTruthful, True
<1>6. RecordFinal'
  BY <1>4 DEF RecordFinal, Final
<1> QED BY <1>5, <1>6

-----------------------------------------------------------------------------
(* What a call another process serves sees of a step: its job is left      *)
(* alone, and a deliberation it found open is still open, or it is         *)
(* remembered as late.                                                     *)
LEMMA OthersSee ==
  ASSUME TypeOK, NEW w \in Workers, NEW v \in Workers, v # w, StepOf(v), Serving(w),
         NEW d \in Deliberations
  PROVE  /\ job'[w] = job[w]
         /\ w \in late[d] => w \in late'[d]
         /\ row[d].status = "open" =>
              row'[d].status = "open" \/ (row'[d].status = "resolved" /\ w \in late'[d])
<1> DEFINE Sees == /\ job'[w] = job[w]
                   /\ w \in late[d] => w \in late'[d]
                   /\ row[d].status = "open" =>
                        \/ row'[d].status = "open"
                        \/ row'[d].status = "resolved" /\ w \in late'[d]
<1>1. ASSUME Leave(v) PROVE job'[w] = job[w] /\ (w \in late[d] => w \in late'[d])
  BY <1>1 DEF Leave, TypeOK
<1>2. ASSUME NEW i, Committed(v, i) PROVE job'[w] = job[w]
  BY <1>2 DEF Committed, TypeOK
<1>3. ASSUME NEW c \in Call, Replay(v, c) \/ Start(v, c) PROVE Sees
  BY <1>3 DEF Replay, Start, TypeOK
<1>4. ASSUME CommitCreate(v) PROVE Sees
  <2>1. job'[w] = job[w] /\ (w \in late[d] => w \in late'[d])
    BY <1>1, <1>2, <1>4 DEF CommitCreate
  <2>2. row[d].status = "open" => row'[d].status = "open"
    BY <1>4, ServingJob DEF CommitCreate, Checked, TypeOK, Row
  <2> QED BY <2>1, <2>2
<1>5. ASSUME CommitClaim(v) PROVE Sees
  <2>1. job'[w] = job[w] /\ (w \in late[d] => w \in late'[d])
    BY <1>1, <1>2, <1>5 DEF CommitClaim
  <2>2. \/ row' = row
        \/ row' = [row EXCEPT ![job[v].call.on].claimer = job[v].call.client]
    BY <1>5 DEF CommitClaim
  <2>3. row'[d].status = row[d].status
    BY <2>2, <1>5, ServingJob DEF CommitClaim, Checked, TypeOK, Row
  <2> QED BY <2>1, <2>3
<1>6. ASSUME CommitContribution(v) PROVE Sees
  BY <1>2, <1>6 DEF CommitContribution
<1>7. ASSUME CommitResolution(v) PROVE Sees
  <2>1. job'[w] = job[w]
    BY <1>2, <1>7 DEF CommitResolution
  <2>2. Serving(v) /\ job[v].call.on \in Deliberations
    BY <1>7, ServingJob DEF CommitResolution, Checked
  <2>3. CASE d # job[v].call.on
    BY <1>7, <2>1, <2>2, <2>3 DEF CommitResolution, TypeOK
  <2>4. CASE d = job[v].call.on /\ row[d].status # "resolved"
    <3>1. late'[d] = {u \in Workers \ {v} : Serving(u)}
      BY <1>7, <2>2, <2>4 DEF CommitResolution, TypeOK
    <3>2. w \in late'[d]
      BY <3>1
    <3>3. row'[d].status = "resolved"
      BY <1>7, <2>2, <2>4 DEF CommitResolution, TypeOK, Row
    <3> QED BY <2>1, <3>2, <3>3
  <2>5. CASE d = job[v].call.on /\ row[d].status = "resolved"
    BY <1>7, <2>1, <2>2, <2>5 DEF CommitResolution
  <2> QED BY <2>3, <2>4, <2>5
<1>8. ASSUME Finish(v) \/ Crash(v) PROVE Sees
  BY <1>1, <1>8 DEF Finish, Crash
<1> QED BY <1>3, <1>4, <1>5, <1>6, <1>7, <1>8 DEF StepOf

(* What a process serves while another one takes a step.                   *)
LEMMA JobBeside ==
  ASSUME FinalInv, NEW w \in Workers, NEW v \in Workers, v # w, StepOf(v)
  PROVE  JobTruthful(w)'
<1> SUFFICES ASSUME Serving(w)' PROVE JobTruthful(w)'
  BY DEF JobTruthful
<1>1. Next
  BY NextIsStep
<1>2. Serving(w)
  <2>1. job'[w] = job[w]
    BY DEF FinalInv, StepOf, Replay, Start, CommitCreate, CommitClaim, CommitContribution,
           CommitResolution, Finish, Crash, Leave, Committed, TypeOK
  <2> QED BY <2>1 DEF Serving
<1> DEFINE c == job[w].call
           d == c.on
<1>3. c \in Call /\ d \in Deliberations /\ c.client \in Clients /\ c.client # NoClient
      /\ c.op \in {"create", "claim", "contribute", "resolve"}
  BY <1>2, ServingJob, DeliberationAssumption DEF FinalInv, Call
<1>4. /\ job'[w] = job[w]
      /\ w \in late[d] => w \in late'[d]
      /\ row[d].status = "open" =>
           row'[d].status = "open" \/ (row'[d].status = "resolved" /\ w \in late'[d])
  BY <1>2, <1>3, OthersSee DEF FinalInv
<1>5. Persists(d)
  BY <1>1, <1>3, RowPersists DEF FinalInv
<1>6. replaced \subseteq replaced'
  BY <1>1, ReplacedGrows
<1>7. JobTruthful(w)
  BY DEF FinalInv
<1>8. CASE job[w].stage = "checked"
  BY <1>2, <1>4, <1>5, <1>7, <1>8 DEF JobTruthful, Persists
<1>9. CASE job[w].stage # "checked" /\ c.op = "create"
  BY <1>2, <1>4, <1>5, <1>7, <1>9 DEF JobTruthful, Persists
<1>10. CASE job[w].stage # "checked" /\ c.op = "claim"
  BY <1>2, <1>3, <1>4, <1>5, <1>7, <1>10 DEF JobTruthful, Persists
<1>11. CASE job[w].stage # "checked" /\ c.op = "resolve"
  BY <1>2, <1>4, <1>5, <1>6, <1>7, <1>11 DEF JobTruthful, Persists
<1>12. CASE job[w].stage # "checked" /\ c.op = "contribute"
  BY <1>1, <1>2, <1>4, <1>7, <1>12, ContributionsPersist DEF FinalInv, JobTruthful
<1> QED BY <1>3, <1>8, <1>9, <1>10, <1>11, <1>12

(* What a process serves after a step of its own.                          *)
LEMMA JobOwn ==
  ASSUME FinalInv, NEW w \in Workers, StepOf(w)
  PROVE  JobTruthful(w)'
<1> USE DEF FinalInv
<1> SUFFICES ASSUME Serving(w)' PROVE JobTruthful(w)'
  BY DEF JobTruthful
<1>1. ASSUME NEW c \in Call, Start(w, c) PROVE JobTruthful(w)'
  <2>1. job'[w].stage = "checked" /\ job'[w].call = c /\ row' = row
    BY <1>1 DEF Start, TypeOK
  <2>2. c.op \in {"contribute", "resolve"} => row[c.on].status = "open"
    BY <1>1 DEF Start, Passes
  <2> QED BY <2>1, <2>2 DEF JobTruthful
<1>2. ASSUME NEW c \in Call, Replay(w, c) PROVE JobTruthful(w)'
  BY <1>2 DEF Replay, JobTruthful, Serving
<1>3. ASSUME Leave(w) PROVE FALSE
  BY <1>3 DEF Leave, Serving, TypeOK
<1>4. ASSUME CommitCreate(w) PROVE JobTruthful(w)'
  <2>1. Serving(w) /\ job[w].call.op = "create"
    BY <1>4 DEF CommitCreate, Checked
  <2>2. job'[w].stage = "committed" /\ job'[w].call = job[w].call
    <3>1. Committed(w, 0)
      BY <1>3, <1>4 DEF CommitCreate
    <3> QED BY <2>1, <3>1, ServingJob DEF Committed, TypeOK, Job
  <2>3. row'[job[w].call.on].status = "open"
    BY <1>3, <1>4, <2>1, ServingJob DEF CommitCreate, TypeOK, Row
  <2> QED BY <2>1, <2>2, <2>3 DEF JobTruthful
<1>5. ASSUME CommitClaim(w) PROVE JobTruthful(w)'
  <2>1. Serving(w) /\ job[w].call.op = "claim"
    BY <1>5 DEF CommitClaim, Checked
  <2>2. job'[w].stage = "committed" /\ job'[w].call = job[w].call
    <3>1. Committed(w, 0)
      BY <1>3, <1>5 DEF CommitClaim
    <3> QED BY <2>1, <3>1, ServingJob DEF Committed, TypeOK, Job
  <2>3. row'[job[w].call.on].claimer = job[w].call.client
    BY <1>3, <1>5, <2>1, ServingJob DEF CommitClaim, TypeOK, Row
  <2> QED BY <2>1, <2>2, <2>3 DEF JobTruthful
<1>6. ASSUME CommitContribution(w) PROVE JobTruthful(w)'
  <2>1. Serving(w) /\ job[w].call.op = "contribute"
    BY <1>6 DEF CommitContribution, Checked
  <2>2. /\ job'[w].stage = "committed" /\ job'[w].call = job[w].call
        /\ job'[w].id = Len(contributions) + 1
    BY <1>6, <2>1, ServingJob DEF CommitContribution, Committed, TypeOK, Job
  <2>3. /\ Len(contributions) + 1 \in DOMAIN contributions'
        /\ contributions'[Len(contributions) + 1].by = job[w].call
    BY <1>6 DEF CommitContribution, TypeOK
  <2> QED BY <2>1, <2>2, <2>3 DEF JobTruthful
<1>7. ASSUME CommitResolution(w) PROVE JobTruthful(w)'
  <2>1. Serving(w) /\ job[w].call.op = "resolve"
    BY <1>7 DEF CommitResolution, Checked
  <2>2. job'[w].stage = "committed" /\ job'[w].call = job[w].call
    BY <1>7, <2>1, ServingJob DEF CommitResolution, Committed, TypeOK, Job
  <2>3. /\ row'[job[w].call.on].resolver = job[w].call.client
        /\ row'[job[w].call.on].status = "resolved"
    BY <1>7, <2>1, ServingJob DEF CommitResolution, TypeOK, Row
  <2> QED BY <2>1, <2>2, <2>3 DEF JobTruthful
<1>8. ASSUME Finish(w) \/ Crash(w) PROVE FALSE
  BY <1>3, <1>8 DEF Finish, Crash
<1> QED BY <1>1, <1>2, <1>4, <1>5, <1>6, <1>7, <1>8 DEF StepOf

LEMMA JobStep ==
  ASSUME FinalInv, [Next]_vars, NEW w \in Workers
  PROVE  JobTruthful(w)'
<1>1. CASE UNCHANGED vars
  <2>1. JobTruthful(w)
    BY DEF FinalInv
  <2> QED BY <1>1, <2>1 DEF JobTruthful, Serving, vars
<1>2. ASSUME NEW v \in Workers, StepOf(v) PROVE JobTruthful(w)'
  BY <1>2, JobOwn, JobBeside
<1> QED BY <1>1, <1>2, NextIsStep

LEMMA FinalInit == Init => FinalInv
<1> SUFFICES ASSUME Init PROVE FinalInv
  OBVIOUS
<1>1. \A w \in Workers : JobTruthful(w)
  BY DEF Init, JobTruthful, Serving
<1> QED BY <1>1, InitType DEF Init, FinalInv, RecordTruthful, RecordFinal

LEMMA FinalStep == FinalInv /\ [Next]_vars => FinalInv'
BY TypeStep, RecordStep, JobStep DEF FinalInv

(* Every stored response stays true, however many processes there are, so  *)
(* that a replay tells a client what is in the tables, or what a call      *)
(* replaced that was being served when the deliberation was resolved.      *)
THEOREM RecordsTruthful == Spec => []RecordTruthful
<1>1. FinalInv => RecordTruthful
  BY DEF FinalInv
<1> QED BY FinalInit, FinalStep, <1>1, PTL DEF Spec

(* Who changes a resolved deliberation was serving a call that had passed  *)
(* its checks when the deliberation was resolved.                          *)
LEMMA LateStep ==
  ASSUME FinalInv, Next, NEW d \in Deliberations, row[d].status = "resolved",
         row'[d] # row[d] \/ On(d)' # On(d)
  PROVE  \E w \in late[d] :
           job[w].stage = "checked" /\ job'[w].stage = "committed" /\ job[w].call.on = d
<1>0. TypeOK /\ \A w \in Workers : JobTruthful(w)
  BY DEF FinalInv
<1>1. ASSUME NEW w \in Workers, Checked(w, "contribute") \/ Checked(w, "resolve"),
             Committed(w, 0) \/ Committed(w, Len(contributions) + 1), job[w].call.on = d
      PROVE  w \in late[d] /\ job[w].stage = "checked" /\ job'[w].stage = "committed"
  <2>1. Serving(w) /\ job[w].stage = "checked"
        /\ job[w].call.op \in {"contribute", "resolve"}
    BY <1>1 DEF Checked
  <2>2. JobTruthful(w)
    BY <1>0
  <2>3. row[d].status # "open"
    OBVIOUS
  <2>4. w \in late[d]
    BY <1>1, <2>1, <2>2, <2>3 DEF JobTruthful
  <2>5. job'[w].stage = "committed"
    BY <1>0, <1>1, <2>1, CommittedJob
  <2> QED BY <2>1, <2>4, <2>5
<1>2. PICK w \in Workers : StepOf(w)
  BY NextIsStep
<1>3. CASE CommitContribution(w)
  <2>1. Serving(w)
    BY <1>3 DEF CommitContribution, Checked
  <2>2. contributions' = Append(contributions,
                           [by |-> job[w].call, verified |-> job[w].verified])
    BY <1>3 DEF CommitContribution
  <2>3. job[w].call.on # d => On(d)' = On(d)
    BY <1>0, <2>2 DEF On, TypeOK
  <2>4. job[w].call.on = d
    BY <1>3, <2>3 DEF CommitContribution
  <2> QED BY <1>1, <1>3, <2>4 DEF CommitContribution
<1>4. CASE CommitResolution(w)
  <2>1. On(d)' = On(d)
    BY <1>4 DEF CommitResolution, On
  <2>2. job[w].call.on = d
    BY <1>0, <1>4, <2>1, ServingJob DEF CommitResolution, Checked, TypeOK
  <2> QED BY <1>1, <1>4, <2>2 DEF CommitResolution
<1>5. ASSUME CommitCreate(w) PROVE row'[d] = row[d] /\ On(d)' = On(d)
  BY <1>0, <1>5, ServingJob DEF CommitCreate, Checked, On, TypeOK
<1>6. ASSUME CommitClaim(w) PROVE row'[d] = row[d] /\ On(d)' = On(d)
  BY <1>0, <1>6, ServingJob DEF CommitClaim, Checked, On, TypeOK
<1>7. ASSUME UNCHANGED <<row, contributions>> PROVE row'[d] = row[d] /\ On(d)' = On(d)
  BY <1>7 DEF On
<1> QED BY <1>2, <1>3, <1>4, <1>5, <1>6, <1>7 DEF StepOf, Replay, Start, Finish, Crash

(* A resolved deliberation is changed only by a call that was being served *)
(* when it was resolved, however many processes serve calls: none that     *)
(* starts after that contributes to it, claims it or replaces what the     *)
(* user approved.                                                          *)
THEOREM ResolvedIsClosed == Spec => ClosedToNewCalls
<1>1. FinalInv /\ [Next]_vars =>
        [\A d \in Deliberations :
           (row[d].status = "resolved" /\ (row'[d] # row[d] \/ On(d)' # On(d))) =>
             \E w \in late[d] :
               /\ job[w].stage = "checked" /\ job'[w].stage = "committed"
               /\ job[w].call.on = d]_vars
  BY LateStep
<1> QED BY FinalInit, FinalStep, <1>1, PTL DEF Spec, ClosedToNewCalls

-----------------------------------------------------------------------------
(* ReviewsV1: answers agree and what is published was approved.            *)

(* What is stored of a save that was answered, or is about to be.          *)
SaveStored(c, i) ==
  /\ i \in DOMAIN reviews /\ reviews[i].by = c
  /\ ~Drafts(c) => reviews[i].published

(* A record is of a stored review, and the only one of its key; an answer  *)
(* is what a record says.                                                  *)
RecordsStored ==
  /\ \A r \in saveRecords : r.of.key # NoKey /\ SaveStored(r.of, r.id)
  /\ \A r, q \in saveRecords : (r.of.saver = q.of.saver /\ r.of.key = q.of.key) => r = q
  /\ \A a \in answers : \E r \in saveRecords :
       r.of.saver = a.saver /\ r.of.key = a.key /\ r.id = a.id

(* What a request in flight has already written is there.                  *)
Underway ==
  \A t \in Threads :
    /\ Stage(t, "drafted") => /\ thread[t].id \in DOMAIN reviews
                              /\ reviews[thread[t].id].by = thread[t].call
                              /\ thread[t].call.key # NoKey
    /\ Stage(t, "made") => SaveStored(thread[t].call, thread[t].id) /\ thread[t].call.key # NoKey
    /\ Stage(t, "edit") => thread[t].id \in DOMAIN reviews /\ thread[t].version < MaxVersion
    /\ Stage(t, "publish") => thread[t].id \in DOMAIN reviews

(* In order there is one request at a time and what it has read still      *)
(* holds.                                                                  *)
RequestsOrdered ==
  ~overlap =>
    /\ \A s, t \in Threads : (~Stage(s, "free") /\ ~Stage(t, "free")) => s = t
    /\ \A t \in Threads :
         /\ Stage(t, "drafted") => reviews[thread[t].id].version = 1
         /\ Stage(t, "edit") => /\ reviews[thread[t].id].version = thread[t].version
                                /\ ~reviews[thread[t].id].published
         /\ Stage(t, "publish") => reviews[thread[t].id].version = thread[t].version

RvInv == RvTypeOK /\ RecordsStored /\ Underway /\ RequestsOrdered /\ PublishedAsApproved

LEMMA InitReviews == RvInit => RvInv
<1> SUFFICES ASSUME RvInit PROVE RvInv
  OBVIOUS
<1>1. /\ reviews = <<>> /\ reviews \in Seq(Review) /\ Len(reviews) = 0 /\ DOMAIN reviews = {}
      /\ saveRecords = {} /\ answers = {} /\ overlap \in BOOLEAN /\ subjectExists = FALSE
  BY DEF RvInit
<1>2. \A t \in Threads : Stage(t, "free")
  BY DEF RvInit, Stage, Free
<1>3. thread \in [Threads -> Making \cup Changing \cup {Free}]
  BY DEF RvInit
<1>4. RvTypeOK
  <2>1. Len(reviews) <= MaxReviews
    BY <1>1, ReviewsAssumption
  <2>2. saveRecords \subseteq SaveRecord /\ answers \subseteq Answer
    BY <1>1
  <2>3. overlap \in BOOLEAN /\ subjectExists \in BOOLEAN
    BY <1>1
  <2> QED BY <1>1, <1>3, <2>1, <2>2, <2>3 DEF RvTypeOK
<1> QED BY <1>1, <1>2, <1>4 DEF RvInv, RecordsStored, Underway, RequestsOrdered, PublishedAsApproved, Stage

-----------------------------------------------------------------------------
ReviewRequest == Making \cup Changing \cup {Free}

(* A thread turns to j, the others stay.                                   *)
LEMMA Turned ==
  ASSUME RvTypeOK, NEW t \in Threads, NEW j \in ReviewRequest, Turns(t, j)
  PROVE  /\ thread' \in [Threads -> ReviewRequest]
         /\ thread'[t] = j
         /\ \A u \in Threads : u # t => thread'[u] = thread[u]
BY DEF RvTypeOK, Turns, ReviewRequest

(* What a thread has in its hands.                                         *)
LEMMA ReviewInHand ==
  ASSUME RvTypeOK, NEW t \in Threads
  PROVE  /\ (Stage(t, "looked") \/ Stage(t, "missing") \/ Stage(t, "found")
              \/ Stage(t, "drafted") \/ Stage(t, "made")) => thread[t] \in Making
         /\ (Stage(t, "edit") \/ Stage(t, "publish")) => thread[t] \in Changing
<1>1. thread[t] \in Making \cup Changing \cup {Free}
  BY DEF RvTypeOK
<1>2. \A j \in Making : j.stage \in {"looked", "missing", "found", "drafted", "made"}
  BY DEF Making
<1>3. \A j \in Changing : j.stage \in {"edit", "publish"}
  BY DEF Changing
<1>4. Free.stage = "free"
  BY DEF Free
<1> QED BY <1>1, <1>2, <1>3, <1>4 DEF Stage

(* In order a thread that serves is the only one to be busy then.          *)
LEMMA ServedAlone ==
  ASSUME NEW t \in Threads, Serves(t), ~overlap
  PROVE  \A u \in Threads : Stage(u, "free")
BY DEF Serves

(* Reviews keep their call and stay published.                             *)
Kept ==
  \A i \in DOMAIN reviews :
    /\ i \in DOMAIN reviews' /\ reviews'[i].by = reviews[i].by
    /\ reviews[i].published => reviews'[i].published

LEMMA RecordedKept ==
  ASSUME RecordsStored, Kept, UNCHANGED <<saveRecords, answers>>
  PROVE  RecordsStored'
BY DEF RecordsStored, Kept, SaveStored, Drafts

(* A step that turns one thread and keeps the reviews has only that thread *)
(* to account for.                                                         *)
LEMMA UnderwayKept ==
  ASSUME RvInv, Kept, NEW t \in Threads,
         \A u \in Threads : u # t => thread'[u] = thread[u],
         /\ Stage(t, "drafted")' => /\ thread'[t].id \in DOMAIN reviews'
                                    /\ reviews'[thread'[t].id].by = thread'[t].call
                                    /\ thread'[t].call.key # NoKey
         /\ Stage(t, "made")' => /\ thread'[t].id \in DOMAIN reviews'
                                 /\ reviews'[thread'[t].id].by = thread'[t].call
                                 /\ ~Drafts(thread'[t].call) => reviews'[thread'[t].id].published
                                 /\ thread'[t].call.key # NoKey
         /\ Stage(t, "edit")' => thread'[t].id \in DOMAIN reviews' /\ thread'[t].version < MaxVersion
         /\ Stage(t, "publish")' => thread'[t].id \in DOMAIN reviews'
  PROVE  Underway'
<1>1. ASSUME NEW u \in Threads, u # t
      PROVE  /\ Stage(u, "drafted")' => /\ thread'[u].id \in DOMAIN reviews'
                                        /\ reviews'[thread'[u].id].by = thread'[u].call
                                        /\ thread'[u].call.key # NoKey
             /\ Stage(u, "made")' => SaveStored(thread[u].call, thread[u].id)' /\ thread'[u].call.key # NoKey
             /\ Stage(u, "edit")' => thread'[u].id \in DOMAIN reviews' /\ thread'[u].version < MaxVersion
             /\ Stage(u, "publish")' => thread'[u].id \in DOMAIN reviews'
  <2>1. thread'[u] = thread[u] /\ (\A s : Stage(u, s)' <=> Stage(u, s))
    BY <1>1 DEF Stage
  <2> QED BY <2>1 DEF RvInv, Underway, Kept, SaveStored, Drafts
<1> QED BY <1>1 DEF Underway, SaveStored

(* A step that leaves the tables alone.                                    *)
LEMMA ReviewReadOnly ==
  ASSUME RvInv, NEW t \in Threads, NEW j \in ReviewRequest, Turns(t, j),
         UNCHANGED <<overlap, reviews, saveRecords, answers>>, subjectExists' \in BOOLEAN,
         j.stage \notin {"drafted", "made"},
         j.stage \in {"edit", "publish"} =>
           /\ j.id \in DOMAIN reviews /\ reviews[j.id].version = j.version
           /\ j.stage = "edit" => j.version < MaxVersion /\ ~reviews[j.id].published,
         ~overlap => \/ j.stage = "free" \/ ~Stage(t, "free")
                     \/ \A u \in Threads : Stage(u, "free")
  PROVE  RvInv'
<1>1. /\ thread' \in [Threads -> ReviewRequest] /\ thread'[t] = j
      /\ \A u \in Threads : u # t => thread'[u] = thread[u]
  BY Turned DEF RvInv
<1>2. RvTypeOK'
  BY <1>1 DEF RvInv, RvTypeOK, ReviewRequest
<1>3. RecordsStored'
  BY RecordedKept DEF RvInv, Kept
<1>4. Underway'
  <2>1. Kept
    BY DEF Kept
  <2>2. ~Stage(t, "drafted")' /\ ~Stage(t, "made")'
    BY <1>1 DEF Stage
  <2>3. /\ Stage(t, "edit")' => thread'[t].id \in DOMAIN reviews' /\ thread'[t].version < MaxVersion
        /\ Stage(t, "publish")' => thread'[t].id \in DOMAIN reviews'
    BY <1>1 DEF Stage
  <2> QED BY <1>1, <2>1, <2>2, <2>3, UnderwayKept
<1>5. RequestsOrdered'
  <2> SUFFICES ASSUME ~overlap PROVE RequestsOrdered'
    BY DEF RequestsOrdered
  <2>1. \A u \in Threads : u # t => \A s : Stage(u, s)' <=> Stage(u, s)
    BY <1>1 DEF Stage
  <2>2. \A s : Stage(t, s)' <=> j.stage = s
    BY <1>1 DEF Stage
  <2>3. \A s, u \in Threads : (~Stage(s, "free")' /\ ~Stage(u, "free")') => s = u
    BY <2>1, <2>2 DEF RvInv, RequestsOrdered
  <2>4. ASSUME NEW u \in Threads
        PROVE  /\ Stage(u, "drafted")' => reviews[thread'[u].id].version = 1
               /\ Stage(u, "edit")' => /\ reviews[thread'[u].id].version = thread'[u].version
                                       /\ ~reviews[thread'[u].id].published
               /\ Stage(u, "publish")' => reviews[thread'[u].id].version = thread'[u].version
    BY <1>1, <2>1, <2>2 DEF RvInv, RequestsOrdered
  <2> QED BY <2>3, <2>4 DEF RequestsOrdered
<1>6. PublishedAsApproved'
  BY DEF RvInv, PublishedAsApproved
<1> QED BY <1>2, <1>3, <1>4, <1>5, <1>6 DEF RvInv

-----------------------------------------------------------------------------
LEMMA ReplaySaveStep ==
  ASSUME RvInv, NEW t \in Threads, NEW c \in SaveCall, ReplaySave(t, c)
  PROVE  RvInv'
<1>1. PICK r \in SavedAs(c) :
        answers' = answers \cup {[saver |-> c.saver, key |-> c.key, id |-> r.id]}
  BY DEF ReplaySave
<1>2. UNCHANGED <<overlap, subjectExists, reviews, saveRecords, thread>>
  BY DEF ReplaySave
<1>3. r \in saveRecords /\ r.of.saver = c.saver /\ r.of.key = c.key
  BY <1>1 DEF SavedAs
<1>4. [saver |-> c.saver, key |-> c.key, id |-> r.id] \in Answer
  <2>1. r \in SaveRecord /\ c.key # NoKey
    BY <1>3 DEF RvInv, RvTypeOK, RecordsStored
  <2>2. r.id \in ReviewIds /\ c.saver \in Savers /\ c.key \in SaveKeys
    BY <2>1 DEF SaveRecord, SaveCall
  <2> QED BY <2>2 DEF Answer
<1>5. RvTypeOK'
  BY <1>1, <1>2, <1>4 DEF RvInv, RvTypeOK
<1>6. RecordsStored'
  BY <1>1, <1>2, <1>3 DEF RvInv, RecordsStored, SaveStored
<1>7. Underway' /\ RequestsOrdered' /\ PublishedAsApproved'
  BY <1>2 DEF RvInv, Underway, RequestsOrdered, PublishedAsApproved, Stage, SaveStored
<1> QED BY <1>5, <1>6, <1>7 DEF RvInv

LEMMA LookUpStep ==
  ASSUME RvInv, NEW t \in Threads, NEW c \in SaveCall, LookUp(t, c)
  PROVE  RvInv'
<1> DEFINE j == [stage |-> "looked", call |-> c, id |-> 0]
<1>1. j \in Making /\ j.stage = "looked"
  BY ReviewsAssumption DEF Making
<1>2. Turns(t, j) /\ UNCHANGED <<overlap, subjectExists, reviews, saveRecords, answers>>
  BY DEF LookUp
<1>3. ~overlap => \A u \in Threads : Stage(u, "free")
  BY ServedAlone DEF LookUp, ServesCall
<1>4. subjectExists' \in BOOLEAN
  BY <1>2 DEF RvInv, RvTypeOK
<1> HIDE DEF j
<1> QED BY <1>1, <1>2, <1>3, <1>4, ReviewReadOnly DEF ReviewRequest

LEMMA FindSubjectStep ==
  ASSUME RvInv, NEW t \in Threads, FindSubject(t)
  PROVE  RvInv'
<1>1. PICK j : j = [thread[t] EXCEPT !.stage = IF subjectExists THEN "found" ELSE "missing"]
  OBVIOUS
<1>2. thread[t] \in Making /\ Stage(t, "looked")
  BY ReviewInHand DEF RvInv, FindSubject
<1>3. j \in Making /\ j.stage \in {"found", "missing"}
  BY <1>1, <1>2 DEF Making
<1>4. Turns(t, j) /\ UNCHANGED <<overlap, subjectExists, reviews, saveRecords, answers>>
  BY <1>1 DEF FindSubject
<1>5. subjectExists' \in BOOLEAN /\ ~Stage(t, "free")
  BY <1>2, <1>4 DEF RvInv, RvTypeOK, Stage
<1> QED BY <1>3, <1>4, <1>5, ReviewReadOnly DEF ReviewRequest

LEMMA InsertSubjectStep ==
  ASSUME RvInv, NEW t \in Threads, InsertSubject(t)
  PROVE  RvInv'
<1>1. PICK j : j = IF subjectExists THEN Free ELSE [thread[t] EXCEPT !.stage = "found"]
  OBVIOUS
<1>2. thread[t] \in Making /\ Stage(t, "missing")
  BY ReviewInHand DEF RvInv, InsertSubject
<1>3. j \in ReviewRequest /\ j.stage \in {"found", "free"}
  BY <1>1, <1>2 DEF Making, ReviewRequest, Free
<1>4. Turns(t, j) /\ UNCHANGED <<overlap, reviews, saveRecords, answers>> /\ subjectExists' = TRUE
  BY <1>1 DEF InsertSubject
<1>5. ~Stage(t, "free")
  BY <1>2 DEF Stage
<1> QED BY <1>3, <1>4, <1>5, ReviewReadOnly

LEMMA ReadForEditStep ==
  ASSUME RvInv, NEW t \in Threads, NEW i \in DOMAIN reviews, ReadForEdit(t, i)
  PROVE  RvInv'
<1>1. PICK j : j = [stage |-> "edit", id |-> i, version |-> reviews[i].version]
  OBVIOUS
<1>2. reviews[i] \in Review /\ i \in ReviewIds
  BY ElementOfSeq, ReviewsAssumption DEF RvInv, RvTypeOK, ReviewIds
<1>3. j \in Changing /\ j.stage = "edit" /\ j.id = i /\ j.version = reviews[i].version
  BY <1>1, <1>2 DEF Changing, Review
<1>4. Turns(t, j) /\ UNCHANGED <<overlap, subjectExists, reviews, saveRecords, answers>>
      /\ reviews[i].version < MaxVersion /\ ~reviews[i].published
  BY <1>1 DEF ReadForEdit, Editable
<1>5. ~overlap => \A u \in Threads : Stage(u, "free")
  BY ServedAlone DEF ReadForEdit
<1>6. subjectExists' \in BOOLEAN
  BY <1>4 DEF RvInv, RvTypeOK
<1> QED BY <1>3, <1>4, <1>5, <1>6, ReviewReadOnly DEF ReviewRequest

LEMMA ReadForPublishStep ==
  ASSUME RvInv, NEW t \in Threads, NEW i \in DOMAIN reviews, ReadForPublish(t, i)
  PROVE  RvInv'
<1>1. PICK j : j = [stage |-> "publish", id |-> i, version |-> reviews[i].version]
  OBVIOUS
<1>2. reviews[i] \in Review /\ i \in ReviewIds
  BY ElementOfSeq, ReviewsAssumption DEF RvInv, RvTypeOK, ReviewIds
<1>3. j \in Changing /\ j.stage = "publish" /\ j.id = i /\ j.version = reviews[i].version
  BY <1>1, <1>2 DEF Changing, Review
<1>4. Turns(t, j) /\ UNCHANGED <<overlap, subjectExists, reviews, saveRecords, answers>>
  BY <1>1 DEF ReadForPublish
<1>5. ~overlap => \A u \in Threads : Stage(u, "free")
  BY ServedAlone DEF ReadForPublish
<1>6. subjectExists' \in BOOLEAN
  BY <1>4 DEF RvInv, RvTypeOK
<1> QED BY <1>3, <1>4, <1>5, <1>6, ReviewReadOnly DEF ReviewRequest

LEMMA CreateSubjectStep ==
  ASSUME RvInv, CreateSubject
  PROVE  RvInv'
<1>1. UNCHANGED <<overlap, reviews, saveRecords, answers, thread>> /\ subjectExists' = TRUE
  BY DEF CreateSubject
<1>2. RvTypeOK'
  BY <1>1 DEF RvInv, RvTypeOK
<1> QED BY <1>1, <1>2 DEF RvInv, RecordsStored, Underway, RequestsOrdered, PublishedAsApproved, Stage, SaveStored

LEMMA RestartStep ==
  ASSUME RvInv, Restart
  PROVE  RvInv'
<1>1. UNCHANGED <<overlap, subjectExists, reviews, saveRecords, answers>>
      /\ thread' = [t \in Threads |-> Free]
  BY DEF Restart
<1>2. RvTypeOK'
  BY <1>1 DEF RvInv, RvTypeOK
<1>3. \A t \in Threads : \A s : Stage(t, s)' <=> s = "free"
  BY <1>1 DEF Stage, Free
<1>4. RecordsStored' /\ PublishedAsApproved'
  BY <1>1 DEF RvInv, RecordsStored, PublishedAsApproved, SaveStored
<1>5. Underway'
  BY <1>3 DEF Underway
<1>6. RequestsOrdered'
  BY <1>3 DEF RequestsOrdered
<1> QED BY <1>2, <1>4, <1>5, <1>6 DEF RvInv

-----------------------------------------------------------------------------
(* What replacing a review does.                                           *)
WithReview(i, e) == [reviews EXCEPT ![i] = e]

LEMMA ReviewReplaced ==
  ASSUME RvTypeOK, NEW i \in DOMAIN reviews, NEW e \in Review,
         e.by = reviews[i].by, reviews[i].published => e.published,
         reviews' = WithReview(i, e)
  PROVE  /\ reviews' \in Seq(Review) /\ Len(reviews') = Len(reviews)
         /\ DOMAIN reviews' = DOMAIN reviews /\ reviews'[i] = e
         /\ \A k \in DOMAIN reviews : k # i => reviews'[k] = reviews[k]
         /\ Kept
<1>1. /\ WithReview(i, e) \in Seq(Review) /\ Len(WithReview(i, e)) = Len(reviews)
      /\ DOMAIN WithReview(i, e) = DOMAIN reviews /\ WithReview(i, e)[i] = e
      /\ \A k \in DOMAIN reviews : k # i => WithReview(i, e)[k] = reviews[k]
  BY ExceptSeq DEF WithReview, RvTypeOK
<1>2. /\ reviews' \in Seq(Review) /\ Len(reviews') = Len(reviews)
      /\ DOMAIN reviews' = DOMAIN reviews /\ reviews'[i] = e
      /\ \A k \in DOMAIN reviews : k # i => reviews'[k] = reviews[k]
  BY <1>1
<1>3. Kept
  BY <1>2 DEF Kept
<1> QED BY <1>2, <1>3

(* A thread that has replaced a review and is free, or about to record it. *)
LEMMA Changed ==
  ASSUME RvInv, NEW t \in Threads, NEW j \in ReviewRequest, Turns(t, j),
         UNCHANGED <<overlap, subjectExists, saveRecords, answers>>,
         NEW i \in DOMAIN reviews, NEW e \in Review,
         e.by = reviews[i].by, reviews[i].published => e.published,
         reviews' = WithReview(i, e),
         \/ j.stage = "free"
         \/ /\ j.stage = "made" /\ j.id = i /\ e.by = j.call /\ e.published
            /\ j.call.key # NoKey /\ ~Stage(t, "free"),
         ~overlap =>
           /\ ~Stage(t, "free") \/ \A u \in Threads : Stage(u, "free")
           /\ e.version = 1 + e.edits
           /\ e.published => e.approved = e.version
  PROVE  RvInv'
<1>1. /\ thread' \in [Threads -> ReviewRequest] /\ thread'[t] = j
      /\ \A u \in Threads : u # t => thread'[u] = thread[u]
  BY Turned DEF RvInv
<1>2. /\ reviews' \in Seq(Review) /\ Len(reviews') = Len(reviews)
      /\ DOMAIN reviews' = DOMAIN reviews /\ reviews'[i] = e
      /\ \A k \in DOMAIN reviews : k # i => reviews'[k] = reviews[k]
      /\ Kept
  BY ReviewReplaced DEF RvInv
<1>3. RvTypeOK'
  BY <1>1, <1>2 DEF RvInv, RvTypeOK, ReviewRequest
<1>4. RecordsStored'
  BY <1>2, RecordedKept DEF RvInv
<1>5. Underway'
  <2>1. ~Stage(t, "drafted")' /\ ~Stage(t, "edit")' /\ ~Stage(t, "publish")'
    BY <1>1 DEF Stage
  <2>2. Stage(t, "made")' => /\ thread'[t].id \in DOMAIN reviews'
                             /\ reviews'[thread'[t].id].by = thread'[t].call
                             /\ reviews'[thread'[t].id].published
                             /\ thread'[t].call.key # NoKey
    BY <1>1, <1>2 DEF Stage
  <2> QED BY <1>1, <1>2, <2>1, <2>2, UnderwayKept
<1>6. RequestsOrdered'
  <2> SUFFICES ASSUME ~overlap PROVE RequestsOrdered'
    BY DEF RequestsOrdered
  <2>1. \A u \in Threads : u # t => Stage(u, "free") /\ Stage(u, "free")'
    BY <1>1 DEF RvInv, RequestsOrdered, Stage
  <2>2. ~Stage(t, "drafted")' /\ ~Stage(t, "edit")' /\ ~Stage(t, "publish")'
    BY <1>1 DEF Stage
  <2>3. \A u \in Threads : ~Stage(u, "drafted")' /\ ~Stage(u, "edit")' /\ ~Stage(u, "publish")'
    BY <2>1, <2>2 DEF Stage
  <2> QED BY <2>1, <2>3 DEF RequestsOrdered
<1>7. PublishedAsApproved'
  BY <1>2 DEF RvInv, PublishedAsApproved
<1> QED BY <1>3, <1>4, <1>5, <1>6, <1>7 DEF RvInv

LEMMA PublishSavedStep ==
  ASSUME RvInv, NEW t \in Threads, PublishSaved(t)
  PROVE  RvInv'
<1>1. PICK i, j, e : /\ i = thread[t].id /\ j = [thread[t] EXCEPT !.stage = "made"]
                     /\ e = [reviews[i] EXCEPT !.approved = 1, !.published = TRUE]
  OBVIOUS
<1>2. Stage(t, "drafted") /\ thread[t] \in Making /\ ~Stage(t, "free")
  BY ReviewInHand DEF RvInv, PublishSaved, Stage
<1>3. i \in DOMAIN reviews /\ reviews[i].by = thread[t].call /\ thread[t].call.key # NoKey
  BY <1>1, <1>2 DEF RvInv, Underway
<1>4. reviews[i] \in Review
  BY <1>3, ElementOfSeq DEF RvInv, RvTypeOK
<1>5. /\ e \in Review /\ e.by = reviews[i].by /\ e.published /\ e.approved = 1
      /\ e.version = reviews[i].version /\ e.edits = reviews[i].edits
  <2>1. 1 \in 0..MaxVersion
    BY ReviewsAssumption
  <2>2. e \in Review
    BY <1>1, <1>4, <2>1 DEF Review
  <2>3. /\ e.by = reviews[i].by /\ e.published = TRUE /\ e.approved = 1
        /\ e.version = reviews[i].version /\ e.edits = reviews[i].edits
    BY <1>1, <1>4 DEF Review
  <2> QED BY <2>2, <2>3
<1>6. j \in Making /\ j.stage = "made" /\ j.id = i /\ j.call = thread[t].call
  BY <1>1, <1>2 DEF Making
<1>7. /\ reviews' = WithReview(i, e) /\ Turns(t, j)
      /\ UNCHANGED <<overlap, subjectExists, saveRecords, answers>>
  BY <1>1 DEF PublishSaved, PublishVersion, WithReview
<1>8. ~overlap => e.version = 1 + e.edits /\ e.approved = e.version
  BY <1>1, <1>2, <1>3, <1>5 DEF RvInv, RequestsOrdered, PublishedAsApproved
<1> QED BY <1>2, <1>3, <1>5, <1>6, <1>7, <1>8, Changed DEF ReviewRequest

LEMMA CommitPublishStep ==
  ASSUME RvInv, NEW t \in Threads, CommitPublish(t)
  PROVE  RvInv'
<1>1. PICK i, v, e : /\ i = thread[t].id /\ v = thread[t].version
                     /\ e = [reviews[i] EXCEPT !.approved = v, !.published = TRUE]
  OBVIOUS
<1>2. Stage(t, "publish") /\ thread[t] \in Changing /\ ~Stage(t, "free")
  BY ReviewInHand DEF RvInv, CommitPublish, Stage
<1>3. i \in DOMAIN reviews /\ v \in Versions
  BY <1>1, <1>2 DEF RvInv, Underway, Changing
<1>4. reviews[i] \in Review
  BY <1>3, ElementOfSeq DEF RvInv, RvTypeOK
<1>5. /\ e \in Review /\ e.by = reviews[i].by /\ e.published /\ e.approved = v
      /\ e.version = reviews[i].version /\ e.edits = reviews[i].edits
  <2>1. v \in 0..MaxVersion
    BY <1>3, ReviewsAssumption DEF Versions
  <2>2. e \in Review
    BY <1>1, <1>4, <2>1 DEF Review
  <2>3. /\ e.by = reviews[i].by /\ e.published = TRUE /\ e.approved = v
        /\ e.version = reviews[i].version /\ e.edits = reviews[i].edits
    BY <1>1, <1>4 DEF Review
  <2> QED BY <2>2, <2>3
<1>6. /\ reviews' = WithReview(i, e) /\ Turns(t, Free)
      /\ UNCHANGED <<overlap, subjectExists, saveRecords, answers>>
  BY <1>1 DEF CommitPublish, PublishVersion, WithReview
<1>7. ~overlap => e.version = 1 + e.edits /\ e.approved = e.version
  BY <1>1, <1>2, <1>3, <1>5 DEF RvInv, RequestsOrdered, PublishedAsApproved
<1>8. Free \in ReviewRequest /\ Free.stage = "free"
  BY DEF Free, ReviewRequest
<1> QED BY <1>2, <1>3, <1>5, <1>6, <1>7, <1>8, Changed

LEMMA CommitEditStep ==
  ASSUME RvInv, NEW t \in Threads, CommitEdit(t)
  PROVE  RvInv'
<1>1. PICK i, v, e : /\ i = thread[t].id /\ v = thread[t].version
                     /\ e = [reviews[i] EXCEPT !.version = v + 1, !.edits = reviews[i].edits + 1]
  OBVIOUS
<1>2. Stage(t, "edit") /\ thread[t] \in Changing /\ ~Stage(t, "free")
  BY ReviewInHand DEF RvInv, CommitEdit, Stage
<1>3. i \in DOMAIN reviews /\ v \in Versions /\ v < MaxVersion
  BY <1>1, <1>2 DEF RvInv, Underway, Changing
<1>4. reviews[i] \in Review
  BY <1>3, ElementOfSeq DEF RvInv, RvTypeOK
<1>5. /\ e \in Review /\ e.by = reviews[i].by /\ e.published = reviews[i].published
      /\ e.version = v + 1 /\ e.edits = reviews[i].edits + 1
  <2>1. v + 1 \in Versions /\ reviews[i].edits + 1 \in Nat
    BY <1>3, <1>4, ReviewsAssumption DEF Versions, Review
  <2>2. e \in Review
    BY <1>1, <1>4, <2>1 DEF Review
  <2>3. /\ e.by = reviews[i].by /\ e.published = reviews[i].published
        /\ e.version = v + 1 /\ e.edits = reviews[i].edits + 1
    BY <1>1, <1>4 DEF Review
  <2> QED BY <2>2, <2>3
<1>6. /\ reviews' = WithReview(i, e) /\ Turns(t, Free)
      /\ UNCHANGED <<overlap, subjectExists, saveRecords, answers>>
  BY <1>1 DEF CommitEdit, WithReview
<1>7. ~overlap => e.version = 1 + e.edits /\ ~e.published
  <2>1. ~overlap => /\ reviews[i].version = v /\ ~reviews[i].published
                    /\ reviews[i].version = 1 + reviews[i].edits
    BY <1>1, <1>2, <1>3 DEF RvInv, RequestsOrdered, PublishedAsApproved
  <2>2. reviews[i].edits \in Nat
    BY <1>4 DEF Review
  <2> QED BY <1>5, <2>1, <2>2
<1>8. Free \in ReviewRequest /\ Free.stage = "free"
  BY DEF Free, ReviewRequest
<1> QED BY <1>2, <1>3, <1>5, <1>6, <1>7, <1>8, Changed

(* A deletion changes no thread; nothing else of the review either.        *)
LEMMA SoftDeleteStep ==
  ASSUME RvInv, NEW t \in Threads, NEW i \in DOMAIN reviews, SoftDelete(t, i)
  PROVE  RvInv'
<1>1. PICK e : e = [reviews[i] EXCEPT !.deleted = TRUE]
  OBVIOUS
<1>2. reviews[i] \in Review
  BY ElementOfSeq DEF RvInv, RvTypeOK
<1>3. /\ e \in Review /\ e.by = reviews[i].by /\ e.published = reviews[i].published
      /\ e.approved = reviews[i].approved
      /\ e.version = reviews[i].version /\ e.edits = reviews[i].edits
  BY <1>1, <1>2 DEF Review
<1>4. /\ reviews' = WithReview(i, e) /\ Stage(t, "free")
      /\ UNCHANGED <<overlap, subjectExists, saveRecords, answers, thread>>
  BY <1>1 DEF SoftDelete, WithReview, Serves
<1>5. Turns(t, thread[t])
  BY <1>4 DEF Turns, RvInv, RvTypeOK
<1>6. thread[t] \in ReviewRequest /\ thread[t].stage = "free"
  BY <1>4 DEF RvInv, RvTypeOK, ReviewRequest, Stage
<1>7. ~overlap => /\ \A u \in Threads : Stage(u, "free")
                  /\ e.version = 1 + e.edits /\ (e.published => e.approved = e.version)
  BY <1>3, ServedAlone DEF SoftDelete, RvInv, PublishedAsApproved
<1> QED BY <1>3, <1>4, <1>5, <1>6, <1>7, Changed

(* What appending a review does.                                           *)
LEMMA Added ==
  ASSUME RvTypeOK, NEW e \in Review, reviews' = Append(reviews, e)
  PROVE  /\ reviews' \in Seq(Review) /\ Len(reviews') = Len(reviews) + 1
         /\ Len(reviews) \in Nat /\ DOMAIN reviews = 1..Len(reviews)
         /\ DOMAIN reviews' = 1..(Len(reviews) + 1)
         /\ reviews'[Len(reviews) + 1] = e
         /\ \A i \in DOMAIN reviews : reviews'[i] = reviews[i]
         /\ Kept
<1>1. reviews \in Seq(Review)
  BY DEF RvTypeOK
<1>2. /\ Append(reviews, e) \in Seq(Review) /\ Len(Append(reviews, e)) = Len(reviews) + 1
      /\ Len(reviews) \in Nat /\ DOMAIN reviews = 1..Len(reviews)
      /\ DOMAIN Append(reviews, e) = 1..(Len(reviews) + 1)
      /\ Append(reviews, e)[Len(reviews) + 1] = e
      /\ \A i \in DOMAIN reviews : Append(reviews, e)[i] = reviews[i]
  BY <1>1
<1>3. Kept
  BY <1>2 DEF Kept
<1> QED BY <1>2, <1>3

LEMMA CreateExperienceStep ==
  ASSUME RvInv, NEW t \in Threads, CreateExperience(t)
  PROVE  RvInv'
<1>1. PICK c, n, e, j :
        /\ c = thread[t].call /\ n = Len(reviews) + 1
        /\ e = [by |-> c, version |-> 1, approved |-> 0, edits |-> 0,
                published |-> FALSE, deleted |-> FALSE]
        /\ j = IF c.key = NoKey THEN Free
               ELSE [stage |-> IF Drafts(c) THEN "made" ELSE "drafted", call |-> c, id |-> n]
  OBVIOUS
<1>2. /\ thread[t] \in Making /\ ~Stage(t, "free")
  BY ReviewInHand DEF RvInv, CreateExperience, Stage
<1>3. /\ reviews' = Append(reviews, e) /\ Turns(t, j) /\ n <= MaxReviews
      /\ UNCHANGED <<overlap, subjectExists, saveRecords, answers>>
  BY <1>1 DEF CreateExperience
<1>4. c \in SaveCall
  BY <1>1, <1>2 DEF Making
<1>5. /\ e \in Review /\ e.by = c /\ e.version = 1 /\ e.edits = 0 /\ e.published = FALSE
  <2>1. 1 \in Versions /\ 0 \in 0..MaxVersion
    BY ReviewsAssumption DEF Versions
  <2> QED BY <1>1, <1>4, <2>1 DEF Review
<1>6. /\ reviews' \in Seq(Review) /\ Len(reviews') = n /\ n \in Nat \ {0}
      /\ DOMAIN reviews' = DOMAIN reviews \cup {n} /\ reviews'[n] = e
      /\ \A i \in DOMAIN reviews : reviews'[i] = reviews[i]
      /\ Kept
  BY <1>1, <1>3, <1>5, Added DEF RvInv
<1>7. /\ j \in ReviewRequest
      /\ \/ j.stage = "free"
         \/ /\ j.stage \in {"made", "drafted"} /\ j.id = n /\ j.call = c /\ c.key # NoKey
            /\ j.stage = "made" => Drafts(c)
  BY <1>1, <1>3, <1>4, <1>6, ReviewsAssumption DEF ReviewRequest, Making, Free
<1>8. /\ thread' \in [Threads -> ReviewRequest] /\ thread'[t] = j
      /\ \A u \in Threads : u # t => thread'[u] = thread[u]
  BY <1>3, <1>7, Turned DEF RvInv
<1>9. RvTypeOK'
  BY <1>3, <1>6, <1>8 DEF RvInv, RvTypeOK, ReviewRequest
<1>10. RecordsStored'
  BY <1>3, <1>6, RecordedKept DEF RvInv
<1>11. Underway'
  <2>1. /\ Stage(t, "drafted")' => /\ thread'[t].id \in DOMAIN reviews'
                                   /\ reviews'[thread'[t].id].by = thread'[t].call
                                   /\ thread'[t].call.key # NoKey
        /\ Stage(t, "made")' => /\ thread'[t].id \in DOMAIN reviews'
                                /\ reviews'[thread'[t].id].by = thread'[t].call
                                /\ Drafts(thread'[t].call)
                                /\ thread'[t].call.key # NoKey
        /\ ~Stage(t, "edit")' /\ ~Stage(t, "publish")'
    BY <1>5, <1>6, <1>7, <1>8 DEF Stage
  <2> QED BY <1>6, <1>8, <2>1, UnderwayKept
<1>12. RequestsOrdered'
  <2> SUFFICES ASSUME ~overlap PROVE RequestsOrdered'
    BY <1>3 DEF RequestsOrdered
  <2>1. \A u \in Threads : u # t => Stage(u, "free") /\ Stage(u, "free")'
    BY <1>2, <1>8 DEF RvInv, RequestsOrdered, Stage
  <2>2. /\ ~Stage(t, "edit")' /\ ~Stage(t, "publish")'
        /\ Stage(t, "drafted")' => reviews'[thread'[t].id].version = 1
    BY <1>5, <1>6, <1>7, <1>8 DEF Stage
  <2>3. \A u \in Threads : u # t => ~Stage(u, "drafted")' /\ ~Stage(u, "edit")' /\ ~Stage(u, "publish")'
    BY <2>1 DEF Stage
  <2> QED BY <2>1, <2>2, <2>3 DEF RequestsOrdered
<1>13. PublishedAsApproved'
  BY <1>3, <1>5, <1>6 DEF RvInv, PublishedAsApproved
<1> QED BY <1>9, <1>10, <1>11, <1>12, <1>13 DEF RvInv

LEMMA RecordSaveStep ==
  ASSUME RvInv, NEW t \in Threads, RecordSave(t)
  PROVE  RvInv'
<1>1. PICK c, i : c = thread[t].call /\ i = thread[t].id
  OBVIOUS
<1>2. PICK r, a : r = [of |-> c, id |-> i] /\ a = [saver |-> c.saver, key |-> c.key, id |-> i]
  OBVIOUS
<1>3. thread[t] \in Making /\ Stage(t, "made") /\ ~Stage(t, "free")
  BY ReviewInHand DEF RvInv, RecordSave, Stage
<1>4. SaveStored(c, i) /\ c.key # NoKey /\ c \in SaveCall /\ i \in ReviewIds
  <2>1. SaveStored(c, i) /\ c.key # NoKey /\ c \in SaveCall
    BY <1>1, <1>3 DEF RvInv, Underway, Making
  <2>2. i \in ReviewIds
    BY <2>1, ReviewsAssumption DEF SaveStored, RvInv, RvTypeOK, ReviewIds
  <2> QED BY <2>1, <2>2
<1>5. /\ r \in SaveRecord /\ r.of = c /\ r.id = i
      /\ a \in Answer /\ a.saver = c.saver /\ a.key = c.key /\ a.id = i
  BY <1>2, <1>4 DEF SaveRecord, Answer, SaveCall
<1>6. /\ Turns(t, Free) /\ UNCHANGED <<overlap, subjectExists, reviews>>
      /\ \/ UNCHANGED <<saveRecords, answers>>
         \/ /\ SavedAs(c) = {} /\ saveRecords' = saveRecords \cup {r}
            /\ answers' = answers \cup {a}
  BY <1>1, <1>2 DEF RecordSave
<1>7. Free \in ReviewRequest /\ Free.stage = "free"
  BY DEF Free, ReviewRequest
<1>8. /\ thread' \in [Threads -> ReviewRequest] /\ thread'[t] = Free
      /\ \A u \in Threads : u # t => thread'[u] = thread[u]
  BY <1>6, <1>7, Turned DEF RvInv
<1>9. RvTypeOK'
  BY <1>5, <1>6, <1>8 DEF RvInv, RvTypeOK, ReviewRequest
<1>10. RecordsStored'
  <2>1. CASE UNCHANGED <<saveRecords, answers>>
    BY <1>6, <2>1, RecordedKept DEF RvInv, Kept
  <2>2. CASE /\ SavedAs(c) = {} /\ saveRecords' = saveRecords \cup {r}
             /\ answers' = answers \cup {a}
    <3>1. \A q \in saveRecords : ~(q.of.saver = c.saver /\ q.of.key = c.key)
      BY <2>2 DEF SavedAs
    <3>2. \A q \in saveRecords' : q.of.key # NoKey /\ SaveStored(q.of, q.id)'
      BY <1>4, <1>5, <1>6, <2>2 DEF RvInv, RecordsStored, SaveStored
    <3>3. \A q, p \in saveRecords' :
            (q.of.saver = p.of.saver /\ q.of.key = p.of.key) => q = p
      BY <1>5, <2>2, <3>1 DEF RvInv, RecordsStored
    <3>4. \A b \in answers' : \E q \in saveRecords' :
            q.of.saver = b.saver /\ q.of.key = b.key /\ q.id = b.id
      BY <1>5, <2>2 DEF RvInv, RecordsStored
    <3> QED BY <3>2, <3>3, <3>4 DEF RecordsStored
  <2> QED BY <1>6, <2>1, <2>2
<1>11. Underway'
  <2>1. Kept
    BY <1>6 DEF Kept
  <2>2. ~Stage(t, "drafted")' /\ ~Stage(t, "made")' /\ ~Stage(t, "edit")' /\ ~Stage(t, "publish")'
    BY <1>7, <1>8 DEF Stage
  <2> QED BY <1>8, <2>1, <2>2, UnderwayKept
<1>12. RequestsOrdered'
  <2>1. \A u \in Threads : u # t => \A s : Stage(u, s)' <=> Stage(u, s)
    BY <1>8 DEF Stage
  <2>2. \A s : Stage(t, s)' <=> s = "free"
    BY <1>7, <1>8 DEF Stage
  <2> QED BY <1>6, <1>8, <2>1, <2>2 DEF RvInv, RequestsOrdered
<1>13. PublishedAsApproved'
  BY <1>6 DEF RvInv, PublishedAsApproved
<1> QED BY <1>9, <1>10, <1>11, <1>12, <1>13 DEF RvInv

-----------------------------------------------------------------------------
LEMMA NextReviews == RvInv /\ [RvNext]_rvVars => RvInv'
<1> SUFFICES ASSUME RvInv, [RvNext]_rvVars PROVE RvInv'
  OBVIOUS
<1>1. ASSUME NEW t \in Threads, NEW c \in SaveCall, ReplaySave(t, c) \/ LookUp(t, c)
      PROVE  RvInv'
  BY <1>1, ReplaySaveStep, LookUpStep
<1>2. ASSUME NEW t \in Threads,
             \/ FindSubject(t) \/ InsertSubject(t) \/ CreateExperience(t)
             \/ PublishSaved(t) \/ RecordSave(t) \/ CommitEdit(t) \/ CommitPublish(t)
      PROVE  RvInv'
  BY <1>2, FindSubjectStep, InsertSubjectStep, CreateExperienceStep, PublishSavedStep,
     RecordSaveStep, CommitEditStep, CommitPublishStep
<1>3. ASSUME NEW t \in Threads, NEW i \in DOMAIN reviews,
             ReadForEdit(t, i) \/ ReadForPublish(t, i) \/ SoftDelete(t, i)
      PROVE  RvInv'
  BY <1>3, ReadForEditStep, ReadForPublishStep, SoftDeleteStep
<1>4. CASE UNCHANGED rvVars
  <2>1. UNCHANGED <<overlap, subjectExists, reviews, saveRecords, answers, thread>>
    BY <1>4 DEF rvVars
  <2>2. RvTypeOK'
    BY <2>1 DEF RvInv, RvTypeOK
  <2>3. RecordsStored'
    BY <2>1, RecordedKept DEF RvInv, Kept
  <2>4. Underway' /\ RequestsOrdered' /\ PublishedAsApproved'
    BY <2>1 DEF RvInv, Underway, RequestsOrdered, PublishedAsApproved, Stage, SaveStored
  <2> QED BY <2>2, <2>3, <2>4 DEF RvInv
<1> QED BY <1>1, <1>2, <1>3, <1>4, CreateSubjectStep, RestartStep DEF RvNext

LEMMA ReviewsInvariant == RvSpec => []RvInv
  BY InitReviews, NextReviews, PTL DEF RvSpec

(* Answers are what records say, and a key has one record.                 *)
LEMMA RecordsAgree == RvInv => AnswersAgree
<1> SUFFICES ASSUME RvInv, NEW a \in answers
             PROVE  /\ a.id \in DOMAIN reviews /\ reviews[a.id].by.saver = a.saver
                    /\ ~Drafts(reviews[a.id].by) => reviews[a.id].published
                    /\ \A b \in answers : (a.saver = b.saver /\ a.key = b.key) => a.id = b.id
  BY DEF AnswersAgree
<1>1. PICK r \in saveRecords : r.of.saver = a.saver /\ r.of.key = a.key /\ r.id = a.id
  BY DEF RvInv, RecordsStored
<1>2. SaveStored(r.of, r.id)
  BY DEF RvInv, RecordsStored
<1>3. ASSUME NEW b \in answers, a.saver = b.saver, a.key = b.key PROVE a.id = b.id
  <2>1. PICK q \in saveRecords : q.of.saver = b.saver /\ q.of.key = b.key /\ q.id = b.id
    BY DEF RvInv, RecordsStored
  <2>2. r = q
    BY <1>1, <1>3, <2>1 DEF RvInv, RecordsStored
  <2> QED BY <1>1, <2>1, <2>2
<1> QED BY <1>1, <1>2, <1>3 DEF SaveStored

(* Reviews, records, answers and requests are well-typed                   *)
(* (app/services/core.py, app/api/capability.py).                          *)
THEOREM ReviewTypes == RvSpec => []RvTypeOK
  BY ReviewsInvariant, PTL DEF RvInv

(* All answers under one key name one published review of the client, with *)
(* any overlap and after any restart.                                      *)
THEOREM AnswersAlwaysAgree == RvSpec => []AnswersAgree
  BY ReviewsInvariant, RecordsAgree, PTL

(* In order a published review is the version its user approved, and every *)
(* answered edit is a version (app/api/routes.py).                         *)
THEOREM PublishedIsApproved == RvSpec => []PublishedAsApproved
  BY ReviewsInvariant, PTL DEF RvInv

-----------------------------------------------------------------------------
(* Grants: applications act for those who let them.                        *)

(* A set of numbers up to n has a greatest.                                *)
LEMMA GreatestIn ==
  ASSUME NEW n \in Nat, NEW S \in SUBSET (1..n), S # {}
  PROVE  \E g \in S : \A m \in S : m <= g
<1> DEFINE T == {k \in Nat : n - k \in S}
<1>1. T \subseteq Nat /\ T # {}
  <2>1. PICK m \in S : TRUE
    OBVIOUS
  <2>2. n - m \in Nat /\ n - (n - m) = m
    BY <2>1
  <2> QED BY <2>1, <2>2
<1>2. PICK k \in T : \A j \in T : ~(<<j, k>> \in OpToRel(<, Nat))
  BY <1>1, NatLessThanWellFounded, WFMin
<1>3. ASSUME NEW m \in S PROVE m <= n - k
  <2>1. n - m \in T
    <3>1. n - m \in Nat /\ n - (n - m) = m
      OBVIOUS
    <3> QED BY <3>1
  <2>2. <<n - m, k>> \in Nat \X Nat /\ <<n - m, k>> \notin OpToRel(<, Nat)
    BY <1>2, <2>1
  <2>3. ~(n - m < k)
    BY <2>2 DEF OpToRel
  <2>4. m \in 1..n /\ k \in Nat /\ n - m \in Nat
    BY <2>2
  <2> QED BY <2>3, <2>4
<1> QED BY <1>2, <1>3

(* What appending to a typed sequence does.                                *)
LEMMA Appended ==
  ASSUME NEW S, NEW q \in Seq(S), NEW e \in S
  PROVE  /\ Append(q, e) \in Seq(S)
         /\ Len(Append(q, e)) = Len(q) + 1
         /\ DOMAIN q = 1..Len(q) /\ Len(q) \in Nat
         /\ DOMAIN Append(q, e) = 1..(Len(q) + 1)
         /\ Append(q, e)[Len(q) + 1] = e
         /\ \A i \in DOMAIN q : Append(q, e)[i] = q[i]
OBVIOUS

(* What replacing an element of a typed sequence does.                     *)
Replace(q, i, e) == [q EXCEPT ![i] = e]

LEMMA Replaced ==
  ASSUME NEW S, NEW q \in Seq(S), NEW i \in DOMAIN q, NEW e \in S
  PROVE  /\ Replace(q, i, e) \in Seq(S) /\ Len(Replace(q, i, e)) = Len(q)
         /\ DOMAIN Replace(q, i, e) = DOMAIN q
         /\ Replace(q, i, e)[i] = e
         /\ \A j \in DOMAIN q : j # i => Replace(q, i, e)[j] = q[j]
BY ExceptSeq DEF Replace

(* The newest code is a code for the same application and resource.        *)
LEMMA NewestCode ==
  ASSUME GrTypeOK, NEW c \in DOMAIN codes
  PROVE  /\ Newest(c) \in DOMAIN codes
         /\ c = Len(codes) => Newest(c) = c
<1> DEFINE Alike(m) == codes[m].app = codes[c].app /\ codes[m].resource = codes[c].resource
           S == {m \in DOMAIN codes : Alike(m)}
<1>1. DOMAIN codes = 1..Len(codes) /\ Len(codes) \in Nat
  BY DEF GrTypeOK
<1>2. S \in SUBSET (1..Len(codes)) /\ S # {}
  BY <1>1
<1>3. \E n \in S : \A m \in S : m <= n
  BY <1>1, <1>2, GreatestIn
<1>4. \E n \in DOMAIN codes : Alike(n) /\ \A m \in DOMAIN codes : Alike(m) => m <= n
  BY <1>3
<1>5. /\ Newest(c) \in DOMAIN codes /\ Alike(Newest(c))
      /\ \A m \in DOMAIN codes : Alike(m) => m <= Newest(c)
  BY <1>4 DEF Newest
<1>6. ASSUME c = Len(codes) PROVE Newest(c) = c
  BY <1>1, <1>5, <1>6
<1> QED BY <1>5, <1>6

-----------------------------------------------------------------------------
(* What rows and requests refer to is there and is what they say.          *)
Known ==
  /\ auditing \subseteq DOMAIN codes
  /\ \A c \in CodeIds : audited[c] # 0 => c \in DOMAIN codes /\ audited[c] \in DOMAIN codes
  /\ \A r \in DOMAIN refresh :
       LET c == refresh[r].of
       IN  /\ c \in DOMAIN codes /\ refresh[r].user = codes[c].user
           /\ refresh[r].app = codes[c].app /\ refresh[r].resource = codes[c].resource
  /\ \A c \in CodeIds :
       held[c] # 0 => held[c] \in DOMAIN refresh /\ refresh[held[c]].of = c
  /\ \A w \in Servers :
       /\ At(w, "code") =>
            LET c == server[w].id
            IN  /\ c \in DOMAIN codes /\ codes[c].app = server[w].app
                /\ codes[c].resource = server[w].resource
       /\ At(w, "refresh") => server[w].id \in DOMAIN refresh

(* A session and a sign-in are of the user of the person's identity, which *)
(* never changes; a code is for a user the person vouched for.             *)
Vouched ==
  /\ \A g \in People : session[g] \in {0, identity[g]}
  /\ \A w \in Servers :
       At(w, "signing in") => server[w].found \in {0, identity[server[w].person]}
  /\ \A c \in DOMAIN codes :
       codes[c].user \in keys[codes[c].person] \cup {identity[codes[c].person]}

(* In order there is one request at a time.                                *)
InOrder ==
  ~parallel =>
    /\ \A v, w \in Servers : (server[v] # Waiting /\ server[w] # Waiting) => v = w
    /\ auditing \subseteq {Len(codes)}
    /\ \A c \in DOMAIN codes : audited[c] \in {0, c}

(* In order the live token of a connection is the one its next use         *)
(* replaces.                                                               *)
Fresh ==
  ~parallel =>
    /\ \A c \in DOMAIN codes :
         /\ \A r, s \in Live(c) : r = s
         /\ ~codes[c].used => Live(c) = {}
         /\ (codes[c].used /\ c \notin lost) => Live(c) = {held[c]}
    /\ \A w \in Servers :
         /\ At(w, "code") => ~codes[server[w].id].used
         /\ At(w, "refresh") => ~refresh[server[w].id].revoked

GrInv == GrTypeOK /\ Known /\ Vouched /\ InOrder /\ Fresh

LEMMA InitGrants == GrInit => GrInv
<1> SUFFICES ASSUME GrInit PROVE GrInv
  OBVIOUS
<1>1. codes = <<>> /\ refresh = <<>> /\ DOMAIN codes = {} /\ DOMAIN refresh = {}
      /\ Len(codes) = 0 /\ Len(refresh) = 0
  BY DEF GrInit
<1>2. \A w \in Servers : server[w] = Waiting /\ server[w].stage = "waiting"
  BY DEF GrInit, Waiting
<1>3. codes \in Seq(Code) /\ refresh \in Seq(Token)
  BY <1>1
<1>4. GrTypeOK
  BY <1>1, <1>3, GrantsAssumption DEF GrInit, GrTypeOK, Accounts, CodeIds
<1>5. Known
  BY <1>1, <1>2 DEF GrInit, Known, At
<1>6. Vouched
  BY <1>1, <1>2 DEF GrInit, Vouched, At
<1>7. InOrder
  BY <1>1, <1>2 DEF GrInit, InOrder
<1>8. Fresh
  BY <1>1, <1>2 DEF GrInit, Fresh, At
<1> QED BY <1>4, <1>5, <1>6, <1>7, <1>8 DEF GrInv

-----------------------------------------------------------------------------
(* The requests a server may be in.                                        *)
Request == SigningIn \cup Exchanging \cup Refreshing \cup {Waiting}

(* A server turns to j, the others stay.                                   *)
LEMMA Handed ==
  ASSUME GrTypeOK, NEW w \in Servers, NEW j \in Request, Hands(w, j)
  PROVE  /\ server' \in [Servers -> Request]
         /\ server'[w] = j
         /\ \A v \in Servers : v # w => server'[v] = server[v]
BY DEF GrTypeOK, Hands, Request

(* Codes and tokens are numbered from one.                                 *)
LEMMA Numbered ==
  ASSUME GrTypeOK
  PROVE  /\ DOMAIN codes = 1..Len(codes) /\ Len(codes) \in Nat
         /\ DOMAIN refresh = 1..Len(refresh) /\ Len(refresh) \in Nat
         /\ DOMAIN codes \subseteq CodeIds /\ DOMAIN refresh \subseteq TokenIds
BY GrantsAssumption DEF GrTypeOK, CodeIds, TokenIds

(* A waiting server is at no stage of a request.                           *)
LEMMA WaitingIs ==
  /\ Waiting \in Request
  /\ Waiting.stage \notin {"signing in", "code", "refresh"}
BY DEF Waiting, Request

(* In order a server that accepts is the only one to be busy then.         *)
LEMMA AcceptedAlone ==
  ASSUME GrTypeOK, InOrder, NEW w \in Servers, Accepts(w), ~parallel
  PROVE  auditing = {} /\ \A v \in Servers : server[v] = Waiting
BY DEF Accepts

(* A request that only reads keeps the invariant if what it has read is    *)
(* true of the tables.                                                     *)
LEMMA ReadOnly ==
  ASSUME GrInv, NEW w \in Servers, NEW j \in Request, Hands(w, j),
         UNCHANGED <<parallel, accountVars, grantVars, auditVars>>,
         ~parallel => j = Waiting \/ \A v \in Servers : server[v] = Waiting,
         j.stage = "signing in" => j.found \in {0, identity[j.person]},
         j.stage = "code" =>
           /\ j.id \in DOMAIN codes /\ codes[j.id].app = j.app
           /\ codes[j.id].resource = j.resource /\ ~codes[j.id].used,
         j.stage = "refresh" => j.id \in DOMAIN refresh /\ ~refresh[j.id].revoked
  PROVE  GrInv'
<1>1. /\ server' \in [Servers -> Request] /\ server'[w] = j
      /\ \A v \in Servers : v # w => server'[v] = server[v]
  BY Handed DEF GrInv
<1>2. GrTypeOK'
  BY <1>1 DEF GrInv, GrTypeOK, Request, accountVars, grantVars, auditVars
<1>3. Known'
  <2>1. ASSUME NEW v \in Servers
        PROVE  /\ At(v, "code")' =>
                    /\ server'[v].id \in DOMAIN codes
                    /\ codes[server'[v].id].app = server'[v].app
                    /\ codes[server'[v].id].resource = server'[v].resource
               /\ At(v, "refresh")' => server'[v].id \in DOMAIN refresh
    <3>1. CASE v = w
      BY <1>1, <3>1 DEF At
    <3>2. CASE v # w
      BY <1>1, <3>2 DEF At, GrInv, Known
    <3> QED BY <3>1, <3>2
  <2>2. UNCHANGED <<codes, refresh, held, auditing, audited>>
    BY DEF grantVars, auditVars
  <2> QED BY <2>1, <2>2 DEF GrInv, Known
<1>4. Vouched'
  BY <1>1 DEF GrInv, Vouched, At, accountVars, grantVars, auditVars
<1>5. InOrder'
  BY <1>1 DEF GrInv, InOrder, accountVars, grantVars, auditVars
<1>6. Fresh'
  <2>1. \A c : Live(c)' = Live(c)
    BY DEF Live, grantVars
  <2>2. \A v \in Servers :
          /\ At(v, "code")' => ~codes[server'[v].id].used \/ parallel
          /\ At(v, "refresh")' => ~refresh[server'[v].id].revoked \/ parallel
    BY <1>1 DEF GrInv, Fresh, At
  <2> QED BY <2>1, <2>2 DEF GrInv, Fresh, grantVars
<1> QED BY <1>2, <1>3, <1>4, <1>5, <1>6 DEF GrInv

LEMMA SignInStep ==
  ASSUME GrInv, NEW w \in Servers, NEW g \in People, SignIn(w, g)
  PROVE  GrInv'
<1> DEFINE j == [stage |-> "signing in", person |-> g, found |-> identity[g]]
<1>1. j \in SigningIn /\ j.stage = "signing in" /\ j.found = identity[j.person]
  BY DEF SigningIn, GrInv, GrTypeOK
<1>2. ~parallel => \A v \in Servers : server[v] = Waiting
  BY DEF SignIn, Accepts
<1>3. Hands(w, j) /\ UNCHANGED <<parallel, accountVars, grantVars, auditVars>>
  BY DEF SignIn
<1> HIDE DEF j
<1> QED BY <1>1, <1>2, <1>3, ReadOnly DEF Request

LEMMA ReadCodeStep ==
  ASSUME GrInv, NEW w \in Servers, NEW c \in DOMAIN codes, NEW a \in Apps,
         NEW s \in Resources, ReadCode(w, c, a, s)
  PROVE  GrInv'
<1> DEFINE j == [stage |-> "code", id |-> c, app |-> a, resource |-> s]
<1>1. c \in CodeIds
  BY Numbered DEF GrInv
<1>2. j \in Exchanging /\ j.stage = "code" /\ j.id = c /\ j.app = a /\ j.resource = s
  BY <1>1 DEF Exchanging
<1>3. ~parallel => \A v \in Servers : server[v] = Waiting
  BY DEF ReadCode, Accepts
<1>4. /\ Hands(w, j) /\ UNCHANGED <<parallel, accountVars, grantVars, auditVars>>
      /\ ~codes[c].used /\ codes[c].app = a /\ codes[c].resource = s
  BY DEF ReadCode
<1> HIDE DEF j
<1> QED BY <1>2, <1>3, <1>4, ReadOnly DEF Request

LEMMA ReadRefreshStep ==
  ASSUME GrInv, NEW w \in Servers, NEW c \in DOMAIN codes, ReadRefresh(w, c)
  PROVE  GrInv'
<1> DEFINE j == [stage |-> "refresh", id |-> held[c]]
<1>1. c \in CodeIds
  BY Numbered DEF GrInv
<1>2. held[c] \in DOMAIN refresh /\ ~refresh[held[c]].revoked
  BY <1>1 DEF GrInv, Known, ReadRefresh
<1>3. held[c] \in TokenIds
  BY <1>2, Numbered DEF GrInv
<1>4. j \in Refreshing /\ j.stage = "refresh" /\ j.id = held[c]
  BY <1>3 DEF Refreshing
<1>5. ~parallel => \A v \in Servers : server[v] = Waiting
  BY DEF ReadRefresh, Accepts
<1>6. Hands(w, j) /\ UNCHANGED <<parallel, accountVars, grantVars, auditVars>>
  BY DEF ReadRefresh
<1> HIDE DEF j
<1> QED BY <1>2, <1>4, <1>5, <1>6, ReadOnly DEF Request

LEMMA ServerEndsStep ==
  ASSUME GrInv, NEW w \in Servers, ServerEnds(w)
  PROVE  GrInv'
<1>1. Waiting.stage # "signing in" /\ Waiting.stage # "code" /\ Waiting.stage # "refresh"
  BY WaitingIs
<1> QED BY <1>1, WaitingIs, ReadOnly DEF ServerEnds

-----------------------------------------------------------------------------
(* What a busy server has in its hands.                                    *)
LEMMA InHand ==
  ASSUME GrTypeOK, NEW w \in Servers
  PROVE  /\ At(w, "signing in") => server[w].person \in People /\ server[w].found \in Accounts
         /\ At(w, "code") => /\ server[w].id \in CodeIds /\ server[w].app \in Apps
                             /\ server[w].resource \in Resources
         /\ At(w, "refresh") => server[w].id \in TokenIds
         /\ (At(w, "signing in") \/ At(w, "code") \/ At(w, "refresh")) => server[w] # Waiting
<1>1. server[w] \in SigningIn \cup Exchanging \cup Refreshing \cup {Waiting}
  BY DEF GrTypeOK
<1>2. \A j \in SigningIn : j.stage = "signing in" /\ j.person \in People /\ j.found \in Accounts
  BY DEF SigningIn
<1>3. \A j \in Exchanging : /\ j.stage = "code" /\ j.id \in CodeIds
                             /\ j.app \in Apps /\ j.resource \in Resources
  BY DEF Exchanging
<1>4. \A j \in Refreshing : j.stage = "refresh" /\ j.id \in TokenIds
  BY DEF Refreshing
<1>5. Waiting.stage = "waiting"
  BY DEF Waiting
<1> QED BY <1>1, <1>2, <1>3, <1>4, <1>5 DEF At

(* Accounts may be added, sessions end and keys be made; a server may be   *)
(* done with its request.                                                  *)
LEMMA AccountsOnly ==
  ASSUME GrInv, UNCHANGED <<parallel, grantVars, auditVars>>,
         accounts' \in Accounts, identity' \in [People -> Accounts],
         session' \in [People -> Accounts], keys' \in [People -> SUBSET (1..MaxAccounts)],
         \A g \in People : /\ identity[g] # 0 => identity'[g] = identity[g]
                           /\ session'[g] \in {0, identity'[g]}
                           /\ keys[g] \subseteq keys'[g],
         server' \in [Servers -> Request],
         \A w \in Servers : server'[w] \in {server[w], Waiting}
  PROVE  GrInv'
<1>1. UNCHANGED <<codes, refresh, held, lost, auditing, audited, parallel>>
  BY DEF grantVars, auditVars
<1>2. GrTypeOK'
  BY <1>1 DEF GrInv, GrTypeOK, Request
<1>3. \A w \in Servers :
        /\ At(w, "signing in")' => At(w, "signing in") /\ server'[w] = server[w]
        /\ At(w, "code")' => At(w, "code") /\ server'[w] = server[w]
        /\ At(w, "refresh")' => At(w, "refresh") /\ server'[w] = server[w]
  BY WaitingIs DEF At
<1>4. Known'
  BY <1>1, <1>3 DEF GrInv, Known
<1>5. Vouched'
  <2>1. ASSUME NEW w \in Servers, At(w, "signing in")'
        PROVE  server'[w].found \in {0, identity'[server'[w].person]}
    <3>1. At(w, "signing in") /\ server'[w] = server[w] /\ server[w].person \in People
      BY <1>3, <2>1, InHand DEF GrInv
    <3>2. server[w].found \in {0, identity[server[w].person]}
      BY <3>1 DEF GrInv, Vouched
    <3> QED BY <3>1, <3>2
  <2>2. ASSUME NEW c \in DOMAIN codes
        PROVE  codes[c].user \in keys'[codes[c].person] \cup {identity'[codes[c].person]}
    <3>1. codes[c] \in Code
      BY ElementOfSeq DEF GrInv, GrTypeOK
    <3>2. codes[c].person \in People /\ codes[c].user \in 1..MaxAccounts
      BY <3>1 DEF Code
    <3>3. codes[c].user # 0
      BY <3>2, GrantsAssumption
    <3> QED BY <3>2, <3>3 DEF GrInv, Vouched
  <2> QED BY <1>1, <2>1, <2>2 DEF Vouched
<1>6. InOrder'
  BY <1>1 DEF GrInv, InOrder
<1>7. Fresh'
  <2>1. \A c : Live(c)' = Live(c)
    BY <1>1 DEF Live
  <2>2. ASSUME ~parallel, NEW w \in Servers
        PROVE  /\ At(w, "code")' => ~codes[server'[w].id].used
               /\ At(w, "refresh")' => ~refresh[server'[w].id].revoked
    BY <1>3, <2>2 DEF GrInv, Fresh
  <2> QED BY <1>1, <2>1, <2>2 DEF GrInv, Fresh
<1> QED BY <1>2, <1>4, <1>5, <1>6, <1>7 DEF GrInv

LEMMA SignedInStep ==
  ASSUME GrInv, NEW w \in Servers, SignedIn(w)
  PROVE  GrInv'
<1> DEFINE g == server[w].person
           u == server[w].found
<1>1. g \in People /\ u \in Accounts /\ u \in {0, identity[g]}
  BY InHand DEF SignedIn, GrInv, Vouched
<1>2. /\ server' \in [Servers -> Request]
      /\ \A v \in Servers : server'[v] \in {server[v], Waiting}
  BY Handed, WaitingIs DEF GrInv, SignedIn
<1>3. UNCHANGED <<parallel, keys, grantVars, auditVars>>
  BY DEF SignedIn
<1>4. \/ UNCHANGED <<accounts, identity>> /\ u # 0 /\ session' = [session EXCEPT ![g] = u]
      \/ UNCHANGED <<accounts, identity, session>>
      \/ /\ identity[g] = 0 /\ accounts < MaxAccounts /\ accounts' = accounts + 1
         /\ identity' = [identity EXCEPT ![g] = accounts + 1]
         /\ session' = [session EXCEPT ![g] = accounts + 1]
  BY <1>1 DEF SignedIn
<1>5. /\ accounts \in Accounts /\ identity \in [People -> Accounts]
      /\ session \in [People -> Accounts] /\ keys \in [People -> SUBSET (1..MaxAccounts)]
      /\ \A h \in People : session[h] \in {0, identity[h]}
  BY DEF GrInv, GrTypeOK, Vouched
<1>6. accounts < MaxAccounts => accounts + 1 \in Accounts
  BY <1>5, GrantsAssumption DEF Accounts
<1> HIDE DEF g, u
<1>7. /\ accounts' \in Accounts /\ identity' \in [People -> Accounts]
      /\ session' \in [People -> Accounts]
      /\ \A h \in People : /\ identity[h] # 0 => identity'[h] = identity[h]
                           /\ session'[h] \in {0, identity'[h]}
  BY <1>1, <1>4, <1>5, <1>6
<1>8. /\ keys' \in [People -> SUBSET (1..MaxAccounts)]
      /\ \A h \in People : keys[h] \subseteq keys'[h]
  BY <1>3, <1>5
<1>9. UNCHANGED <<parallel, grantVars, auditVars>>
  BY <1>3
<1>10. \A h \in People : /\ identity[h] # 0 => identity'[h] = identity[h]
                         /\ session'[h] \in {0, identity'[h]}
                         /\ keys[h] \subseteq keys'[h]
  <2> TAKE h \in People
  <2>1. keys[h] \subseteq keys'[h]
    BY <1>8
  <2> QED BY <1>7, <2>1
<1> HIDE DEF GrInv
<1> QED BY <1>2, <1>7, <1>8, <1>9, <1>10, AccountsOnly

LEMMA AccountStep ==
  ASSUME GrInv, NEW g \in People, SignOut(g) \/ CreateKey(g) \/ NewCapability(g)
  PROVE  GrInv'
<1>1. UNCHANGED <<parallel, grantVars, auditVars, identity, server>>
  BY DEF SignOut, CreateKey, NewCapability
<1>2. /\ accounts \in Accounts /\ identity \in [People -> Accounts]
      /\ session \in [People -> Accounts] /\ keys \in [People -> SUBSET (1..MaxAccounts)]
      /\ server \in [Servers -> Request]
      /\ \A h \in People : session[h] \in {0, identity[h]}
  BY DEF GrInv, GrTypeOK, Vouched, Request
<1>3. /\ accounts' \in Accounts /\ session' \in [People -> Accounts]
      /\ keys' \in [People -> SUBSET (1..MaxAccounts)]
      /\ \A h \in People : session'[h] \in {0, identity[h]} /\ keys[h] \subseteq keys'[h]
  BY <1>2, GrantsAssumption DEF SignOut, CreateKey, NewCapability, Accounts
<1> QED BY <1>1, <1>2, <1>3, AccountsOnly

(* The user a person connects an application to is one they vouch for.     *)
LEMMA AuthorizeStep ==
  ASSUME GrInv, NEW w \in Servers, NEW g \in People, NEW u \in 1..accounts,
         NEW a \in Apps, NEW s \in Resources, Authorize(w, g, u, a, s)
  PROVE  GrInv'
<1> DEFINE n == Len(codes) + 1
           new == [person |-> g, user |-> u, app |-> a, resource |-> s, used |-> FALSE]
<1>1. UNCHANGED <<parallel, accounts, identity, session, keys, refresh, held, lost, audited,
                  server>>
  BY DEF Authorize, accountVars
<1>2. new \in Code /\ codes \in Seq(Code)
  BY GrantsAssumption DEF Code, GrInv, GrTypeOK, Accounts
<1>3. /\ codes' = Append(codes, new) /\ Len(codes) < MaxCodes
      /\ auditing' = auditing \cup {n}
  BY DEF Authorize
<1>4. /\ codes' \in Seq(Code) /\ Len(codes') = n /\ DOMAIN codes' = 1..n /\ codes'[n] = new
      /\ DOMAIN codes = 1..Len(codes) /\ Len(codes) \in Nat
      /\ \A c \in DOMAIN codes : codes'[c] = codes[c]
  BY <1>2, <1>3, Appended
<1>5. n \in CodeIds /\ n <= MaxCodes /\ n \notin DOMAIN codes /\ DOMAIN codes' = DOMAIN codes \cup {n}
  BY <1>3, <1>4, GrantsAssumption DEF CodeIds
<1>6. u \in keys[g] \cup {identity[g]}
  BY DEF Authorize, MayConnect, GrInv, Vouched
<1>7. /\ new.person = g /\ new.user = u /\ new.app = a /\ new.resource = s /\ new.used = FALSE
  OBVIOUS
<1> HIDE DEF n, new
<1>8. GrTypeOK'
  BY <1>1, <1>3, <1>4, <1>5 DEF GrInv, GrTypeOK
<1>9. Known'
  BY <1>1, <1>3, <1>4, <1>5 DEF GrInv, Known, At
<1>10. Vouched'
  BY <1>1, <1>4, <1>5, <1>6, <1>7 DEF GrInv, Vouched, At
<1>11. audited[n] = 0
  BY <1>5 DEF GrInv, Known
<1>12. InOrder'
  <2> SUFFICES ASSUME ~parallel PROVE InOrder'
    BY <1>1 DEF InOrder
  <2>1. auditing = {}
    BY AcceptedAlone DEF GrInv, Authorize
  <2> QED BY <1>1, <1>3, <1>4, <1>5, <1>11, <2>1 DEF GrInv, InOrder
<1>13. Fresh'
  <2>1. \A c : Live(c)' = Live(c)
    BY <1>1 DEF Live
  <2>2. Live(n) = {}
    BY <1>5 DEF GrInv, Known, Live
  <2>3. \A v \in Servers : At(v, "code") => server[v].id \in DOMAIN codes
    BY DEF GrInv, Known
  <2> QED BY <1>1, <1>4, <1>5, <1>7, <2>1, <2>2, <2>3 DEF GrInv, Fresh, At
<1> QED BY <1>8, <1>9, <1>10, <1>12, <1>13 DEF GrInv

LEMMA AuditStep ==
  ASSUME GrInv, NEW c \in auditing, Audit(c) \/ AuditFails(c)
  PROVE  GrInv'
<1>1. /\ c \in DOMAIN codes /\ c \in CodeIds /\ DOMAIN codes \subseteq CodeIds
      /\ DOMAIN codes = 1..Len(codes) /\ Len(codes) \in Nat
  BY Numbered DEF GrInv, Known
<1>2. UNCHANGED <<parallel, accounts, identity, session, keys, codes, refresh, held, lost, server>>
      /\ auditing' = auditing \ {c}
  BY DEF Audit, AuditFails, accountVars, grantVars
<1>3. audited' = audited \/ audited' = [audited EXCEPT ![c] = Newest(c)]
  BY DEF Audit, AuditFails
<1>4. /\ Newest(c) \in DOMAIN codes /\ Newest(c) \in 0..MaxCodes
      /\ c = Len(codes) => Newest(c) = c
  BY <1>1, NewestCode, GrantsAssumption DEF GrInv, CodeIds
<1>5. /\ audited' \in [CodeIds -> 0..MaxCodes]
      /\ \A d \in CodeIds : audited'[d] # audited[d] =>
           /\ d = c /\ audited'[d] \in DOMAIN codes
           /\ c = Len(codes) => audited'[d] = c
  BY <1>1, <1>3, <1>4 DEF GrInv, GrTypeOK
<1>6. GrTypeOK'
  BY <1>2, <1>5 DEF GrInv, GrTypeOK
<1>7. Known'
  BY <1>1, <1>2, <1>5 DEF GrInv, Known, At
<1>8. Vouched'
  BY <1>2 DEF GrInv, Vouched, At
<1>9. InOrder'
  BY <1>1, <1>2, <1>5 DEF GrInv, InOrder
<1>10. Fresh'
  BY <1>2 DEF GrInv, Fresh, At, Live
<1> QED BY <1>6, <1>7, <1>8, <1>9, <1>10 DEF GrInv

-----------------------------------------------------------------------------
(* A code is used: it stays the code of the same grant.                    *)
UseUp(c) == [codes EXCEPT ![c].used = TRUE]

LEMMA CodeUsed ==
  ASSUME GrTypeOK, NEW c \in DOMAIN codes
  PROVE  /\ UseUp(c) \in Seq(Code) /\ Len(UseUp(c)) = Len(codes)
         /\ DOMAIN UseUp(c) = DOMAIN codes
         /\ \A d \in DOMAIN codes :
              /\ UseUp(c)[d].person = codes[d].person /\ UseUp(c)[d].user = codes[d].user
              /\ UseUp(c)[d].app = codes[d].app /\ UseUp(c)[d].resource = codes[d].resource
              /\ UseUp(c)[d].used = (d = c \/ codes[d].used)
<1> DEFINE e == [codes[c] EXCEPT !.used = TRUE]
<1>1. codes \in Seq(Code) /\ codes[c] \in Code
  BY ElementOfSeq DEF GrTypeOK
<1>2. /\ e \in Code /\ e.person = codes[c].person /\ e.user = codes[c].user
      /\ e.app = codes[c].app /\ e.resource = codes[c].resource /\ e.used = TRUE
  BY <1>1 DEF Code
<1>3. UseUp(c) = Replace(codes, c, e)
  BY <1>1 DEF Replace, UseUp
<1> HIDE DEF e
<1>4. /\ UseUp(c) \in Seq(Code) /\ Len(UseUp(c)) = Len(codes) /\ DOMAIN UseUp(c) = DOMAIN codes
      /\ UseUp(c)[c] = e /\ \A d \in DOMAIN codes : d # c => UseUp(c)[d] = codes[d]
  BY <1>1, <1>2, <1>3, Replaced
<1>5. \A d \in DOMAIN codes : codes[d].used \in BOOLEAN
  <2> TAKE d \in DOMAIN codes
  <2>1. codes[d] \in Code
    BY <1>1, ElementOfSeq
  <2> QED BY <2>1 DEF Code
<1> QED BY <1>2, <1>4, <1>5

(* A token is revoked: it stays the token of the same grant.               *)
Revoke(r) == [refresh EXCEPT ![r].revoked = TRUE]

LEMMA TokenRevoked ==
  ASSUME GrTypeOK, NEW r \in DOMAIN refresh
  PROVE  /\ Revoke(r) \in Seq(Token) /\ Len(Revoke(r)) = Len(refresh)
         /\ DOMAIN Revoke(r) = DOMAIN refresh
         /\ Revoke(r)[r].revoked
         /\ \A s \in DOMAIN refresh :
              /\ s # r => Revoke(r)[s] = refresh[s]
              /\ Revoke(r)[s].of = refresh[s].of /\ Revoke(r)[s].user = refresh[s].user
              /\ Revoke(r)[s].app = refresh[s].app
              /\ Revoke(r)[s].resource = refresh[s].resource
<1> DEFINE e == [refresh[r] EXCEPT !.revoked = TRUE]
<1>1. refresh \in Seq(Token) /\ refresh[r] \in Token
  BY ElementOfSeq DEF GrTypeOK
<1>2. /\ e \in Token /\ e.of = refresh[r].of /\ e.user = refresh[r].user
      /\ e.app = refresh[r].app /\ e.resource = refresh[r].resource /\ e.revoked = TRUE
  BY <1>1 DEF Token
<1>3. Revoke(r) = Replace(refresh, r, e)
  BY <1>1 DEF Replace, Revoke
<1> HIDE DEF e
<1>4. /\ Revoke(r) \in Seq(Token) /\ Len(Revoke(r)) = Len(refresh)
      /\ DOMAIN Revoke(r) = DOMAIN refresh /\ Revoke(r)[r] = e
      /\ \A s \in DOMAIN refresh : s # r => Revoke(r)[s] = refresh[s]
  BY <1>1, <1>2, <1>3, Replaced
<1> QED BY <1>2, <1>4

(* What an exchange leaves: the used code and one more token, which its    *)
(* connection holds or has lost.                                           *)
LEMMA Exchanged ==
  ASSUME GrTypeOK, Known, NEW w \in Servers, Exchange(w)
  PROVE  LET c == server[w].id
             n == Len(refresh) + 1
         IN  /\ At(w, "code") /\ c \in DOMAIN codes /\ c \in CodeIds /\ n \in TokenIds
             /\ codes' = UseUp(c)
             /\ refresh' \in Seq(Token) /\ Len(refresh') = n
             /\ DOMAIN refresh' = DOMAIN refresh \cup {n} /\ n \notin DOMAIN refresh
             /\ \A r \in DOMAIN refresh : refresh'[r] = refresh[r]
             /\ refresh'[n].of = c /\ refresh'[n].user = codes[c].user
             /\ refresh'[n].app = codes[c].app /\ refresh'[n].resource = codes[c].resource
             /\ refresh'[n].revoked = FALSE
             /\ Answered(c, n)
<1> DEFINE c == server[w].id
           n == Len(refresh) + 1
           new == [of |-> c, user |-> codes[c].user, app |-> server[w].app,
                   resource |-> server[w].resource, revoked |-> FALSE]
<1>1. At(w, "code") /\ Len(refresh) < MaxTokens /\ Answered(c, n)
      /\ codes' = UseUp(c) /\ refresh' = Append(refresh, new)
  BY DEF Exchange, UseUp
<1>2. /\ c \in DOMAIN codes /\ codes[c].app = server[w].app
      /\ codes[c].resource = server[w].resource
  BY <1>1 DEF Known
<1>3. c \in CodeIds /\ codes[c] \in Code
  BY <1>2, Numbered, ElementOfSeq DEF GrTypeOK
<1>4. new \in Token
  BY <1>2, <1>3 DEF Code, Token
<1>5. /\ new.of = c /\ new.user = codes[c].user /\ new.app = codes[c].app
      /\ new.resource = codes[c].resource /\ new.revoked = FALSE
  BY <1>2
<1>6. refresh \in Seq(Token)
  BY DEF GrTypeOK
<1> HIDE DEF new, c
<1>7. /\ refresh' \in Seq(Token) /\ Len(refresh') = n /\ refresh'[n] = new
      /\ DOMAIN refresh = 1..Len(refresh) /\ Len(refresh) \in Nat
      /\ DOMAIN refresh' = 1..n
      /\ \A r \in DOMAIN refresh : refresh'[r] = refresh[r]
  BY <1>1, <1>4, <1>6, Appended
<1>8. n \in TokenIds /\ DOMAIN refresh' = DOMAIN refresh \cup {n} /\ n \notin DOMAIN refresh
  BY <1>1, <1>7, GrantsAssumption DEF TokenIds
<1> QED BY <1>1, <1>2, <1>3, <1>5, <1>7, <1>8 DEF c

(* What a rotation leaves: the old token revoked and one more token of the *)
(* same connection.                                                        *)
LEMMA Rotated ==
  ASSUME GrTypeOK, Known, NEW w \in Servers, Rotate(w)
  PROVE  LET r == server[w].id
             n == Len(refresh) + 1
         IN  /\ At(w, "refresh") /\ r \in DOMAIN refresh /\ n \in TokenIds
             /\ refresh[r].of \in DOMAIN codes /\ refresh[r].of \in CodeIds
             /\ refresh' \in Seq(Token) /\ Len(refresh') = n
             /\ DOMAIN refresh' = DOMAIN refresh \cup {n} /\ n \notin DOMAIN refresh
             /\ refresh'[r].revoked
             /\ \A s \in DOMAIN refresh :
                  /\ s # r => refresh'[s] = refresh[s]
                  /\ refresh'[s].of = refresh[s].of /\ refresh'[s].user = refresh[s].user
                  /\ refresh'[s].app = refresh[s].app
                  /\ refresh'[s].resource = refresh[s].resource
             /\ refresh'[n].of = refresh[r].of /\ refresh'[n].user = refresh[r].user
             /\ refresh'[n].app = refresh[r].app
             /\ refresh'[n].resource = refresh[r].resource
             /\ refresh'[n].revoked = FALSE
             /\ Answered(refresh[r].of, n)
<1> DEFINE r == server[w].id
           n == Len(refresh) + 1
           new == [refresh[r] EXCEPT !.revoked = FALSE]
           table == Revoke(r)
<1>1. At(w, "refresh") /\ Len(refresh) < MaxTokens /\ Answered(refresh[r].of, n)
      /\ refresh' = Append(table, new)
  BY DEF Rotate, Revoke
<1>2. r \in DOMAIN refresh
  BY <1>1 DEF Known
<1>3. refresh[r] \in Token /\ refresh[r].of \in DOMAIN codes /\ refresh[r].of \in CodeIds
  BY <1>2, Numbered, ElementOfSeq DEF GrTypeOK, Known
<1>4. /\ new \in Token /\ new.of = refresh[r].of /\ new.user = refresh[r].user
      /\ new.app = refresh[r].app /\ new.resource = refresh[r].resource
      /\ new.revoked = FALSE
  BY <1>3 DEF Token
<1>5. /\ table \in Seq(Token) /\ Len(table) = Len(refresh)
      /\ DOMAIN table = DOMAIN refresh /\ table[r].revoked
      /\ \A s \in DOMAIN refresh :
           /\ s # r => table[s] = refresh[s]
           /\ table[s].of = refresh[s].of /\ table[s].user = refresh[s].user
           /\ table[s].app = refresh[s].app /\ table[s].resource = refresh[s].resource
  BY <1>2, TokenRevoked
<1> HIDE DEF new, table, r
<1>6. /\ refresh' \in Seq(Token) /\ Len(refresh') = n /\ refresh'[n] = new
      /\ DOMAIN table = 1..Len(table) /\ Len(table) \in Nat
      /\ DOMAIN refresh' = 1..n
      /\ \A s \in DOMAIN table : refresh'[s] = table[s]
  BY <1>1, <1>4, <1>5, Appended
<1>7. n \in TokenIds /\ DOMAIN refresh' = DOMAIN refresh \cup {n} /\ n \notin DOMAIN refresh
  BY <1>1, <1>5, <1>6, GrantsAssumption DEF TokenIds
<1> QED BY <1>1, <1>2, <1>3, <1>4, <1>5, <1>6, <1>7 DEF r

LEMMA ExchangeStep ==
  ASSUME GrInv, NEW w \in Servers, Exchange(w)
  PROVE  GrInv'
<1>1. PICK c, n : c = server[w].id /\ n = Len(refresh) + 1
  OBVIOUS
<1>2. /\ At(w, "code") /\ c \in DOMAIN codes /\ c \in CodeIds /\ n \in TokenIds
      /\ codes' = UseUp(c)
      /\ refresh' \in Seq(Token) /\ Len(refresh') = n
      /\ DOMAIN refresh' = DOMAIN refresh \cup {n} /\ n \notin DOMAIN refresh
      /\ \A r \in DOMAIN refresh : refresh'[r] = refresh[r]
      /\ refresh'[n].of = c /\ refresh'[n].user = codes[c].user
      /\ refresh'[n].app = codes[c].app /\ refresh'[n].resource = codes[c].resource
      /\ refresh'[n].revoked = FALSE
      /\ Answered(c, n)
  BY <1>1, Exchanged DEF GrInv
<1>3. /\ codes' \in Seq(Code) /\ Len(codes') = Len(codes) /\ DOMAIN codes' = DOMAIN codes
      /\ \A d \in DOMAIN codes :
           /\ codes'[d].person = codes[d].person /\ codes'[d].user = codes[d].user
           /\ codes'[d].app = codes[d].app /\ codes'[d].resource = codes[d].resource
           /\ codes'[d].used = (d = c \/ codes[d].used)
  BY <1>2, CodeUsed DEF GrInv
<1>4. /\ server' \in [Servers -> Request] /\ server'[w] = Waiting
      /\ \A v \in Servers : v # w => server'[v] = server[v]
      /\ server[w] # Waiting
  BY <1>2, Handed, WaitingIs, InHand DEF GrInv, Exchange
<1>5. UNCHANGED <<parallel, accounts, identity, session, keys, auditing, audited>>
  BY DEF Exchange, accountVars, auditVars
<1>6. \/ held' = [held EXCEPT ![c] = n] /\ lost' = lost
      \/ held' = held /\ lost' = lost \cup {c}
  BY <1>2 DEF Answered
<1>7. /\ held'[c] = n \/ c \in lost'
      /\ held'[c] \in {n, held[c]}
      /\ \A d \in CodeIds : d # c => held'[d] = held[d] /\ (d \in lost' <=> d \in lost)
  BY <1>2, <1>6 DEF GrInv, GrTypeOK
<1>8. n <= MaxTokens /\ n \in 0..MaxTokens /\ n # 0
  BY <1>2, GrantsAssumption DEF TokenIds
<1>9. \A v \in Servers :
        /\ At(v, "signing in")' => v # w /\ At(v, "signing in") /\ server'[v] = server[v]
        /\ At(v, "code")' => v # w /\ At(v, "code") /\ server'[v] = server[v]
        /\ At(v, "refresh")' => v # w /\ At(v, "refresh") /\ server'[v] = server[v]
  BY <1>4, WaitingIs DEF At
<1>10. GrTypeOK'
  <2>1. held' \in [CodeIds -> 0..MaxTokens] /\ lost' \subseteq CodeIds
    BY <1>2, <1>6, <1>8 DEF GrInv, GrTypeOK
  <2>2. server' \in [Servers -> SigningIn \cup Exchanging \cup Refreshing \cup {Waiting}]
    BY <1>4 DEF Request
  <2>3. codes' \in Seq(Code) /\ Len(codes') <= MaxCodes
    BY <1>3 DEF GrInv, GrTypeOK
  <2> QED BY <1>2, <1>5, <1>8, <2>1, <2>2, <2>3 DEF GrInv, GrTypeOK
<1>11. Known'
  <2>1. \A r \in DOMAIN refresh' :
          LET d == refresh'[r].of
          IN  /\ d \in DOMAIN codes' /\ refresh'[r].user = codes'[d].user
              /\ refresh'[r].app = codes'[d].app /\ refresh'[r].resource = codes'[d].resource
    BY <1>2, <1>3 DEF GrInv, Known
  <2>2. \A d \in CodeIds :
          held'[d] # 0 => held'[d] \in DOMAIN refresh' /\ refresh'[held'[d]].of = d
    <3> TAKE d \in CodeIds
    <3>1. CASE held'[d] = n /\ d = c
      BY <1>2, <3>1
    <3>2. CASE held'[d] = held[d]
      BY <1>2, <3>2 DEF GrInv, Known
    <3> QED BY <1>7, <3>1, <3>2
  <2>3. ASSUME NEW v \in Servers, At(v, "code")'
        PROVE  /\ server'[v].id \in DOMAIN codes'
               /\ codes'[server'[v].id].app = server'[v].app
               /\ codes'[server'[v].id].resource = server'[v].resource
    <3>1. At(v, "code") /\ server'[v] = server[v]
      BY <1>9, <2>3
    <3> QED BY <1>3, <3>1 DEF GrInv, Known
  <2>4. ASSUME NEW v \in Servers, At(v, "refresh")'
        PROVE  server'[v].id \in DOMAIN refresh'
    <3>1. At(v, "refresh") /\ server'[v] = server[v]
      BY <1>9, <2>4
    <3> QED BY <1>2, <3>1 DEF GrInv, Known
  <2> QED BY <1>3, <1>5, <2>1, <2>2, <2>3, <2>4 DEF GrInv, Known
<1>12. Vouched'
  BY <1>3, <1>5, <1>9 DEF GrInv, Vouched
<1>13. InOrder'
  BY <1>3, <1>4, <1>5 DEF GrInv, InOrder
<1>14. Fresh'
  <2> SUFFICES ASSUME ~parallel PROVE Fresh'
    BY <1>5 DEF Fresh
  <2>1. ~codes[c].used /\ Live(c) = {}
    BY <1>1, <1>2 DEF GrInv, Fresh
  <2>2. Live(c)' = {n}
    <3>1. n \in Live(c)'
      BY <1>2 DEF Live
    <3>2. ASSUME NEW r \in DOMAIN refresh, r \in Live(c)' PROVE FALSE
      <4>1. refresh'[r] = refresh[r]
        BY <1>2
      <4>2. r \in Live(c)
        BY <3>2, <4>1 DEF Live
      <4> QED BY <2>1, <4>2
    <3>3. Live(c)' \subseteq DOMAIN refresh \cup {n}
      BY <1>2 DEF Live
    <3> QED BY <3>1, <3>2, <3>3
  <2>3. \A d \in DOMAIN codes : d # c => Live(d)' = Live(d)
    BY <1>2 DEF Live
  <2>4. \A v \in Servers : ~At(v, "code")' /\ ~At(v, "refresh")'
    BY <1>4, <1>9, InHand DEF GrInv, InOrder
  <2>5. ASSUME NEW d \in DOMAIN codes
        PROVE  /\ \A r, s \in Live(d)' : r = s
               /\ ~codes'[d].used => Live(d)' = {}
               /\ (codes'[d].used /\ d \notin lost') => Live(d)' = {held'[d]}
    <3>1. CASE d = c
      BY <1>3, <1>7, <2>2, <3>1
    <3>2. CASE d # c
      <4>1. /\ Live(d)' = Live(d) /\ (codes'[d].used <=> codes[d].used)
            /\ held'[d] = held[d] /\ (d \in lost' <=> d \in lost)
        BY <1>3, <1>7, <2>3, <3>2, Numbered DEF GrInv
      <4>2. /\ \A r, q \in Live(d) : r = q
            /\ ~codes[d].used => Live(d) = {}
            /\ (codes[d].used /\ d \notin lost) => Live(d) = {held[d]}
        BY DEF GrInv, Fresh
      <4> QED BY <4>1, <4>2
    <3> QED BY <3>1, <3>2
  <2> QED BY <1>3, <2>4, <2>5 DEF Fresh
<1> QED BY <1>10, <1>11, <1>12, <1>13, <1>14 DEF GrInv

LEMMA RotateStep ==
  ASSUME GrInv, NEW w \in Servers, Rotate(w)
  PROVE  GrInv'
<1>1. PICK old, c, n : old = server[w].id /\ c = refresh[old].of /\ n = Len(refresh) + 1
  OBVIOUS
<1>2. /\ At(w, "refresh") /\ old \in DOMAIN refresh /\ n \in TokenIds
      /\ c \in DOMAIN codes /\ c \in CodeIds
      /\ refresh' \in Seq(Token) /\ Len(refresh') = n
      /\ DOMAIN refresh' = DOMAIN refresh \cup {n} /\ n \notin DOMAIN refresh
      /\ refresh'[old].revoked
      /\ \A s \in DOMAIN refresh :
           /\ s # old => refresh'[s] = refresh[s]
           /\ refresh'[s].of = refresh[s].of /\ refresh'[s].user = refresh[s].user
           /\ refresh'[s].app = refresh[s].app
           /\ refresh'[s].resource = refresh[s].resource
      /\ refresh'[n].of = c /\ refresh'[n].user = refresh[old].user
      /\ refresh'[n].app = refresh[old].app
      /\ refresh'[n].resource = refresh[old].resource
      /\ refresh'[n].revoked = FALSE
      /\ Answered(c, n)
  BY <1>1, Rotated DEF GrInv
<1>3. c = refresh[old].of
  BY <1>1
<1>4. /\ server' \in [Servers -> Request] /\ server'[w] = Waiting
      /\ \A v \in Servers : v # w => server'[v] = server[v]
      /\ server[w] # Waiting
  BY <1>2, Handed, WaitingIs, InHand DEF GrInv, Rotate
<1>5. UNCHANGED <<parallel, accounts, identity, session, keys, codes, auditing, audited>>
  BY DEF Rotate, accountVars, auditVars
<1>6. \/ held' = [held EXCEPT ![c] = n] /\ lost' = lost
      \/ held' = held /\ lost' = lost \cup {c}
  BY <1>2 DEF Answered
<1>7. /\ held'[c] = n \/ c \in lost'
      /\ held'[c] \in {n, held[c]}
      /\ \A d \in CodeIds : d # c => held'[d] = held[d] /\ (d \in lost' <=> d \in lost)
  BY <1>2, <1>6 DEF GrInv, GrTypeOK
<1>8. n <= MaxTokens /\ n \in 0..MaxTokens /\ n # 0
  BY <1>2, GrantsAssumption DEF TokenIds
<1>9. \A v \in Servers :
        /\ At(v, "signing in")' => v # w /\ At(v, "signing in") /\ server'[v] = server[v]
        /\ At(v, "code")' => v # w /\ At(v, "code") /\ server'[v] = server[v]
        /\ At(v, "refresh")' => v # w /\ At(v, "refresh") /\ server'[v] = server[v]
  BY <1>4, WaitingIs DEF At
<1>10. GrTypeOK'
  BY <1>2, <1>4, <1>5, <1>6, <1>8 DEF GrInv, GrTypeOK, Request
<1>11. Known'
  <2>1. \A r \in DOMAIN refresh' :
          LET d == refresh'[r].of
          IN  /\ d \in DOMAIN codes /\ refresh'[r].user = codes[d].user
              /\ refresh'[r].app = codes[d].app /\ refresh'[r].resource = codes[d].resource
    BY <1>2, <1>3 DEF GrInv, Known
  <2>2. \A d \in CodeIds :
          held'[d] # 0 => held'[d] \in DOMAIN refresh' /\ refresh'[held'[d]].of = d
    <3> TAKE d \in CodeIds
    <3>1. CASE held'[d] = n /\ d = c
      BY <1>2, <3>1
    <3>2. CASE held'[d] = held[d]
      BY <1>2, <3>2 DEF GrInv, Known
    <3> QED BY <1>7, <3>1, <3>2
  <2>3. ASSUME NEW v \in Servers, At(v, "code")'
        PROVE  /\ server'[v].id \in DOMAIN codes
               /\ codes[server'[v].id].app = server'[v].app
               /\ codes[server'[v].id].resource = server'[v].resource
    <3>1. At(v, "code") /\ server'[v] = server[v]
      BY <1>9, <2>3
    <3> QED BY <3>1 DEF GrInv, Known
  <2>4. ASSUME NEW v \in Servers, At(v, "refresh")'
        PROVE  server'[v].id \in DOMAIN refresh'
    <3>1. At(v, "refresh") /\ server'[v] = server[v]
      BY <1>9, <2>4
    <3> QED BY <1>2, <3>1 DEF GrInv, Known
  <2> QED BY <1>5, <2>1, <2>2, <2>3, <2>4 DEF GrInv, Known
<1>12. Vouched'
  BY <1>5, <1>9 DEF GrInv, Vouched
<1>13. InOrder'
  BY <1>4, <1>5 DEF GrInv, InOrder
<1>14. Fresh'
  <2> SUFFICES ASSUME ~parallel PROVE Fresh'
    BY <1>5 DEF Fresh
  <2>1. ~refresh[old].revoked
    BY <1>1, <1>2 DEF GrInv, Fresh
  <2>2. Live(c) = {old} /\ codes[c].used
    BY <1>2, <1>3, <2>1 DEF GrInv, Fresh, Live
  <2>3. Live(c)' = {n}
    <3>1. n \in Live(c)' /\ old \notin Live(c)'
      BY <1>2 DEF Live
    <3>2. ASSUME NEW r \in DOMAIN refresh, r # old, r \in Live(c)' PROVE FALSE
      <4>1. refresh'[r] = refresh[r]
        BY <1>2, <3>2
      <4>2. r \in Live(c)
        BY <3>2, <4>1 DEF Live
      <4> QED BY <2>2, <3>2, <4>2
    <3>3. Live(c)' \subseteq DOMAIN refresh \cup {n}
      BY <1>2 DEF Live
    <3> QED BY <3>1, <3>2, <3>3
  <2>4. \A d \in DOMAIN codes : d # c => Live(d)' = Live(d)
    BY <1>2, <1>3 DEF Live
  <2>5. \A v \in Servers : ~At(v, "code")' /\ ~At(v, "refresh")'
    BY <1>4, <1>9, InHand DEF GrInv, InOrder
  <2>6. ASSUME NEW d \in DOMAIN codes
        PROVE  /\ \A r, s \in Live(d)' : r = s
               /\ ~codes[d].used => Live(d)' = {}
               /\ (codes[d].used /\ d \notin lost') => Live(d)' = {held'[d]}
    <3>1. CASE d = c
      BY <1>7, <2>2, <2>3, <3>1
    <3>2. CASE d # c
      <4>1. /\ Live(d)' = Live(d)
            /\ held'[d] = held[d] /\ (d \in lost' <=> d \in lost)
        BY <1>7, <2>4, <3>2, Numbered DEF GrInv
      <4>2. /\ \A r, q \in Live(d) : r = q
            /\ ~codes[d].used => Live(d) = {}
            /\ (codes[d].used /\ d \notin lost) => Live(d) = {held[d]}
        BY DEF GrInv, Fresh
      <4> QED BY <4>1, <4>2
    <3> QED BY <3>1, <3>2
  <2> QED BY <1>5, <2>5, <2>6 DEF Fresh
<1> QED BY <1>10, <1>11, <1>12, <1>13, <1>14 DEF GrInv

-----------------------------------------------------------------------------
LEMMA NextGrants == GrInv /\ [GrNext]_grVars => GrInv'
<1> SUFFICES ASSUME GrInv, [GrNext]_grVars PROVE GrInv'
  OBVIOUS
<1>1. ASSUME NEW w \in Servers,
             \/ SignedIn(w) \/ Exchange(w) \/ Rotate(w) \/ ServerEnds(w)
             \/ \E g \in People :
                  \/ SignIn(w, g)
                  \/ \E u \in 1..accounts, a \in Apps, s \in Resources : Authorize(w, g, u, a, s)
             \/ \E c \in DOMAIN codes :
                  \/ ReadRefresh(w, c)
                  \/ \E a \in Apps, s \in Resources : ReadCode(w, c, a, s)
      PROVE  GrInv'
  BY <1>1, SignedInStep, ExchangeStep, RotateStep, ServerEndsStep, SignInStep,
     AuthorizeStep, ReadRefreshStep, ReadCodeStep
<1>2. CASE UNCHANGED grVars
  <2>1. UNCHANGED <<parallel, accounts, identity, session, keys, codes, refresh, held, lost,
                    auditing, audited, server>>
    BY <1>2 DEF grVars
  <2>2. GrTypeOK'
    BY <2>1 DEF GrInv, GrTypeOK
  <2>3. Known'
    BY <2>1 DEF GrInv, Known, At
  <2>4. Vouched' /\ InOrder'
    BY <2>1 DEF GrInv, Vouched, InOrder, At
  <2>5. Fresh'
    BY <2>1 DEF GrInv, Fresh, Live, At
  <2> QED BY <2>2, <2>3, <2>4, <2>5 DEF GrInv
<1> QED BY <1>1, <1>2, AccountStep, AuditStep DEF GrNext

LEMMA GrantsInvariant == GrSpec => []GrInv
  BY InitGrants, NextGrants, PTL DEF GrSpec

(* One token at most is live, and the one in the application's hands.      *)
LEMMA LiveTokens == GrInv => OneLiveToken
<1> SUFFICES ASSUME GrInv, ~parallel, NEW c \in DOMAIN codes
             PROVE  /\ Cardinality(Live(c)) <= 1
                    /\ (codes[c].used /\ c \notin lost) => Live(c) = {held[c]}
  BY DEF OneLiveToken
<1>1. /\ \A r, s \in Live(c) : r = s
      /\ (codes[c].used /\ c \notin lost) => Live(c) = {held[c]}
  BY DEF GrInv, Fresh
<1>2. Cardinality(Live(c)) <= 1
  <2>1. CASE Live(c) = {}
    BY <2>1, FS_EmptySet
  <2>2. CASE Live(c) # {}
    <3>1. PICK r : Live(c) = {r}
      BY <1>1, <2>2
    <3> QED BY <3>1, FS_Singleton
  <2> QED BY <2>1, <2>2
<1> QED BY <1>1, <1>2

(* What grants say follows from what is known and vouched for.             *)
LEMMA GrantsFaithful == GrInv => GrantFaithful
  BY DEF GrInv, Known, Vouched, InOrder, GrantFaithful

(* Accounts, codes, tokens and requests are well-typed (app/api/oauth.py,  *)
(* app/api/account.py).                                                    *)
THEOREM GrantTypes == GrSpec => []GrTypeOK
  BY GrantsInvariant, PTL DEF GrInv

(* An application acts for an account its person has and for what was      *)
(* authorized, whichever requests overlap; in order the audit agrees.      *)
THEOREM GrantedFaithfully == GrSpec => []GrantFaithful
  BY GrantsInvariant, GrantsFaithful, PTL

(* In order the rotation leaves one live token to a connection (`token').  *)
THEOREM OneTokenLives == GrSpec => []OneLiveToken
  BY GrantsInvariant, LiveTokens, PTL
=============================================================================
