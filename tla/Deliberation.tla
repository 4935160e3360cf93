---------------------------- MODULE Deliberation ----------------------------
(***************************************************************************)
(* Deliberations between models: app/services/deliberation.py, the four    *)
(* write tools of app/api/mcp_v2.py, and the idempotent writes they are    *)
(* wrapped in (app/services/write_safety.py).                              *)
(*                                                                         *)
(* A user's clients open a deliberation, one of them claims it, they       *)
(* contribute to it and one of them records the approved resolution, which *)
(* closes it.  Every tool call carries an idempotency key: the first call  *)
(* with a key is executed and its response stored, the same call again     *)
(* gets the stored response.  The effect of a call and its idempotency     *)
(* record are two transactions: between them the process may end, and the  *)
(* client will send the call again.                                        *)
(*                                                                         *)
(* A worker is a server process; it serves one call at a time.  There is   *)
(* one, and during a redeploy a second one next to it: it may then commit  *)
(* between the checks of a call and its writes.                            *)
(***************************************************************************)
EXTENDS Naturals, Sequences

CONSTANTS
  Deliberations,     \* canonical keys of one user
  Clients,           \* the user's authenticated clients
  NoClient,
  Keys,              \* idempotency keys a client uses
  Workers,           \* server processes
  MaxContributions   \* bound

ASSUME DeliberationAssumption ==
  NoClient \notin Clients /\ MaxContributions \in Nat

VARIABLES
  row,            \* the rows of deliberations
  contributions,  \* the rows of deliberation_contributions, by created_at
  records,        \* the idempotency records
  replays,        \* the contributions with an idempotency.replay audit event
  job,            \* the call each worker is serving
  late,           \* history: who was serving a call when it was resolved,
                  \* and has not ended that call since
  replaced        \* history: deliberations resolved once more by such a call

vars == <<row, contributions, records, replays, job, late, replaced>>

Ids == 1..MaxContributions

Row == [status : {"absent", "open", "resolved"}, claimer : Clients \cup {NoClient},
        resolver : Clients \cup {NoClient}, accepted : SUBSET Ids]

Absent == [status |-> "absent", claimer |-> NoClient, resolver |-> NoClient,
           accepted |-> {}]

(* A call of a tool.  `refs' are the contributions it responds to or       *)
(* accepts; they and `on' are the payload whose hash is compared.          *)
Call == [client : Clients, op : {"create", "claim", "contribute", "resolve"},
         key : Keys, on : Deliberations, refs : SUBSET Ids]

(* Two of the machine checks stored with a contribution: claim_required    *)
(* and duplicate_contributions_for_replay_forbidden.                       *)
Verification == [claimed : BOOLEAN, notDuplicated : BOOLEAN]

Contribution == [by : Call, verified : Verification]

Record == [of : Call, id : 0..MaxContributions]

Job == [stage : {"checked", "committed"}, call : Call, verified : Verification,
        id : 0..MaxContributions]

Idle == [stage |-> "idle"]
Serving(w) == job[w] # Idle

(* The record of c's operation and key, if there is one.                   *)
RecordsOf(c) ==
  {r \in records : r.of.client = c.client /\ r.of.op = c.op /\ r.of.key = c.key}

(* Contributions to d.                                                     *)
On(d) == {i \in DOMAIN contributions : contributions[i].by.on = d}

(* _completion_verification: the claim is the contributor's, and one of    *)
(* its recorded contributions to the deliberation has been replayed.       *)
Verify(c) ==
  [claimed |-> row[c.on].claimer = c.client,
   notDuplicated |->
     \E r \in records : /\ r.of.client = c.client /\ r.of.op = "contribute"
                        /\ r.of.on = c.on /\ r.of \in replays]

-----------------------------------------------------------------------------
Init ==
  /\ row = [d \in Deliberations |-> Absent]
  /\ contributions = <<>>
  /\ records = {}
  /\ replays = {}
  /\ job = [w \in Workers |-> Idle]
  /\ late = [d \in Deliberations |-> {}]
  /\ replaced = {}

(* begin_idempotent_write finds the call's record: the stored response is  *)
(* returned and the replay is audited.  The checks in Verification look at *)
(* the replays of contributions only.                                      *)
Replay(w, c) ==
  /\ ~Serving(w)
  /\ \E r \in records : r.of = c
  /\ replays' = IF c.op = "contribute" THEN replays \cup {c} ELSE replays
  /\ UNCHANGED <<row, contributions, records, job, late, replaced>>

(* Mutant: the status of the deliberation is not looked at.                *)
PassesAnyStatus(c) ==
  CASE c.op = "create" -> row[c.on].status = "absent" /\ c.refs = {}
    [] c.op = "claim" -> c.refs = {}
    [] OTHER -> row[c.on].status # "absent" /\ c.refs \subseteq On(c.on)

(* The checks a tool makes before it writes.  A claim makes its own under  *)
(* a row lock, in the transaction that writes it.                          *)
Passes(c) ==
  CASE c.op = "create" -> row[c.on].status = "absent" /\ c.refs = {}
    [] c.op = "claim" -> c.refs = {}
    [] OTHER -> row[c.on].status = "open" /\ c.refs \subseteq On(c.on)

(* No record: the checks are made on what is committed now.                *)
Start(w, c) ==
  /\ ~Serving(w)
  /\ RecordsOf(c) = {} /\ Passes(c)
  /\ job' = [job EXCEPT ![w] =
               [stage |-> "checked", call |-> c, verified |-> Verify(c), id |-> 0]]
  /\ UNCHANGED <<row, contributions, records, replays, late, replaced>>

(* w is serving a call of op, and has made its checks.                     *)
Checked(w, op) ==
  Serving(w) /\ job[w].stage = "checked" /\ job[w].call.op = op

Committed(w, i) ==
  job' = [job EXCEPT ![w] = [@ EXCEPT !.stage = "committed", !.id = i]]

Leave(w) ==
  /\ job' = [job EXCEPT ![w] = Idle]
  /\ late' = [d \in Deliberations |-> late[d] \ {w}]

(* create_deliberation; the table's uniqueness refuses a second row.       *)
CommitCreate(w) ==
  LET c == job[w].call
  IN  /\ Checked(w, "create")
      /\ IF row[c.on].status = "absent"
           THEN /\ row' = [row EXCEPT ![c.on].status = "open"]
                /\ Committed(w, 0) /\ UNCHANGED late
           ELSE Leave(w) /\ UNCHANGED row
      /\ UNCHANGED <<contributions, records, replays, replaced>>

(* Mutant: no lock, and the claimer is not looked at again.                *)
CommitClaimUnlocked(w) ==
  LET c == job[w].call
  IN  /\ Checked(w, "claim")
      /\ row[c.on].status = "open"
      /\ row' = [row EXCEPT ![c.on].claimer = c.client]
      /\ Committed(w, 0)
      /\ UNCHANGED <<contributions, records, replays, late, replaced>>

(* Mutant: a claim is a status.                                            *)
CommitClaimStatus(w) ==
  LET c == job[w].call
  IN  /\ Checked(w, "claim")
      /\ IF row[c.on].status = "open"
           THEN /\ row' = [row EXCEPT ![c.on] =
                     [@ EXCEPT !.status = "claimed", !.claimer = c.client]]
                /\ Committed(w, 0) /\ UNCHANGED late
           ELSE Leave(w) /\ UNCHANGED row
      /\ UNCHANGED <<contributions, records, replays, replaced>>

(* claim_deliberation, which locks the row.                                *)
CommitClaim(w) ==
  LET c == job[w].call
  IN  /\ Checked(w, "claim")
      /\ IF /\ row[c.on].status = "open"
            /\ row[c.on].claimer \in {NoClient, c.client}
           THEN /\ row' = [row EXCEPT ![c.on].claimer = c.client]
                /\ Committed(w, 0) /\ UNCHANGED late
           ELSE Leave(w) /\ UNCHANGED row
      /\ UNCHANGED <<contributions, records, replays, replaced>>

(* Mutant: the stored response names the contribution before.              *)
CommitContributionBefore(w) ==
  /\ Checked(w, "contribute")
  /\ Len(contributions) < MaxContributions
  /\ contributions' = Append(contributions,
                             [by |-> job[w].call, verified |-> job[w].verified])
  /\ Committed(w, Len(contributions))
  /\ UNCHANGED <<row, records, replays, late, replaced>>

(* submit_contribution.                                                    *)
CommitContribution(w) ==
  /\ Checked(w, "contribute")
  /\ Len(contributions) < MaxContributions
  /\ contributions' = Append(contributions,
                             [by |-> job[w].call, verified |-> job[w].verified])
  /\ Committed(w, Len(contributions) + 1)
  /\ UNCHANGED <<row, records, replays, late, replaced>>

(* record_resolution.                                                      *)
CommitResolution(w) ==
  LET c == job[w].call
      again == row[c.on].status = "resolved"
  IN  /\ Checked(w, "resolve")
      /\ row' = [row EXCEPT ![c.on] =
           [@ EXCEPT !.status = "resolved", !.resolver = c.client, !.accepted = c.refs]]
      /\ Committed(w, 0)
      /\ late' = IF again THEN late
                 ELSE [late EXCEPT ![c.on] = {v \in Workers \ {w} : Serving(v)}]
      /\ replaced' = IF again THEN replaced \cup {c.on} ELSE replaced
      /\ UNCHANGED <<contributions, records, replays>>

(* finish_idempotent_write; if another worker has recorded the same key    *)
(* the insert fails, and what was committed before stays.                  *)
Finish(w) ==
  LET c == job[w].call
  IN  /\ Serving(w) /\ job[w].stage = "committed"
      /\ records' = records \cup (IF RecordsOf(c) = {}
                                    THEN {[of |-> c, id |-> job[w].id]} ELSE {})
      /\ Leave(w)
      /\ UNCHANGED <<row, contributions, replays, replaced>>

(* The process ends; the client does not get an answer.                    *)
Crash(w) ==
  /\ Serving(w)
  /\ Leave(w)
  /\ UNCHANGED <<row, contributions, records, replays, replaced>>

Next ==
  \E w \in Workers :
    \/ \E c \in Call : Replay(w, c) \/ Start(w, c)
    \/ CommitCreate(w) \/ CommitClaim(w)
    \/ CommitContribution(w) \/ CommitResolution(w)
    \/ Finish(w) \/ Crash(w)

Spec == Init /\ [][Next]_vars

-----------------------------------------------------------------------------
(* Types of the variables.                                                 *)
TypeOK ==
  /\ row \in [Deliberations -> Row]
  /\ contributions \in Seq(Contribution) /\ Len(contributions) <= MaxContributions
  /\ records \subseteq Record
  /\ replays \subseteq Call
  /\ job \in [Workers -> Job \cup {Idle}]
  /\ late \in [Deliberations -> SUBSET Workers]
  /\ replaced \subseteq Deliberations

(* The claim a contribution was verified against still stands: a claim     *)
(* never changes hands, however many processes serve claims.               *)
ClaimHolds ==
  \A i \in DOMAIN contributions :
    contributions[i].verified.claimed =>
      row[contributions[i].by.on].claimer = contributions[i].by.client

(* Once a deliberation is resolved, no call that starts after that changes *)
(* it: the status is checked before the write and not again, so a call     *)
(* another process was already serving may still contribute or replace the *)
(* resolution, and nothing else may, with one process nothing at all.      *)
ClosedToNewCalls ==
  [][\A d \in Deliberations :
       (row[d].status = "resolved" /\ (row'[d] # row[d] \/ On(d)' # On(d))) =>
         \E w \in late[d] :
           /\ job[w].stage = "checked" /\ job'[w].stage = "committed"
           /\ job[w].call.on = d]_vars

(* A stored response tells the truth, now and when it is replayed: the     *)
(* contribution it names is that call's, the claim it reports is still     *)
(* that client's, and so is the resolution, unless a call that was being   *)
(* served when the deliberation was resolved has replaced it.              *)
RecordTruthful ==
  \A r \in records :
    CASE r.of.op = "create"  -> row[r.of.on].status # "absent"
      [] r.of.op = "claim"   -> row[r.of.on].claimer = r.of.client
      [] r.of.op = "resolve" ->
           row[r.of.on].resolver = r.of.client \/ r.of.on \in replaced
      [] r.of.op = "contribute" ->
           r.id \in DOMAIN contributions /\ contributions[r.id].by = r.of

(* A call of a client is in the table once.                                *)
Once(c) == \A i, j \in DOMAIN contributions :
             (contributions[i].by = c /\ contributions[j].by = c) => i = j

(* What the check duplicate_contributions_for_replay_forbidden reports: a  *)
(* contribution that passes it belongs to a client whose replayed calls    *)
(* are in the table once.                                                  *)
VerifiedNotDuplicated ==
  \A i \in DOMAIN contributions :
    contributions[i].verified.notDuplicated =>
      \A c \in Call :
        (c.client = contributions[i].by.client /\ c \in replays) => Once(c)
=============================================================================
