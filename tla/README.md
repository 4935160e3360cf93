# TestGraph in TLA+

Models of the server in this repository, checked with TLC, and proofs about them,
checked by TLAPS: every safety property that a passing run checks is also a theorem.

TestGraph is one FastAPI process over PostgreSQL.  AI clients of many users
write subjects and reviews, build a taxonomy together, agree on what a subject
is, and deliberate.  The logic that is hard to test is in how the requests of
several clients follow each other: decisions that count or do not, answers that
arrive late, writes that are sent again, bookkeeping in a transaction of its
own.  That is what the modules are about.

## 1. Inventory

### How the code runs

* **Processes.**  `Procfile` and `railway.json` start one uvicorn process.  A
  redeploy runs the old and the new process side by side for a while, with the
  migrations of `alembic/` applied before (`preDeployCommand`).
* **Handlers.**  The MCP v2 endpoint (`app/api/mcp_v2.py:3273-3393`) is `async`
  and calls synchronous handlers without a pause: two of them never interleave
  in one process.  The REST handlers are `def` functions that run on a thread
  pool and do interleave.  A middleware around the MCP endpoint
  (`app/services/mcp_v2_guidance_policy.py`) awaits the response of the handler
  and then does work of its own; other requests are served in between.
* **Transactions.**  PostgreSQL at READ COMMITTED.  A handler commits once or
  several times; between two commits the process may end, and the client, which
  got no answer, sends the request again with the same idempotency key.

### Components

| Component | State | Operations | Interacts with | What makes it correct |
|---|---|---|---|---|
| Classification (`services/classification.py`, `classification_proposals.py`, `tg_ai_resolver.py`, migration 0025) | type, status, round and lock of a subject; its creation proposal; the decisions of every round; the status of types | affirm / propose, settle, dispute, arbitrate, reopen, backfill | taxonomy (narrower types), resolver (an HTTP call of up to a minute), workflow runs | nobody settles a subject alone; the audit is append-only and always yields the baseline; a dispute has two parties and ends; one subject per key and type |
| Enrichment workflow (`services/workflows.py`, middleware) | workflow runs per subject | gate, start or resume, synchronise | classification, every MCP write | one active run, which says what the classification says; it completes; whom it waits for can act |
| Deliberations (`services/deliberation.py`) | deliberations, contributions | create, claim, contribute, resolve | idempotent writes, audit events, guidance | claims do not change hands; a resolved deliberation takes no new call; verifications tell the truth |
| Idempotent writes (`services/write_safety.py`) | idempotency records, replay and conflict events | begin, finish with hooks | every writing tool | a write happens once per key and the stored response stays true |
| Subjects and reviews (`services/v2.py`, `api/v2.py`, `api/actions_v2.py`) | subjects, reviews, assessments | ensure, save, update, delete | classification, taxonomy | one subject per identity; reviews and subjects end together |
| Taxonomy (`services/semantic.py`, `synthetic_root.py`) | types, edges, aliases | add, retire, attach to the root | classification | acyclic, rooted; a retired edge stays retired; peers converge |
| Location (`services/location.py`) | assertions with a conflict state | assert, resolve, find | subjects | conflicts are marked as long as they last; containment is acyclic |
| Version 1 reviews (`api/capability.py`, `api/actions.py`, `api/mcp.py`, `api/routes.py`, `services/core.py`) | v1 reviews, idempotency records | prepare, commit, save, draft, edit, publish, delete | threads | the answers under a key name one review; what is published is what the user approved |
| OAuth and accounts (`api/oauth.py`, `api/account.py`, `core/security.py`) | users, identities, capability keys, codes, refresh tokens, sessions | sign in, authorize, redeem, rotate, audit | every authenticated request | a token carries what its person agreed to; one refresh token of a connection lives |
| Collection manifests (`api/mcp_v2.py:1176-2946`) | a manifest on the collection's subject; references | submit, store, reuse, revise | subjects, reviews | a reference answers for the members it was made of; an accepted source manifest is a complete walk of the directory |
| Vocabulary navigation and search (`services/vocabulary_navigation.py`, `api/mcp_v2.py:1244-1402`) | none; cursors | page, find paths, search | taxonomy, subjects | whoever is told "no more" has been told all |
| Guidance (`services/guidance.py`) | none; it is derived from deliberations | layer approved revisions | deliberations | what a model is given changes by an approval only |
| Review import (`scripts/import_uci_recipe_reviews.py`) | bundles, users, recipes, reviews | choose, write, load | the API and other loads | a bundle is loaded as a whole and once |
| Version policies, interaction audit, inspection, benchmarks, other scripts | none of their own, or append-only logs | read, render, log | | |

### What is hard to test here

The list with a line for each item and the properties that cover it is under
`hazards` in `PROJECT.json`.  In short: the order of decisions of several clients
over several rounds; a resolver that answers after the world has moved on, or
never; the gap between a committed decision and the run that reports it; a
process that ends between an effect and its idempotency record; checks made
without a lock while two processes overlap; state restored from an audit.

## 2. Plan

| # | Module | About | State |
|---|---|---|---|
| 1 | `Classification`, `ClassificationRounds` | decisions, disputes, resolver, rounds; the abstract rounds they implement | done |
| 2 | `ClassificationProofs` | its invariants and the refinement, for every instance | done |
| 3 | `EnrichmentWorkflow` | extends `Classification` with runs, gate and middleware | done |
| 4 | `Deliberation` | four tools over idempotent writes, crashes, two processes | done |
| 5 | `Taxonomy`, `TaxonomyProofs` | edges, tombstones, cycle check and parent lock, synthetic root, both modes | done |
| 6 | `Location`, `LocationProofs` | conflict states, resolutions and containment cycles | done |
| 7 | `ReviewsV1` | the three transactions of a save, drafts and edits on a thread pool, with crashes | done |
| 8 | `Grants` | accounts, codes and refresh tokens with overlapping requests | done |
| 9 | `Collections` | subjects, reviews and manifests, next to REST requests | done |
| 10 | `SourceManifest` | what the checks of a source manifest let pass | done |
| 11 | `Pages`, `Navigation`, `Search` | cursors over lists that change; the search for paths | done |
| 12 | `PlaceNames` | which place a claim is about | done |
| 13 | `Guidance` | how approved revisions are layered | done |
| 14 | `RecipeImport` | choosing, writing and loading bundles | done |
| 15 | `LocationRequests`, `Requests` | compose 6 and 12, and 4, 7 to 11, 13 and 14 | done |
| 16 | `EnrichmentWorkflowProofs` | the invariants of 3, and that it keeps those of 1 | done |
| 17 | `WritesProofs` | what is proved of 4, 7 and 8 | done |
| 18 | `RecordsProofs` | what is proved of 9, 10, 12 and 13 | done |
| 19 | `ListsProofs` | what is proved of 11 and 14 | done |
| 20 | `RequestsProofs` | the composition 15 implements each of its parts | done |
| 21 | `ClassificationOverlap` | two processes that read a round and commit later | left |
| 22 | `Classification` over `Taxonomy` | edges that move while a round is open | left |

Proofs left: abstract specifications that `Deliberation`, `Grants` and `Location`
implement, in the way `Classification` implements `ClassificationRounds`.

## 3. Modules and code

Every definition that stands for code is in `PROJECT.json` under `map` with its
lines.  An action is a database transaction, or a request when nothing can come
between its transactions.

### Classification (`services/classification.py`)

| Model | Code |
|---|---|
| `subject[s]` | a row of `v2_subjects`: type, status, round, lock, proposal and proposer; the `Subjects` are rows with one canonical key, so `Taken` is the unique constraint on (type, key) |
| `decisions[s][v][c]` | the row of `subject_classification_decisions` of a client in a round (unique per subject, round, client) |
| `typeStatus` | the status of a subject type, raised by decisions and settlements |
| `offered[s]` | the positions sent to the resolver while its HTTP call is open |
| `Create`, `Delete`, `Backfill` | `ensure_subject`, `delete_owned_experience`, migration 0025 |
| `Propose` | `propose_reclassification` in its branches: `IgnoreDecision`, `DecideOwnProposal`, `ConfirmProposal`, `DisputeProposal`, `JoinDispute`, and for rows without a proposal `FirstPosition`, `AgreeUnproposed`, `SplitUnproposed` |
| `Arbitrate`, `RefuseArbitration`, `ResolverFails` | what becomes of the resolver's answer |
| `Reopen` | `reopen_classification` |

`ClassificationRounds` is what this promises, without votes: a round is opened
under a baseline, settled once on it or on something narrower, and the next
round starts from the same baseline.

### EnrichmentWorkflow (`services/workflows.py`, the middleware)

Extends `Classification`: its actions are conjoined with what the handlers around
them do.  `runs[s]` is the sequence of a subject's workflow runs, `request[c]` the
tool call of a client whose response the middleware has not yet seen (a client has one
at a time), `owner`, `reviews` and `enriched` what deletion, the gate and the decision tools look at; `lost` marks subjects
whose synchronisation failed (history).  `SyncDecision`, `SyncEnrichment` and
`SyncFails` are the middleware's own transaction, `Block` is the gate that starts
or resumes a run instead of letting a write through, `Answer` and `NoAnswer` are
the end of the resolver's call, after which the handler that waited for it returns,
`Crash` the end of the process.

A request comes from a person `u` through a client `c`: a subject is owned and reviewed
by people, it is proposed and decided by clients, and one person may use several.
`MaySee` is `_classification_subject` (`mcp_v2.py:3205-3220`), which the decisions and a
reopening go through; `MayMutate` is the gate's look at who writes.  A request with the
development key has no principal (`NoUser`), and finds the subjects that have no owner.
`CreateOnly` and `PublishReview` are how a subject comes to have no review, no owner, or
somebody else's review: as another subject's context, as a place, over REST.

### Deliberation (`services/deliberation.py`, `services/write_safety.py`)

`row` and `contributions` are the tables, `records` the idempotency records,
`replays` the replay audit events, `job[w]` the call a server process has checked
or committed but not recorded.  A call is *checked*, *committed* and *recorded* in
three steps; a crash may take a process between any two of them, and another process
may commit there.  `late` is history: who was serving a call when a deliberation was
resolved, and has not ended that call since; `replaced` is what such a call resolved again.

### Taxonomy (`services/semantic.py`, `services/synthetic_root.py`)

`graph` holds the tables: creators of types, aliases, edge rows with their state,
and which types hang under the root.  `typed` is the deployment's
`classification_mode`; it is chosen with `threaded` in the initial state and never
changes, so that one run covers both modes in order and with overlap.  Adding and
retiring an edge are two steps (`Begin...`: the checks; `Commit...`: lock, second
look, write), with the request in `flight` between them.  `graph.distinct` is
history: edges inserted with a decision that the child is distinct.

Legacy mode takes any string for a relationship and looks for cycles among `belongs_to`
only: `Supported` is what a request may name, with `LegacyUses` the strings clients use
beside `belongs_to`, `CycleChecked` what the check is made for, and `Placing` what moves
a type under a parent or the root.

### Location (`services/location.py`)

`state` maps every stored assertion, identified by the columns the code looks it
up by, to its conflict state.  `AssertLocation` inserts a row and refreshes its
group (`Refreshed`, `Judged`), `Resolve` accepts or rejects a contested one and
refreshes nothing.  `lapsed` is history: rows that were superseded once.  The
initial states hold the claims migration 0016 fills in without comparing them; of a
subject nobody owned they have no owner (`owned`), and stay out of every group, as a
group is one owner's.

### ReviewsV1 (`api/capability.py`, `api/actions.py`, `api/mcp.py`, `api/routes.py`)

| Model | Code |
|---|---|
| `reviews`, `saveRecords` | rows of `experiences`, with the call they came from and the version their user approved (history), and of `idempotency_records` |
| `thread[t]` | the request a pool thread, or the event loop, is serving, with what it has read |
| `LookUp`, `FindSubject`, `InsertSubject`, `CreateExperience`, `PublishSaved`, `RecordSave` | `_save_review` and `_save`, cut at their commits |
| `ReplaySave` | the early return for a key that has a record |
| `ReadForEdit`, `CommitEdit`, `ReadForPublish`, `CommitPublish`, `SoftDelete` | the edits of a draft, which name the version they mean |
| `Restart` | the process ends between two transactions |

`overlap` says whether requests run side by side; it is fixed in a behaviour.  With
overlap an edit and a publication may lose an update, so `PublishedAsApproved` is
about requests in order; `AnswersAgree` is about all.

### Grants (`api/account.py`, `api/oauth.py`, the connection audit)

`codes` and `refresh` are the tables, `identity`, `session` and `keys` how a person is
known, `held` and `lost` what a connected application has received.  A sign-in, the
redemption of a code and the use of a refresh token are each a read (`SignIn`,
`ReadCode`, `ReadRefresh`) and a commit (`SignedIn`, `Exchange`, `Rotate`), with no lock
between them; `Audit` is the middleware's own transaction after a redirect.  `Servers`
are threads, or the two processes of a redeploy.

### Collections and SourceManifest (`api/mcp_v2.py`)

`SaveMember` is the call that saves the review of a collection's member: it submits
the members (`SaveAssessed`) or names a reference (`SaveReused`, which `Reusable`
checks against the stored manifest).  `SaveIndependent`, `DeleteReview` and the
`Rest...` actions are everything else that adds or removes subjects, links and reviews.
`RestRead` and `RestCommit` are `ensure_subject` on a thread: it writes the provenance
it has read back, and a manifest stored in between is gone.  `careful` restricts a
behaviour to clients that name the collection they mean.

`SourceManifest` starts from what a client finds on a directory and lets it make
mistakes, one after the other (`Mistake`); `Violations` is the server's verdict.

### Navigation and Search

`edges` and `matching` are what others change (`EdgeChanged`, `MatchChanges`) while a
client pages (`FirstPage`, `NextPage`; `BeginSearch`, `ContinueSearch`).  A cursor is an
offset, in `Search` one into each of two lists; `Pages` is the order they count in.  `Paths` is the depth-first search of
`get_subject_type_paths` with its limits.

### PlaceNames (`services/location.py:129-244`)

One action per way `_resolve_or_create_place` ends: `NameById`, `NamedByKey`,
`NamedByIdentifier`, `CreatePlace`; `EnsureNewPlace` and `FillPlace` are
`ensure_subject` for a place.  A request that creates a place checks (`Preflight`) and
commits (`CommitPlace`, or `FailPlace`) in two steps, for `_identity_preflight` and the
insert have no lock around them and no constraint but that on the key.  A claim compares
the values of identifiers (`SharingValue`), the preflight pairs of scheme and normalised
value (`SharingPair`): a page's address with and without its last slash is one identifier
to the preflight and two to a claim, and one value under two schemes the other way round.
`together` and `filled` are history: pairs of keys that were created side by side, and
keys that were ensured without an identifier or got one later.

`LocationRequests` composes `Location` and `PlaceNames`: `half` picks what a behaviour is
about.  Places are not removed and a claim is stored with the id of its place, so the two
halves meet in that id alone.

### Guidance (`services/guidance.py`)

`Induction` is `get_induction`: revisions approved for the model over those for every
model over the baseline.  `ProposeGuidance` and `ApproveGuidance` stand for the
deliberation that changes it.

### RecipeImport (`scripts/import_uci_recipe_reviews.py`)

`WriteBundle` chooses rows (`ChosenRows`, `RepresentativeRows`); `ReadBundle`,
`ReadRecipes`, `ReadReviews` and `CommitBundle` are the reads of `load_bundle` and its one
commit; `LoaderEnds` is a load that is cut off.

### Requests

Nine parts of the server side by side: `Deliberation`, `ReviewsV1`, `Grants`,
`Collections`, `SourceManifest`, `Navigation`, `Search`, `Guidance` and `RecipeImport`.
A behaviour is about one of them, which `part` picks, and the run checks them all.  It is
a way to check the parts together and says nothing of steps of two parts in turn.  Most
parts have tables of their own.  The exception is guidance, which is derived from the rows of
deliberations: `Guidance` has approved revisions appear by itself, in any order, and needs
none of `Deliberation`'s behaviour.  (`Collections` and `PlaceNames` are both about
`v2_subjects`, but about collections and their members, and about places.)

## 4. Runs

| Run | Instance | What it shows |
|---|---|---|
| `rounds` | 1 subject, 3 clients, 2 types, 2 rounds; every offer is answered | disputes have two parties, an offer to the resolver never goes stale, the audit of a settled subject yields one baseline and its type is confirmed, the refinement of `ClassificationRounds`, every dispute ends |
| `twins` | 2 rows with one key from an earlier release, 2 clients, 3 types, labels that look like TestGraph's own, a resolver that may fail | no client settles alone, two rows never get one type, the audit is append-only |
| `later` | 1 subject, 2 clients; resolver may fail | **violated**: a dispute whose resolver call failed is never resolved |
| `workflow` | 1 subject, 2 clients, 1 person and the development key, 2 rounds, 2 runs, crashes; 802,453 states | one active run; it says what the classification says, up to requests in flight and lost steps; whom it waits for can act |
| `run_completes` | 1 subject from an earlier release, 2 clients of 2 people, 1 round; 294,621 states | the run of a settled subject completes; whom a run waits for can act, whoever owns and reviews the subject |
| `requests` | the nine parts of `Requests`, see below; 741,091 states | a resolved deliberation takes no new call, claims do not change hands, stored responses stay true, with two processes; version 1 answers agree and what is published was approved; grants are faithful and one token lives; references hold; an accepted source manifest is a walk; who is told all was told all; bundles are whole; guidance changes by approval |
| `commit_twice` | 2 threads and the loop, 1 client at a commit URL, 1 over MCP, 1 key | **violated**: a commit URL fetched twice stores two reviews |
| `duplicated` | 1 process | **violated**: a contribution is stored twice and then verified to have no duplicates |
| `taxonomy` | 3 names, 2 creators, 2 requests in flight; 3 edges in order, 2 with overlap; both modes, `is_a` beside `belongs_to` in legacy mode; 116,175 states | in order: no cycle among the relationships that are checked, exact roots and one parent in legacy mode (`PlacedExactly`), names keep their meaning; always: peers converge by a decision, retired edges stay retired |
| `taxonomy_cycle` | 2 requests in flight | **violated**: two additions that overlap make a cycle |
| `location` | 3 places, a venue with or without an owner, 2 clients, 3 periods, 4 claims; or 2 place keys, 2 titles, 3 identifiers, 2 requests creating places; 516,759 states | claims are about the place they name and places share no identifier, up to overlap and later filling; no contradiction of an owner's claims hidden, no contest made up, superseding loses no location, resolutions stay, claims never superseded have no cycle |
| `location_cycle` | 3 places, 1 client, 2 periods, 4 claims | **violated**: a superseded claim comes back and closes a cycle |

Every property of a passing run has a mutant, a plausible bug in one definition
(`mutants` in `PROJECT.json`; in the module it stands before the definition it
is a variant of, marked as a mutant), under which TLC finds the property violated.

### Bounds and why they are enough

* Three clients in `rounds` are a proposer and two others who may agree with it, with
  each other, or with nobody; two rounds are one reopening, and what a reopening
  reads is the round before.  Two types give a type and a narrower one; `twins` has
  two incomparable narrower ones.
* Two rows with one key are enough for one to be in the way of the other.
* `MaxRuns = 2`: the code looks at the newest active run only; a second one is the
  first that could be overlooked.  `MaxEnriched = 1` in `workflow`: one client, the
  proposer or the other one, can replay an enrichment; in `run_completes` both can.
* One person in `workflow` is the owner, a reviewer, or neither; with two, in
  `run_completes`, one may own what the other reviews.  Two people over two rounds would
  take longer than the run is given; who may see a subject does not depend on the round.
* `requests` has one deliberation, two clients of it and two processes: the second is the
  one that commits between the check and the commit of the first.  One contribution may
  come before or after a resolution, and two resolutions, or two claims, need none;
  `duplicated` has three, an original, its duplicate and the one that is verified.  One key per client and tool:
  more keys are more independent calls.
* Two v1 reviews are a review and its double, two versions a draft and one edit;
  the threads are two of the pool and the event loop, whose clients are in
  `commit_twice`.  `Texts` has one value in `requests`, where the text tells nothing
  apart, and two in `commit_twice`.
* Two accounts, codes and tokens: an account and one that could be taken for it, two
  redemptions of one code, a token and its successor.
* Two collections of two items, two revisions and references: a reference that could
  be used for the wrong collection or for a revision that is no longer stored; one review
  may be there at a time, and come and go.
* Three pages and two mistakes: a circle beside the walk needs two wrong links.
* Three types, three hits in each list and two changes: pages of every size, and an entry
  that leaves or comes before the reader, twice.
* Two keys and titles and three identifiers: two of one scheme that differ in the last
  slash, and one of another scheme with the value of the first.  With them the same place
  may come under another key, the same key for another place, and either comparison of
  identifiers may find what the other does not.  Two requests that create places are one
  between the check and the insert of the other; one key may be filled in later, so
  that the other is not.
* Three names of two models, two sections of which one has a baseline, two proposals:
  each pair of a global and a model's own revision, in either order.
* Two datasets of three rows (recipes apart and together, in order and not), two
  bundles, two loaders.
* Three names are the shortest cycle that the parent's own edges do not show; two
  requests in flight are the shortest race.
* Four claims are a claim, its successor, the containment in the other direction
  and the claim that brings the first one back.  The three periods touch, follow
  each other and contain an instant.
* One scheme of containment, one owner and the claims of nobody: schemes have their own
  graphs, owners their own rows.  `LegacyUses` has one relationship: strings that legacy
  mode does not check have no rule that relates one to another.
* `MaxVersion`, `MaxRuns`, `MaxEnriched`, `MaxContributions`, `MaxEdges`,
  `MaxEdgesThreaded`, `MaxRows`, `MaxReviews`, `MaxAccounts`, `MaxCodes`, `MaxTokens`,
  `MaxRevision`, `MaxRefs`, `MaxReviewed`, `MaxGiven`, `MaxMistakes`, `MaxChanges`, `MaxShifts`,
  `MaxAnswers`, `MaxCreating`, `MaxFilled`, `MaxProposals`, `MaxBundles`, and that a client of
  `EnrichmentWorkflow` has one request in flight (`Free`), are the only guards the code does
  not have; `MaxType` and `MaxHit` are sizes of the lists that are read.  Where a client asks
  for a limit (a page of entries, the depth of a path) the model has every limit up to the
  size of the list.

Deadlock is not checked: with its bounds used up, and with no client calling, the
server rightly does nothing.

### Fairness

* `FairSpec` of `Classification`: the resolver's call ends (an HTTP timeout) and, if
  `ResolverMayFail` is false, with an answer that is applied.  It also lets every
  client make every decision it can make again and again.  The code cannot promise
  that; it only makes `later` stronger: not even such clients end the dispute.
  `DisputeSettles` needs the resolver alone.
* `WfSpec` of `EnrichmentWorkflow`: a request that has returned reaches the middleware,
  which runs in the same task; the resolver's call ends.  A crash or a failure may
  always come first, which is why `SettledRunCompletes` has the disjunct `lost`.

No other module assumes fairness; their properties are safety.

## 5. Proofs

| Module | Proved for every value of the constants | From |
|---|---|---|
| `ClassificationProofs` | `TypeOK`, `SettlementIndependent`, `SettlementAudited`, `DisputeIsGenuine`, `OfferStaysOpen`, `UniqueIdentity`, `SettledTypeAccepted`, `AuditAppendOnly`, `ImplementsRounds` | `IInv` |
| `EnrichmentWorkflowProofs` | `WfTypeOK`, `OneActiveRun`, `RunFollowsSubject`, `HandoffOpen`, and all of the classification's properties above within the workflow | `WfInv` |
| `TaxonomyProofs` | `TypeOK`, `PeersConverge`, `TombstonesStay`, for any number of requests in flight; `AcyclicInOrder`, `PlacedExactly`, `NamesKept` in order | `IInv` (`GInv`, `FlightOK`), `OrderInv` |
| `LocationProofs` | `TypeOK`, `NoHiddenConflict`, `ContestIsGenuine`, `ResolutionStays`, `SomeClaimCurrent`, `AcyclicUnlessRevived` | lemmas about a refresh; `SupersededRecorded`, `SupersededOutdated` |
| `WritesProofs`: `Deliberation` | `TypeOK`, `ClaimHolds`, `RecordTruthful`, `ClosedToNewCalls`, for any number of processes | `ClaimInv`, `FinalInv` |
| `WritesProofs`: `ReviewsV1` | `RvTypeOK`, `AnswersAgree`, `PublishedAsApproved` | `RvInv` |
| `WritesProofs`: `Grants` | `GrTypeOK`, `GrantFaithful`, `OneLiveToken` | `GrInv` |
| `RecordsProofs`: `PlaceNames` | `PlTypeOK`, `PlaceNamed` | `PlInv` |
| `RecordsProofs`: `SourceManifest` | `SmTypeOK`, `AcceptedIsWalk` | `SmTypeOK` |
| `RecordsProofs`: `Collections` | `CoTypeOK`, `ReferencesHold` | `CoInv` |
| `RecordsProofs`: `Guidance` | `GuTypeOK`, `GuidanceApproved` | `GuInv`, `GivenLatest` |
| `ListsProofs`: `Search` | `SeTypeOK`, `SearchExhaustive` | `SeInv` |
| `ListsProofs`: `Navigation` | `NaTypeOK`, `PagesComplete`, `PathsComplete` | `NaInv` |
| `ListsProofs`: `RecipeImport` | `ImTypeOK`, `ImportWhole` | `ImInv` |
| `RequestsProofs` | the specification of each part, `RqTypeOK`, `ToldAll`, and every property above of a part of `Requests` | the theorems above |

**Classification.**  The properties are not inductive.  That a settlement is
independent needs to know that in an open round every decision is pending, starts
from the current type and names it or something narrower, and that the proposal is
the current type (`OpenRoundOK`); that reopening is the round before depends on
rounds not yet opened being empty (`FutureEmpty`) and on the settling decisions of a
round agreeing on type and baseline (`Audited`).  `SubjectInv` is these together, per
subject.  An action changes one subject; the proof has one lemma per branch of the
decision handler and one that carries the other subjects over (`OneSubject`).  The
refinement follows: each transaction is an `Open`, `Settle`, `Reopen` or `Remove` of
the rounds, or a stutter.  `Descends` is written as an intersection of closed sets so that its
transitivity is provable without induction.  `AuditAppendOnly` is an action property:
each branch of the handler adds a decision, or turns pending decisions of the open round
into what the round came to; `StepAppends` puts the branches together.

**Enrichment workflow.**  `WfInv` is `IInv`, the types, and for every subject `Tracked`: there is
one active run; it shows what the classification says unless the step was lost or a
request that will bring it up to date is under way; while the resolver is asked, the
request that asks it waits; and an open round without a dispute has no decision but
the proposer's (`Reviewable`), which is why a run that waits for an independent model waits
for somebody who can decide.  `HandoffOpen` is not inductive without the last part,
`RunFollowsSubject` not without the first.  Who may see a subject is not part of the
invariant: whoever may write to an open subject owns it or has a live review of it, and
`MaySee` asks for just that, so the tools that the run sends people to do find the subject.
`Classifies` says that a request takes one step of
the classification or none, and that a crash only drops what the resolver was asked; with
it the classification's invariants, its audit and the refinement of the rounds hold within
the workflow, from rows of an earlier release on.

**Deliberation.**  `ClaimInv` says that a job that was verified against a claim sees
the same claim when it commits: a claim is written under a row lock that looks again
(`deliberation.py:249`).  `FinalInv` says of each call in hand what it may still rely on
(`JobTruthful`): a call that was checked is about a deliberation that is open, or was
resolved while the call was being served, in which case its process is in `late`; what a
call has written is there, unless it was a resolution and has been `replaced`.  The other
processes can resolve, and then put this one into `late`, but can not take it out
(`OthersSee`).  `LateStep` draws the conclusion: a step that changes a resolved deliberation is the
commit of a call from before the resolution.  So with one process a resolved deliberation
does not change at all, and with two during a redeploy only by a call that has seen it open.

**Taxonomy.**  `FlightOK` says all a request in flight may still assume at its commit:
that the types it is about exist.  `GInv` is `PeersConverge` with the typing of the
tables; each way to change a graph has a lemma that it keeps `GInv`, the types and the
retired rows (`Keeps`), and a hierarchy is a sequence of such changes.

What holds in order only is in `OrderInv`: one request at most is in flight, it saw the graph
as it is (`Fresh`), and the graph is `Ordered`, that is a tree with each type at its place.
`Ancestors` is a recursive function; `AncestorsLeast` shows that it computes the least
set of names that holds a type and is closed under parents.  The proof is an induction
on the sets it computes, and a counting of names, of which a set that still grows leaves
fewer and fewer.  With that, an edge `c` to `p` makes a cycle only if `c` was an ancestor of
`p` (`EdgeAdded`), which is what the code looks for.  A name keeps its meaning because
types are never deleted and an alias is registered only where nothing resolves.

In legacy mode this is about `belongs_to`, on which nothing that the other relationships do has
an effect; those may have cycles even in order.

**Location.**  `RefreshedRow` and `AssertedRows` say what a refresh does to a row;
with them each property is preserved by each action.  `SupersededOutdated` says that what
is superseded ends before another claim of its subject begins; among claims that are
made for more than an instant the one that ends last is therefore current.  `Reach` is
shown to be the least closed set like `Ancestors`, from `PlacesAssumption`: there are finitely many
places.  `AcyclicUnlessRevived` needs that a claim that was superseded once is in
`lapsed` (`SupersededRecorded`), as the check of the code does not follow it.

**Places (`RecordsProofs`).**  `PlInv` is about requests under way as well as places: a place or a request
without an identifier is of a key in `filled` (`Identified`), a request that has passed the
preflight shares no pair with a place, but with one that was being created with it
(`CheckedApart`), and two requests under way have their keys in `together`.  So a place that is
inserted shares no identifier with one it was checked against (`PlacesApart`).  A claim is
answered with a place of one of its values because that is how it was found, and
identifiers are only ever added (`AnswersNamed`).

**Source manifests.**  This is about what the checks let pass and needs no more of the state
than its types.  Of a manifest without violations the page numbers are 1 to the number
of pages, each page has its own address, and a page that is not the last names the next
one; so the walk from the first page is at the page of the next number after every step,
reads each once, and ends at the last.

**Collections.**  `CoInv` adds `Upheld` to `ReferencesHold`: unless REST requests overlap others,
what such a request will write back is what is stored, so that revisions only grow, and a
reference with the revision that is stored is of the members that are stored.  Whether a
reference may be reused is asked of what is stored; that the answer is right for all
references that were ever given is what `Upheld` is for.

**Guidance.**  `Induction` folds the approvals from the first to the last.  `InductionLatest`
shows that the fold yields the last approval for the model, or the last for every
model, or the baseline (`GivenLatest`); a new approval is last among those it concerns and
does not count among the others, and no proposal is approved twice.

**Pages and search.**  `Place` is the number of rows up to a row, and a page holds the rows whose
places follow the offset.  `SeInv` and `NaInv` say that a row that was listed all the while is
still ahead of the cursor, was served, or had a row before it that left: a row that
comes can only move it further ahead, and one that leaves does so at the price the
property names.

**Paths.**  The search is a recursive function over its turns.  `Searched` holds in every turn: as
long as nothing was left out, each path of the graph continues one on the stack or
was `Taken`.  A turn takes the top of the stack and puts its valid extensions
there instead; an extension that is not valid is a circle, which marks the answer as
truncated as both limits do, and a path without extensions is completed.

**Import.**  `choose_rows` is a fold, too: after `n` rows it has chosen those of the first `n` that
are `Wanted`, because a recipe is taken on exactly while fewer recipes than the limit
have begun before it (`ChoiceKept`, by counting).  `Knows` is what a process that loads may rely
on: what it read as there is there at the commit, because nothing is ever
deleted, and the unique keys make the rest fail as a whole.

**Requests.**  `PartsAlone`: a step of the composition is a step of one part and a stutter of
each other, so it implements the specification of every part, and all theorems about
parts hold of it.  `ToldAll` and `RqTypeOK` follow.

**Grants.**  `Known` says that what rows and requests in flight refer to is there,
`Vouched` that a session and a sign-in are of the person's own user: an identity never
changes, so that what was read before a commit is still so.  `InOrder` and `Fresh` are about
requests in order: one request at a time, whose token is still live.  `GrantFaithful` holds
with any overlap; `OneLiveToken` does not, and says so.

**Version 1 reviews.**  `Recorded`: a record is of a stored review, the only one of its
key, and an answer is what a record says, which is why answers agree although a review
may be stored twice.  `Underway` is what a request in flight has written, `Ordered` what it
may assume in order.

Assumptions on constants are the `ASSUME`s of the modules, which TLC evaluates in
each run; there are no further ones.

**Recursion.**  What a recursive function or a fold computes is proved by an induction on a
set: `NatSet` says that a set that holds 0 and each successor holds every number, from
the well-foundedness of the natural numbers, and is used with the set of the numbers a
statement holds of.  No module has a RECURSIVE operator.

### Only model-checked

Liveness: `DisputeSettles` and `SettledRunCompletes`, which are about fairness.  And the five
violations, which are counterexamples.  Every other property of a passing run is the
subject of a theorem.

## 6. Findings

`PROJECT.json` lists the disagreements between code and documentation with lines:

1. Overlapping `POST /relationships` requests make a cycle (`taxonomy_cycle`).
2. A superseded containment that becomes current again makes a cycle, with one client
   and no overlap (`location_cycle`).
3. After a crash a repeated contribution is stored twice and verified to be unique
   (`duplicated`).
4. A dispute the resolver failed on is not left "for later resolution" (`later`).
5. A commit URL that is fetched again before its record is there stores and publishes a
   second review (`commit_twice`).

Noted on the way, with no statement of the repository against them:

* A failure of the middleware's synchronisation is logged and dropped, and a run stays
  behind its classification until the next write about the subject; `RunFollowsSubject` has
  the disjunct `lost` for it.
* `put_subject` on a thread may undo a manifest stored in between; with overlap a code or a
  refresh token may be used twice and give two live tokens; an edit and a publication on
  two threads may lose an update.  The properties about them are about requests in order.
* Two requests that create places with one identifier under two keys at the same moment
  both find nothing (`api/v2.py:441`) and both commit (456-457): there are two places with one
  identifier then, and a claim that names it is refused as unclear (`PlaceNamed` excludes
  pairs in `together`).
* A place that is ensured without an identifier and gets one later may share it with
  another place (`PlaceNamed` excludes keys in `filled`).
* A run of a subject that nobody owns and nobody has reviewed asks for an independent model,
  but the decision tools answer every user with "Subject not found"; only the development
  key finds it (`HandoffOpen` is about people who may write to the subject).
* In legacy mode relationships other than `belongs_to` are stored without a look for
  cycles: `is_a` from A to B and then from B to A, in order, is one (`Acyclic` is about
  `CycleChecked`).
* A claim migration 0016 made of a subject without an owner is in no group
  (`location.py:267`), but is shown and queried with the owner's claims (305, 527-529, 606,
  622).  A contradiction between the two is never contested (`NoHiddenConflict` is about the
  owner's claims).
* Two claims for the same instant by two clients supersede each other; the subject has
  no current location then (`SomeClaimCurrent` excludes it).
* Of two contested claims both may be accepted; and rejecting a rival's claim takes no
  approval, also by the client whose own claim is then the only one left.
* Migration 0016 can leave two contradicting postcodes uncontested until the next
  claim about the subject (`NoHiddenConflict` excludes it).
* With two processes during a redeploy a contribution or a second resolution may be
  committed after a resolution, by a call that was checked before it (`late` in
  `ClosedToNewCalls`); the stored response of the first resolver is then out of date
  (`replaced` in `RecordTruthful`).
* A retirement and an addition that overlap may leave a type with both an edge to the
  root and a parent (`PlacedExactly` is about requests in order).
* A replayed enrichment may start a run for a settled subject, which is completed at
  once.

## 7. What is not modelled, and why

* Text, values and wording: semantic heads, the text of guidance, redaction, the instructions a
  run is rendered to, the machine checks of a contribution that read its evidence.
* A hierarchy of more than two terms continues as one of two does; a claim about a
  postcode, an address or a position behaves as `located_in` with a value.
* Signatures, hashes and expiry: a token that has expired is one that is not presented.
  The owner's secret of the first release and the legacy connection codes.
* The interaction audit and the inspection pages: an append-only log and read-only
  reports.  Users, alignments, domain schemas and integration pages of version 1; the
  benchmarks and the other scripts; migrations other than 0016 and 0025.
* Two requests that create one subject under one key at the same moment: the unique constraint
  lets one of them fail, and a failed request changes nothing.  (Places under two keys with
  one identifier are modelled, in `PlaceNames`.)
* Steps of two parts of `Requests` in turn.
* Edges between types that move while a round is open (section 2, 22).
* Two processes deciding on one subject at the same moment (`ClassificationOverlap`).
  Until then `Classification` takes a decision as one transaction, which is what one
  process does.
