------------------------------ MODULE ReviewsV1 ------------------------------
(***************************************************************************)
(* Version 1 of the reviews: app/api/capability.py, app/api/actions.py,    *)
(* app/api/mcp.py, app/api/routes.py over app/services/core.py.            *)
(*                                                                         *)
(* A review is saved in one call, which creates it, publishes it and       *)
(* records the call under its idempotency key, each in a transaction of    *)
(* its own; or it is drafted, edited and published by calls that name the  *)
(* version they mean.  The REST handlers run on a pool of threads; the MCP *)
(* handler has no await between its reads and its writes, so the event     *)
(* loop serves one of its calls after the other.  A prepared review        *)
(* travels in a signed commit token, of which nothing is stored: to fetch  *)
(* the token is one more save of the same call.                            *)
(***************************************************************************)
EXTENDS Naturals, Sequences

CONSTANTS
  Savers,        \* client ids
  LoopSavers,    \* MCP clients, whose saves the event loop serves
  Drafters,      \* holders of an API key, who draft; the others save
  SaveKeys,      \* idempotency keys
  NoKey,         \* a draft may be sent without one
  Texts,         \* what a review says
  Threads,       \* the threads of the pool, and the event loop
  Loop,
  MaxReviews,    \* bounds
  MaxVersion

ASSUME ReviewsAssumption ==
  /\ LoopSavers \subseteq Savers /\ Drafters \subseteq Savers \ LoopSavers
  /\ NoKey \notin SaveKeys /\ Loop \in Threads
  /\ MaxReviews \in Nat /\ MaxVersion \in Nat \ {0}

VARIABLES
  overlap,        \* whether requests overlap, fixed in a behaviour
  subjectExists,  \* the subject the reviews are about
  reviews,        \* the rows of experiences, by created_at
  saveRecords,    \* the idempotency records
  answers,        \* the answers to saves and drafts: who, under which key, what
  thread          \* the request each thread is serving

rvVars == <<overlap, subjectExists, reviews, saveRecords, answers, thread>>

ReviewIds == 1..MaxReviews
Versions == 1..MaxVersion

(* A call that makes a review; the idempotency hash is taken of its text.  *)
SaveCall == {c \in [saver : Savers, key : SaveKeys \cup {NoKey}, text : Texts] :
               c.key = NoKey => c.saver \in Drafters}

Drafts(c) == c.saver \in Drafters

(* `approved' is the approved_version of the consent, 0 without approval;  *)
(* `edits' counts the edits that were answered with success.               *)
Review == [by : SaveCall, version : Versions, approved : 0..MaxVersion,
           edits : Nat, published : BOOLEAN, deleted : BOOLEAN]

SaveRecord == [of : SaveCall, id : ReviewIds]
Answer == [saver : Savers, key : SaveKeys, id : ReviewIds]

(* A request in flight: a call that makes a review; or an edit or a        *)
(* publication of a review, with the version it has read.                  *)
Making == [stage : {"looked", "missing", "found", "drafted", "made"},
           call : SaveCall, id : 0..MaxReviews]
Changing == [stage : {"edit", "publish"}, id : ReviewIds, version : Versions]
Free == [stage |-> "free"]

Stage(t, s) == thread[t].stage = s
Turns(t, j) == thread' = [thread EXCEPT ![t] = j]

(* The record of the client and the key of c.                              *)
SavedAs(c) == {r \in saveRecords : r.of.saver = c.saver /\ r.of.key = c.key}

-----------------------------------------------------------------------------
RvInit ==
  /\ overlap \in BOOLEAN
  /\ subjectExists = FALSE
  /\ reviews = <<>>
  /\ saveRecords = {} /\ answers = {}
  /\ thread = [t \in Threads |-> Free]

(* A thread takes a request.                                               *)
Serves(t) == Stage(t, "free") /\ (overlap \/ \A u \in Threads : Stage(u, "free"))
ServesCall(t, c) == Serves(t) /\ (c.saver \in LoopSavers <=> t = Loop)

(* A key that has been recorded: the stored response, if it is the same    *)
(* call.  Another call under the key is refused and changes nothing.       *)
ReplaySave(t, c) ==
  /\ ServesCall(t, c)
  /\ \E r \in SavedAs(c) :
       r.of = c /\ answers' = answers \cup {[saver |-> c.saver, key |-> c.key, id |-> r.id]}
  /\ UNCHANGED <<overlap, subjectExists, reviews, saveRecords, thread>>

(* The first statement of _save_review, _save and create_draft, called     *)
(* with an approved review or with a commit token that is still valid.     *)
LookUp(t, c) ==
  /\ ServesCall(t, c) /\ SavedAs(c) = {}
  /\ Turns(t, [stage |-> "looked", call |-> c, id |-> 0])
  /\ UNCHANGED <<overlap, subjectExists, reviews, saveRecords, answers>>

(* A save looks for the subject, or creates it in a transaction; the       *)
(* uniqueness of its key refuses a second row and the request fails.       *)
FindSubject(t) ==
  /\ Stage(t, "looked") /\ ~Drafts(thread[t].call)
  /\ Turns(t, [thread[t] EXCEPT !.stage = IF subjectExists THEN "found" ELSE "missing"])
  /\ UNCHANGED <<overlap, subjectExists, reviews, saveRecords, answers>>

InsertSubject(t) ==
  /\ Stage(t, "missing")
  /\ subjectExists' = TRUE
  /\ Turns(t, IF subjectExists THEN Free ELSE [thread[t] EXCEPT !.stage = "found"])
  /\ UNCHANGED <<overlap, reviews, saveRecords, answers>>

(* create_experience, committed as a draft.                                *)
CreateExperience(t) ==
  LET c == thread[t].call
      n == Len(reviews) + 1
      next == IF Drafts(c) THEN "made" ELSE "drafted"
  IN  /\ Stage(t, "found") \/ (Stage(t, "looked") /\ Drafts(c) /\ subjectExists)
      /\ n <= MaxReviews
      /\ reviews' = Append(reviews, [by |-> c, version |-> 1, approved |-> 0,
                      edits |-> 0, published |-> FALSE, deleted |-> FALSE])
      /\ Turns(t, IF c.key = NoKey THEN Free ELSE [stage |-> next, call |-> c, id |-> n])
      /\ UNCHANGED <<overlap, subjectExists, saveRecords, answers>>

(* publish_experience of the version this session has read.                *)
PublishVersion(i, v) ==
  reviews' = [reviews EXCEPT ![i] = [@ EXCEPT !.approved = v, !.published = TRUE]]

(* The save publishes the version it has just created.                     *)
PublishSaved(t) ==
  /\ Stage(t, "drafted")
  /\ PublishVersion(thread[t].id, 1)
  /\ Turns(t, [thread[t] EXCEPT !.stage = "made"])
  /\ UNCHANGED <<overlap, subjectExists, saveRecords, answers>>

(* Mutant: the table does not keep a key from being recorded again.        *)
RecordSaveAgain(t) ==
  LET c == thread[t].call
      id == thread[t].id
  IN  /\ Stage(t, "made")
      /\ saveRecords' = saveRecords \cup {[of |-> c, id |-> id]}
      /\ answers' = answers \cup {[saver |-> c.saver, key |-> c.key, id |-> id]}
      /\ Turns(t, Free)
      /\ UNCHANGED <<overlap, subjectExists, reviews>>

(* The record; its insert fails if another request has recorded the key,   *)
(* and the answer is an error although the review is there.                *)
RecordSave(t) ==
  LET c == thread[t].call
      id == thread[t].id
  IN  /\ Stage(t, "made")
      /\ IF SavedAs(c) = {}
           THEN /\ saveRecords' = saveRecords \cup {[of |-> c, id |-> id]}
                /\ answers' = answers \cup {[saver |-> c.saver, key |-> c.key, id |-> id]}
           ELSE UNCHANGED <<saveRecords, answers>>
      /\ Turns(t, Free)
      /\ UNCHANGED <<overlap, subjectExists, reviews>>

(* Mutant: a published review can be edited.                               *)
EditableAnyStatus(i) == ~reviews[i].deleted /\ reviews[i].version < MaxVersion

Editable(i) ==
  /\ ~reviews[i].deleted /\ ~reviews[i].published
  /\ reviews[i].version < MaxVersion

(* edit_draft reads and checks; the client names the current version.      *)
ReadForEdit(t, i) ==
  /\ Serves(t) /\ t # Loop /\ Editable(i)
  /\ Turns(t, [stage |-> "edit", id |-> i, version |-> reviews[i].version])
  /\ UNCHANGED <<overlap, subjectExists, reviews, saveRecords, answers>>

(* It writes the columns it has changed.  The draft it read has no         *)
(* approval to take back, so the consent is not among them.                *)
CommitEdit(t) ==
  LET i == thread[t].id
      row == reviews[i]
  IN  /\ Stage(t, "edit")
      /\ reviews' = [reviews EXCEPT ![i] =
           [row EXCEPT !.version = thread[t].version + 1, !.edits = row.edits + 1]]
      /\ Turns(t, Free)
      /\ UNCHANGED <<overlap, subjectExists, saveRecords, answers>>

(* publish reads and checks; the user has approved the current version.    *)
ReadForPublish(t, i) ==
  /\ Serves(t) /\ t # Loop /\ ~reviews[i].deleted
  /\ Turns(t, [stage |-> "publish", id |-> i, version |-> reviews[i].version])
  /\ UNCHANGED <<overlap, subjectExists, reviews, saveRecords, answers>>

CommitPublish(t) ==
  /\ Stage(t, "publish")
  /\ PublishVersion(thread[t].id, thread[t].version)
  /\ Turns(t, Free)
  /\ UNCHANGED <<overlap, subjectExists, saveRecords, answers>>

(* soft_delete has no guard and may be repeated.                           *)
SoftDelete(t, i) ==
  /\ Serves(t) /\ t # Loop
  /\ reviews' = [reviews EXCEPT ![i].deleted = TRUE]
  /\ UNCHANGED <<overlap, subjectExists, saveRecords, answers, thread>>

(* create_subject of the REST API; a second one is refused.                *)
CreateSubject ==
  /\ ~subjectExists /\ subjectExists' = TRUE
  /\ UNCHANGED <<overlap, reviews, saveRecords, answers, thread>>

(* The process ends: every request in flight is gone.                      *)
Restart ==
  /\ \E t \in Threads : ~Stage(t, "free")
  /\ thread' = [t \in Threads |-> Free]
  /\ UNCHANGED <<overlap, subjectExists, reviews, saveRecords, answers>>

RvNext ==
  \/ \E t \in Threads :
       \/ \E c \in SaveCall : ReplaySave(t, c) \/ LookUp(t, c)
       \/ FindSubject(t) \/ InsertSubject(t) \/ CreateExperience(t)
       \/ PublishSaved(t) \/ RecordSave(t) \/ CommitEdit(t) \/ CommitPublish(t)
       \/ \E i \in DOMAIN reviews :
            ReadForEdit(t, i) \/ ReadForPublish(t, i) \/ SoftDelete(t, i)
  \/ CreateSubject \/ Restart

RvSpec == RvInit /\ [][RvNext]_rvVars

-----------------------------------------------------------------------------
(* Types of the variables.                                                 *)
RvTypeOK ==
  /\ overlap \in BOOLEAN /\ subjectExists \in BOOLEAN
  /\ reviews \in Seq(Review) /\ Len(reviews) <= MaxReviews
  /\ saveRecords \subseteq SaveRecord
  /\ answers \subseteq Answer
  /\ thread \in [Threads -> Making \cup Changing \cup {Free}]

(* The answers a client gets under one key name one review, its own and,   *)
(* if it saved it, published: even when its calls overlap, the process     *)
(* ends between the transactions or the review is stored more than once.   *)
AnswersAgree ==
  \A a \in answers :
    /\ a.id \in DOMAIN reviews /\ reviews[a.id].by.saver = a.saver
    /\ ~Drafts(reviews[a.id].by) => reviews[a.id].published
    /\ \A b \in answers : (a.saver = b.saver /\ a.key = b.key) => a.id = b.id

(* When requests do not overlap, every edit is a version and a published   *)
(* review stays the version that its user approved.                        *)
PublishedAsApproved ==
  ~overlap =>
    \A i \in DOMAIN reviews :
      /\ reviews[i].version = 1 + reviews[i].edits
      /\ reviews[i].published => reviews[i].approved = reviews[i].version

(* "Re-fetching the same commit URL is safe because idempotency prevents   *)
(* duplicate reviews" (app/api/capability.py).                             *)
OneReviewPerKey ==
  \A i, j \in DOMAIN reviews :
    (reviews[i].by = reviews[j].by /\ reviews[i].by.key # NoKey) => i = j
=============================================================================
