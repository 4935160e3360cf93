------------------------ MODULE ClassificationProofs ------------------------
(***************************************************************************)
(* Proofs about Classification, for any set of subjects, clients, types    *)
(* and edges and any bound on the rounds.                                  *)
(***************************************************************************)
EXTENDS Classification, TLAPS

USE DEF Voters, Versions

(* A recorded round is a function from voters to decisions.                *)
LEMMA RoundType ==
  ASSUME TypeOK, NEW s \in Subjects
  PROVE  /\ subject[s] \in Row
         /\ subject[s].version \in Versions
         /\ Round(s) \in [Voters -> Decision]
         /\ decisions[s] \in [Versions -> [Voters -> Decision]]
  BY DEF TypeOK, Round, Row

(* What Entered builds is again such a function.                           *)
LEMMA EnteredType ==
  ASSUME TypeOK, NEW s \in Subjects, NEW c \in Clients, NEW t \in Types,
         NEW l \in Labels, NEW o \in Outcomes
  PROVE  Entered(s, c, t, l, o) \in [Voters -> Decision]
<1>1. Round(s) \in [Voters -> Decision] /\ subject[s] \in Row
  BY RoundType
<1>2. [from |-> subject[s].type, target |-> t, outcome |-> o, label |-> l]
        \in Decision
  BY <1>1 DEF Decision, Row
<1> QED BY <1>1, <1>2 DEF Entered

LEMMA SetRoundType ==
  ASSUME TypeOK, NEW s \in Subjects, NEW r \in [Voters -> Decision],
         SetRound(s, r)
  PROVE  decisions' \in [Subjects -> [Versions -> [Voters -> Decision]]]
BY RoundType DEF SetRound, TypeOK

LEMMA RaiseType ==
  ASSUME TypeOK, NEW t \in Types, Raise(t)
  PROVE  typeStatus' \in [Types -> TypeStatuses]
BY DEF TypeOK, Raise, TypeStatuses

LEMMA StatusType ==
  ASSUME TypeOK, NEW s \in Subjects, NEW st \in Statuses,
         subject' = [subject EXCEPT ![s].status = st]
  PROVE  subject' \in [Subjects -> Row]
BY DEF TypeOK, Row

LEMMA SettleType ==
  ASSUME TypeOK, NEW s \in Subjects, NEW t \in Types, SettleOn(s, t)
  PROVE  /\ subject' \in [Subjects -> Row]
         /\ typeStatus' \in [Types -> TypeStatuses]
<1>1. subject' \in [Subjects -> Row]
  <2>1. subject \in [Subjects -> Row] /\ subject[s] \in Row
    BY DEF TypeOK
  <2>2. DEFINE settled == [subject[s] EXCEPT !.type = t, !.status = "confirmed", !.locked = TRUE]
  <2>3. settled \in Row
    BY <2>1 DEF Row, Statuses
  <2>4. subject' = [subject EXCEPT ![s] = settled]
    BY DEF SettleOn
  <2> HIDE DEF settled
  <2> QED BY <2>1, <2>3, <2>4
<1>2. typeStatus' \in [Types -> TypeStatuses]
  BY DEF TypeOK, SettleOn, TypeStatuses
<1> QED BY <1>1, <1>2

LEMMA PositionsType ==
  ASSUME TypeOK, NEW s \in Subjects, OpenRoundOK(s),
         subject[s].status # "confirmed"
  PROVE  Positions(s) \subseteq Types
<1>1. subject[s].proposal \in Types \cup {NoType}
  BY RoundType DEF Row
<1>2. ASSUME NEW c \in Active(s) PROVE Round(s)[c].target \in Types
  BY DEF Active, OpenRoundOK, HasDecided
<1> QED BY <1>1, <1>2 DEF Positions

-----------------------------------------------------------------------------
(* What a step leaves alone keeps its invariant.                           *)
LEMMA Frame ==
  ASSUME NEW s \in Subjects, SubjectInv(s),
         subject'[s] = subject[s], decisions'[s] = decisions[s],
         offered'[s] = offered[s]
  PROVE  SubjectInv(s)'
<1>1. Round(s)' = Round(s)
  BY DEF Round
<1>2. \A p, t : Holds(s, p, t)' <=> Holds(s, p, t)
  BY <1>1 DEF Holds
<1>3. Positions(s)' = Positions(s)
  BY <1>1 DEF Positions, Active
<1>4. RowOK(s)' /\ FutureEmpty(s)'
  BY DEF SubjectInv, RowOK, FutureEmpty
<1>5. OpenRoundOK(s)'
  BY <1>1 DEF SubjectInv, OpenRoundOK, HasDecided
<1>6. Audited(s)' /\ SettledNarrows(s)'
  BY <1>1 DEF SubjectInv, Audited, SettledNarrows
<1>7. Genuine(s)' /\ Independent(s)'
  BY <1>1, <1>2 DEF SubjectInv, Genuine, Independent
<1>8. OfferOpen(s)'
  BY <1>1, <1>3 DEF SubjectInv, OfferOpen
<1> QED BY <1>4, <1>5, <1>6, <1>7, <1>8 DEF SubjectInv

(* A step that touches the rows of one subject.                            *)
LEMMA OneSubject ==
  ASSUME IInv, NEW s \in Subjects, SubjectInv(s)',
         \A r \in Subjects \ {s} : /\ subject'[r] = subject[r]
                                   /\ decisions'[r] = decisions[r]
                                   /\ offered'[r] = offered[r]
  PROVE  \A r \in Subjects : SubjectInv(r)'
<1> TAKE r \in Subjects
<1>1. CASE r = s
  BY <1>1
<1>2. CASE r # s
  <2>1. SubjectInv(r)
    BY DEF IInv
  <2> QED BY <1>2, <2>1, Frame
<1> QED BY <1>1, <1>2

(* No two rows meet on a type if the rows keep theirs.                     *)
LEMMA TypesKept ==
  ASSUME UniqueIdentity,
         \A r \in Subjects : subject'[r].live => 
           subject[r].live /\ subject'[r].type = subject[r].type
  PROVE  UniqueIdentity'
BY DEF UniqueIdentity

(* Nor if one row moves to a type that is free.                            *)
LEMMA TypeFree ==
  ASSUME UniqueIdentity, NEW s \in Subjects, ~Taken(s, subject'[s].type),
         \A r \in Subjects \ {s} : subject'[r] = subject[r]
  PROVE  UniqueIdentity'
BY DEF UniqueIdentity, Taken

(* A settled row exists, so it has a type.                                 *)
LEMMA SettledRowTyped ==
  ASSUME IInv, NEW s \in Subjects, subject[s].status = "confirmed"
  PROVE  subject[s].live /\ subject[s].type \in Types
<1>1. RowOK(s)
  BY DEF IInv, SubjectInv
<1> QED BY <1>1 DEF RowOK, NoRow

(* An accepted type stays accepted, and only settled rows need one.        *)
LEMMA AcceptedKept ==
  ASSUME IInv, NEW t \in Types, Raise(t) \/ UNCHANGED typeStatus,
         \A r \in Subjects : subject'[r].status = "confirmed" =>
           /\ subject[r].status = "confirmed"
           /\ subject'[r].type = subject[r].type
  PROVE  SettledTypeAccepted'
<1>1. \A u \in Types : typeStatus[u] = "confirmed" => typeStatus'[u] = "confirmed"
  BY DEF IInv, TypeOK, Raise
<1> QED BY <1>1, SettledRowTyped DEF SettledTypeAccepted, IInv

LEMMA AcceptedOnSettling ==
  ASSUME IInv, NEW s \in Subjects, NEW t \in Types, SettleOn(s, t)
  PROVE  SettledTypeAccepted'
<1>1. \A r \in Subjects \ {s} : subject'[r] = subject[r]
  BY DEF SettleOn, IInv, TypeOK
<1>2. subject'[s].type = t /\ typeStatus'[t] = "confirmed"
  BY DEF SettleOn, IInv, TypeOK, Row
<1>3. \A u \in Types : typeStatus[u] = "confirmed" => typeStatus'[u] = "confirmed"
  BY DEF SettleOn, IInv, TypeOK
<1> QED BY <1>1, <1>2, <1>3, SettledRowTyped DEF SettledTypeAccepted, IInv

-----------------------------------------------------------------------------
(* What holds of the round and the row of s once a pending decision has    *)
(* been entered into an unsettled round.                                   *)
LEMMA DecisionEntered ==
  ASSUME IInv, NEW s \in Subjects, NEW c \in Clients, NEW t \in Types,
         NEW l \in Labels, NEW st \in {"candidate", "disputed"},
         Admissible(s, c, t), subject[s].status # "confirmed",
         SetRound(s, Entered(s, c, t, l, "candidate")),
         subject' = [subject EXCEPT ![s].status = st]
  PROVE  /\ subject' \in [Subjects -> Row]
         /\ decisions' \in [Subjects -> [Versions -> [Voters -> Decision]]]
         /\ \A r \in Subjects \ {s} : /\ subject'[r] = subject[r]
                                      /\ decisions'[r] = decisions[r]
         /\ subject'[s].live /\ subject'[s].status = st
         /\ RowOK(s)' /\ FutureEmpty(s)' /\ OpenRoundOK(s)'
         /\ Audited(s)' /\ SettledNarrows(s)' /\ Independent(s)'
         /\ Positions(s)' = Positions(s) \cup {t}
         /\ Holds(s, c, t)'
         /\ \A p, u : Holds(s, p, u) => Holds(s, p, u)'
         /\ UniqueIdentity'
<1> USE DEF Statuses, Outcomes
<1> DEFINE row == subject[s]
           round == Entered(s, c, t, l, "candidate")
<1>1. TypeOK /\ SubjectInv(s) /\ row \in Row /\ row.live
  BY RoundType DEF IInv, Admissible
<1>2. round \in [Voters -> Decision]
  BY <1>1, EnteredType
<1>3. /\ subject' \in [Subjects -> Row]
      /\ subject'[s] = [row EXCEPT !.status = st]
      /\ \A r \in Subjects \ {s} : subject'[r] = subject[r]
  BY <1>1, StatusType DEF TypeOK
<1>4. /\ decisions' \in [Subjects -> [Versions -> [Voters -> Decision]]]
      /\ \A r \in Subjects \ {s} : decisions'[r] = decisions[r]
      /\ \A v \in Versions \ {row.version} : decisions'[s][v] = decisions[s][v]
      /\ decisions'[s][row.version] = round
  BY <1>1, <1>2, SetRoundType DEF SetRound, TypeOK, Row
<1>5. Round(s)' = round
  BY <1>1, <1>3, <1>4 DEF Round, Row
<1>6. /\ subject'[s].live /\ subject'[s].status = st
      /\ subject'[s].type = row.type /\ subject'[s].version = row.version
      /\ subject'[s].proposal = row.proposal
      /\ subject'[s].proposer = row.proposer
      /\ subject'[s].locked = row.locked
  BY <1>1, <1>3 DEF Row
<1>7. \A d \in Voters : d # c => round[d] = Round(s)[d]
  BY <1>1, RoundType DEF Entered
<1>8. /\ round[c].outcome = "candidate" /\ round[c].target = t
      /\ round[c].from = row.type /\ Narrows(t, row.type)
  <2>1. CASE HasDecided(s, c)
    BY <1>1, <2>1 DEF Entered, Admissible, SubjectInv, OpenRoundOK
  <2>2. CASE ~HasDecided(s, c)
    <3>1. round = [Round(s) EXCEPT ![c] = [from |-> row.type, target |-> t,
                                outcome |-> "candidate", label |-> l]]
      BY <2>2 DEF Entered
    <3>2. round[c] = [from |-> row.type, target |-> t,
                      outcome |-> "candidate", label |-> l]
      BY <1>1, <3>1, RoundType
    <3> QED BY <2>2, <3>2 DEF Admissible
  <2> QED BY <2>1, <2>2
<1>9. RowOK(s)'
  BY <1>1, <1>6 DEF SubjectInv, RowOK
<1>10. FutureEmpty(s)'
  BY <1>1, <1>4, <1>6 DEF SubjectInv, FutureEmpty, Row
<1>11. c # Resolver
  BY ClientsAssumption
<1>12. OpenRoundOK(s)'
  BY <1>1, <1>5, <1>6, <1>7, <1>8, <1>11 DEF SubjectInv, OpenRoundOK, HasDecided
<1>13. Audited(s)' /\ SettledNarrows(s)' /\ Independent(s)'
  BY <1>1, <1>6 DEF SubjectInv, Audited, SettledNarrows, Independent
<1>14. Positions(s)' = Positions(s) \cup {t}
  <2>1. Active(s)' = Active(s) \cup {c}
    BY <1>1, <1>5, <1>7, <1>8, <1>11 DEF Active
  <2>2. \A d \in Active(s) : d # c => Round(s)'[d].target = Round(s)[d].target
    BY <1>5, <1>7 DEF Active
  <2>3. c \in Active(s) => Round(s)[c].target = t
    BY DEF Active, Admissible, HasDecided
  <2> QED BY <1>5, <1>6, <1>8, <2>1, <2>2, <2>3 DEF Positions
<1>15. Holds(s, c, t)'
  BY <1>5, <1>8 DEF Holds
<1>16. \A p, u : Holds(s, p, u) => Holds(s, p, u)'
  <2> SUFFICES ASSUME NEW p, NEW u, Holds(s, p, u) PROVE Holds(s, p, u)'
    OBVIOUS
  <2>1. CASE p # c
    BY <1>5, <1>6, <1>7, <2>1 DEF Holds
  <2>2. CASE p = c /\ HasDecided(s, c)
    BY <1>5, <1>6, <1>8, <2>2 DEF Holds, Admissible
  <2>3. CASE p = c /\ ~HasDecided(s, c)
    BY <1>6, <2>3 DEF Holds, HasDecided
  <2> QED BY <2>1, <2>2, <2>3
<1>17. UniqueIdentity'
  BY <1>1, <1>3, <1>6, TypesKept DEF IInv
<1> QED BY <1>3, <1>4, <1>6, <1>9, <1>10, <1>12, <1>13, <1>14, <1>15, <1>16, <1>17

-----------------------------------------------------------------------------
(* A decision that leaves the resolver alone, in a round that is or        *)
(* becomes disputed only with a genuine dispute.                           *)
LEMMA DecisionQuiet ==
  ASSUME IInv, NEW s \in Subjects, NEW c \in Clients, NEW t \in Types,
         NEW l \in Labels, NEW st \in {"candidate", "disputed"},
         Admissible(s, c, t), subject[s].status # "confirmed",
         SetRound(s, Entered(s, c, t, l, "candidate")),
         subject' = [subject EXCEPT ![s].status = st],
         Raise(t), UNCHANGED offered,
         subject[s].status = "disputed" => st = "disputed",
         Genuine(s)'
  PROVE  IInv'
<1>1. /\ TypeOK /\ SubjectInv(s)
      /\ subject' \in [Subjects -> Row]
      /\ decisions' \in [Subjects -> [Versions -> [Voters -> Decision]]]
      /\ \A r \in Subjects \ {s} : /\ subject'[r] = subject[r]
                                   /\ decisions'[r] = decisions[r]
      /\ subject'[s].live /\ subject'[s].status = st
      /\ RowOK(s)' /\ FutureEmpty(s)' /\ OpenRoundOK(s)'
      /\ Audited(s)' /\ SettledNarrows(s)' /\ Independent(s)'
      /\ Positions(s)' = Positions(s) \cup {t}
      /\ UniqueIdentity'
  BY DecisionEntered DEF IInv
<1>2. TypeOK'
  BY <1>1, RaiseType DEF TypeOK
<1>3. OfferOpen(s)'
  BY <1>1 DEF SubjectInv, OfferOpen
<1>4. SubjectInv(s)'
  BY <1>1, <1>3 DEF SubjectInv
<1>5. \A r \in Subjects : SubjectInv(r)'
  BY <1>1, <1>4, OneSubject
<1>6. SettledTypeAccepted'
  BY <1>1, AcceptedKept
<1> QED BY <1>1, <1>2, <1>5, <1>6 DEF IInv

LEMMA JoinDisputeInv ==
  ASSUME IInv, NEW s \in Subjects, NEW c \in Clients, NEW t \in Types,
         NEW l \in Labels, JoinDispute(s, c, t, l)
  PROVE  IInv'
<1>1. subject[s].status = "disputed" /\ subject[s] \in Row
  BY RoundType DEF JoinDispute, IInv
<1>2. subject' = [subject EXCEPT ![s].status = "disputed"]
  BY <1>1 DEF JoinDispute, IInv, TypeOK, Row
<1>3. \A p, u : Holds(s, p, u) => Holds(s, p, u)'
  BY <1>1, <1>2, DecisionEntered DEF JoinDispute
<1>4. Genuine(s)
  BY DEF IInv, SubjectInv
<1>5. Genuine(s)'
  BY <1>1, <1>3, <1>4 DEF Genuine
<1> QED BY <1>1, <1>2, <1>5, DecisionQuiet DEF JoinDispute

LEMMA DecideOwnProposalInv ==
  ASSUME IInv, NEW s \in Subjects, NEW c \in Clients, NEW t \in Types,
         NEW l \in Labels, DecideOwnProposal(s, c, t, l)
  PROVE  IInv'
<1>1. /\ subject[s].status \notin {"confirmed", "disputed"}
      /\ subject' = [subject EXCEPT ![s].status = "candidate"]
      /\ Admissible(s, c, t)
      /\ SetRound(s, Entered(s, c, t, l, "candidate"))
  BY DEF DecideOwnProposal, Proposed
<1>2. subject'[s].status = "candidate"
  BY <1>1, DecisionEntered
<1>3. Genuine(s)'
  BY <1>2 DEF Genuine
<1> QED BY <1>1, <1>3, DecisionQuiet DEF DecideOwnProposal

LEMMA FirstPositionInv ==
  ASSUME IInv, NEW s \in Subjects, NEW c \in Clients, NEW t \in Types,
         NEW l \in Labels, FirstPosition(s, c, t, l)
  PROVE  IInv'
<1>1. /\ subject[s].status # "confirmed"
      /\ subject[s].proposal = NoType /\ Active(s) = {}
      /\ subject' = [subject EXCEPT ![s].status = "candidate"]
      /\ Admissible(s, c, t)
      /\ SetRound(s, Entered(s, c, t, l, "candidate"))
  BY DEF FirstPosition, Unproposed
<1>2. subject'[s].status = "candidate"
  BY <1>1, DecisionEntered
<1>3. Genuine(s)'
  BY <1>2 DEF Genuine
<1>4. subject[s].status # "disputed"
  <2>1. SUFFICES ASSUME subject[s].status = "disputed" PROVE FALSE
    OBVIOUS
  <2>2. SubjectInv(s)
    BY DEF IInv
  <2>3. PICK p \in Parties, t1 \in Types : Holds(s, p, t1)
    BY <2>1, <2>2 DEF SubjectInv, Genuine
  <2>4. p \in Clients /\ HasDecided(s, p)
    BY <1>1, <2>3, TypesAssumption DEF Holds, HasDecided
  <2>5. p \in Active(s)
    BY <1>1, <2>2, <2>4 DEF SubjectInv, OpenRoundOK, Active
  <2> QED BY <1>1, <2>5
<1> QED BY <1>1, <1>3, <1>4, DecisionQuiet DEF FirstPosition

(* A decision that makes the round disputed, with the resolver's hook.     *)
LEMMA DecisionDisputes ==
  ASSUME IInv, NEW s \in Subjects, NEW c \in Clients, NEW t \in Types,
         NEW l \in Labels,
         Admissible(s, c, t), subject[s].status # "confirmed",
         SetRound(s, Entered(s, c, t, l, "candidate")),
         subject' = [subject EXCEPT ![s].status = "disputed"],
         Raise(t),
         \/ UNCHANGED offered
         \/ CallResolver(s, l, Positions(s) \cup {t}),
         NEW p \in Parties, NEW u \in Types,
         p # c, u # t, Holds(s, p, u)
  PROVE  IInv'
<1>1. /\ TypeOK /\ SubjectInv(s)
      /\ subject' \in [Subjects -> Row]
      /\ decisions' \in [Subjects -> [Versions -> [Voters -> Decision]]]
      /\ \A r \in Subjects \ {s} : /\ subject'[r] = subject[r]
                                   /\ decisions'[r] = decisions[r]
      /\ subject'[s].live /\ subject'[s].status = "disputed"
      /\ RowOK(s)' /\ FutureEmpty(s)' /\ OpenRoundOK(s)'
      /\ Audited(s)' /\ SettledNarrows(s)' /\ Independent(s)'
      /\ Positions(s)' = Positions(s) \cup {t}
      /\ Holds(s, c, t)' /\ Holds(s, p, u)'
      /\ UniqueIdentity'
  BY DecisionEntered DEF IInv
<1>2. Positions(s) \subseteq Types
  BY <1>1, PositionsType DEF SubjectInv
<1>3. /\ offered' \in [Subjects -> SUBSET Types]
      /\ \A r \in Subjects \ {s} : offered'[r] = offered[r]
      /\ offered'[s] \in {offered[s], Positions(s) \cup {t}}
  BY <1>1, <1>2 DEF CallResolver, TypeOK
<1>4. TypeOK'
  BY <1>1, <1>3, RaiseType DEF TypeOK
<1>5. OfferOpen(s)'
  BY <1>1, <1>3 DEF SubjectInv, OfferOpen
<1>6. Genuine(s)'
  BY <1>1, c \in Parties DEF Genuine, Parties
<1>7. SubjectInv(s)'
  BY <1>1, <1>5, <1>6 DEF SubjectInv
<1>8. \A r \in Subjects : SubjectInv(r)'
  BY <1>1, <1>3, <1>7, OneSubject
<1>9. SettledTypeAccepted'
  BY <1>1, AcceptedKept
<1> QED BY <1>1, <1>4, <1>8, <1>9 DEF IInv

LEMMA DisputeProposalInv ==
  ASSUME IInv, NEW s \in Subjects, NEW c \in Clients, NEW t \in Types,
         NEW l \in Labels, DisputeProposal(s, c, t, l)
  PROVE  IInv'
<1> DEFINE p == subject[s].proposer
           u == subject[s].proposal
<1>1. p \in Parties /\ u \in Types
  BY RoundType DEF IInv, DisputeProposal, Proposed, Row, Parties
<1>2. p # c /\ u # t /\ Holds(s, p, u)
  BY DEF DisputeProposal, Holds
<1>3. /\ Admissible(s, c, t) /\ subject[s].status # "confirmed"
      /\ SetRound(s, Entered(s, c, t, l, "candidate"))
      /\ subject' = [subject EXCEPT ![s].status = "disputed"]
      /\ Raise(t) /\ CallResolver(s, l, Positions(s) \cup {t})
  BY DEF DisputeProposal, Proposed
<1> HIDE DEF p, u
<1> QED BY <1>1, <1>2, <1>3, DecisionDisputes

(* A pending decision in an unsettled round is a client's, and on record.  *)
LEMMA ActiveHolds ==
  ASSUME IInv, NEW s \in Subjects, NEW d \in Active(s),
         subject[s].status # "confirmed"
  PROVE  /\ d \in Clients /\ HasDecided(s, d)
         /\ Round(s)[d].target \in Types
         /\ Holds(s, d, Round(s)[d].target)
<1>1. OpenRoundOK(s)
  BY DEF IInv, SubjectInv
<1> QED BY <1>1 DEF Active, OpenRoundOK, HasDecided, Holds

LEMMA SplitUnproposedInv ==
  ASSUME IInv, NEW s \in Subjects, NEW c \in Clients, NEW t \in Types,
         NEW l \in Labels, SplitUnproposed(s, c, t, l)
  PROVE  IInv'
<1>1. subject[s].status # "confirmed" /\ ~HasDecided(s, c)
      /\ subject[s].proposal = NoType /\ Positions(s) \ {t} # {}
  BY DEF SplitUnproposed, Unproposed
<1>2. PICK p \in Active(s) : Round(s)[p].target # t
  BY <1>1 DEF Positions
<1>3. p \in Parties /\ p # c /\ Round(s)[p].target \in Types
      /\ Holds(s, p, Round(s)[p].target)
  BY <1>1, <1>2, ActiveHolds DEF Parties
<1>4. /\ Admissible(s, c, t) /\ subject[s].status # "confirmed"
      /\ SetRound(s, Entered(s, c, t, l, "candidate"))
      /\ subject' = [subject EXCEPT ![s].status = "disputed"]
      /\ Raise(t)
      /\ UNCHANGED offered \/ CallResolver(s, l, Positions(s) \cup {t})
  BY <1>1 DEF SplitUnproposed
<1> DEFINE u == Round(s)[p].target
<1>5. p \in Parties /\ p # c /\ u \in Types /\ u # t /\ Holds(s, p, u)
  BY <1>2, <1>3
<1> HIDE DEF u
<1> QED BY <1>4, <1>5, DecisionDisputes

-----------------------------------------------------------------------------
(* In an unsettled round the types on record are the positions.            *)
LEMMA HeldIsPosition ==
  ASSUME IInv, NEW s \in Subjects, NEW p, NEW u \in Types,
         subject[s].status # "confirmed", Holds(s, p, u)
  PROVE  u \in Positions(s)
<1>1. OpenRoundOK(s)
  BY DEF IInv, SubjectInv
<1>2. CASE p = subject[s].proposer /\ u = subject[s].proposal
  BY <1>2, TypesAssumption DEF Positions
<1>3. CASE /\ p \in Clients
           /\ Round(s)[p].outcome \notin {"none", "ignored_locked"}
           /\ Round(s)[p].target = u
  <2>1. p \in Active(s)
    BY <1>1, <1>3 DEF OpenRoundOK, HasDecided, Active
  <2> QED BY <1>3, <2>1 DEF Positions
<1> QED BY <1>2, <1>3 DEF Holds

LEMMA DisputeHasTwoPositions ==
  ASSUME IInv, NEW s \in Subjects, subject[s].status = "disputed"
  PROVE  \E t, u \in Positions(s) : t # u
<1>1. Genuine(s)
  BY DEF IInv, SubjectInv
<1>2. PICK p, q \in Parties, t, u \in Types :
        p # q /\ t # u /\ Holds(s, p, t) /\ Holds(s, q, u)
  BY <1>1 DEF Genuine
<1> QED BY <1>2, HeldIsPosition

(* A position is the current type or narrower.                             *)
LEMMA PositionNarrows ==
  ASSUME IInv, NEW s \in Subjects, subject[s].live,
         subject[s].status # "confirmed", NEW t \in Positions(s)
  PROVE  t \in Types /\ Narrows(t, subject[s].type)
<1>1. OpenRoundOK(s) /\ RowOK(s)
  BY DEF IInv, SubjectInv
<1> QED BY <1>1 DEF Positions, Active, OpenRoundOK, RowOK, HasDecided, Narrows

(* Any settling decision tells where a settled round started.              *)
LEMMA StartedIs ==
  ASSUME NEW s \in Subjects, subject[s].status = "confirmed", Audited(s),
         NEW c \in Voters, Round(s)[c].outcome \in Settling
  PROVE  Started(s) = Round(s)[c].from
<1> DEFINE d == CHOOSE d \in Voters : Round(s)[d].outcome \in Settling
<1>1. d \in Voters /\ Round(s)[d].outcome \in Settling
  OBVIOUS
<1>2. Started(s) = Round(s)[d].from
  BY DEF Started
<1> HIDE DEF d
<1> QED BY <1>1, <1>2 DEF Audited

(* A step that settles the open round of s on t.                           *)
SettlesRound(s, t) ==
  /\ subject[s].live /\ subject[s].status # "confirmed"
  /\ Narrows(t, subject[s].type)
  /\ subject'[s].live /\ subject'[s].status = "confirmed"
  /\ subject'[s].type = t /\ subject'[s].version = subject[s].version
  /\ Started(s)' = subject[s].type
  /\ \A r \in Subjects \ {s} : /\ subject'[r] = subject[r]
                               /\ decisions'[r] = decisions[r]

(* A round that is settled on t.                                           *)
LEMMA RoundSettled ==
  ASSUME IInv, NEW s \in Subjects, NEW t \in Types,
         NEW round \in [Voters -> Decision],
         subject[s].live, subject[s].status # "confirmed",
         ~Taken(s, t), Narrows(t, subject[s].type),
         SetRound(s, round), SettleOn(s, t),
         offered' \in [Subjects -> SUBSET Types], offered'[s] = {},
         \A r \in Subjects \ {s} : offered'[r] = offered[r],
         \E c \in Voters : round[c].outcome \in Settling,
         \A c \in Voters : round[c].outcome \in Settling =>
           round[c].target = t /\ round[c].from = subject[s].type,
         Independent(s)'
  PROVE  IInv' /\ SettlesRound(s, t)
<1> USE DEF Statuses
<1> DEFINE row == subject[s]
<1>1. TypeOK /\ SubjectInv(s) /\ row \in Row /\ UniqueIdentity
  BY RoundType DEF IInv
<1>2. row.type \in Types
  BY <1>1 DEF SubjectInv, RowOK
<1>3. /\ subject' \in [Subjects -> Row]
      /\ typeStatus' \in [Types -> TypeStatuses]
      /\ subject'[s] = [row EXCEPT !.type = t, !.status = "confirmed",
                                   !.locked = TRUE]
      /\ \A r \in Subjects \ {s} : subject'[r] = subject[r]
  BY <1>1, SettleType DEF SettleOn, TypeOK
<1>4. /\ decisions' \in [Subjects -> [Versions -> [Voters -> Decision]]]
      /\ \A r \in Subjects \ {s} : decisions'[r] = decisions[r]
      /\ \A v \in Versions \ {row.version} : decisions'[s][v] = decisions[s][v]
      /\ decisions'[s][row.version] = round
  BY <1>1, SetRoundType DEF SetRound, TypeOK, Row
<1>5. /\ subject'[s].live /\ subject'[s].status = "confirmed"
      /\ subject'[s].type = t /\ subject'[s].version = row.version
      /\ subject'[s].locked = TRUE
  BY <1>1, <1>3 DEF Row
<1>6. Round(s)' = round
  BY <1>4, <1>5 DEF Round
<1>7. RowOK(s)' /\ OpenRoundOK(s)' /\ Genuine(s)' /\ OfferOpen(s)'
  BY <1>5 DEF RowOK, OpenRoundOK, Genuine, OfferOpen
<1>8. FutureEmpty(s)'
  BY <1>1, <1>4, <1>5 DEF SubjectInv, FutureEmpty, Row
<1>9. Audited(s)' /\ SettledNarrows(s)'
  BY <1>2, <1>5, <1>6 DEF Audited, SettledNarrows
<1>10. SubjectInv(s)'
  BY <1>7, <1>8, <1>9 DEF SubjectInv
<1>11. \A r \in Subjects : SubjectInv(r)'
  BY <1>3, <1>4, <1>10, OneSubject
<1>12. UniqueIdentity'
  BY <1>1, <1>3, <1>5, TypeFree
<1>13. SettledTypeAccepted'
  BY AcceptedOnSettling
<1>14. TypeOK'
  BY <1>3, <1>4 DEF TypeOK
<1>15. Started(s)' = subject[s].type
  <2> DEFINE d == CHOOSE d \in Voters : round[d].outcome \in Settling
  <2>1. d \in Voters /\ round[d].outcome \in Settling
    OBVIOUS
  <2>2. Started(s)' = round[d].from
    BY <1>5, <1>6 DEF Started
  <2> HIDE DEF d
  <2> QED BY <2>1, <2>2
<1>16. SettlesRound(s, t)
  BY <1>3, <1>4, <1>5, <1>15 DEF SettlesRound
<1> QED BY <1>11, <1>12, <1>13, <1>14, <1>16 DEF IInv

(* The pieces of the settled row the three settling actions argue from.    *)
LEMMA SettledRow ==
  ASSUME TypeOK, NEW s \in Subjects, NEW t \in Types,
         NEW round \in [Voters -> Decision],
         SetRound(s, round), SettleOn(s, t)
  PROVE  /\ subject'[s].type = t /\ Round(s)' = round
         /\ subject'[s].proposal = subject[s].proposal
         /\ subject'[s].proposer = subject[s].proposer
<1>1. subject[s] \in Row
  BY RoundType
<1>2. subject'[s] = [subject[s] EXCEPT !.type = t, !.status = "confirmed",
                                      !.locked = TRUE]
  BY DEF SettleOn, TypeOK
<1>3. /\ subject'[s].type = t
      /\ subject'[s].version = subject[s].version
      /\ subject'[s].proposal = subject[s].proposal
      /\ subject'[s].proposer = subject[s].proposer
  BY <1>1, <1>2 DEF Row
<1>4. decisions'[s][subject[s].version] = round
  BY <1>1 DEF SetRound, TypeOK, Row
<1> QED BY <1>3, <1>4 DEF Round

(* Entering a pending decision into an unsettled round.                    *)
LEMMA EnteredRound ==
  ASSUME IInv, NEW s \in Subjects, NEW c \in Clients, NEW t \in Types,
         NEW l \in Labels, Admissible(s, c, t),
         subject[s].status # "confirmed"
  PROVE  /\ Entered(s, c, t, l, "candidate") \in [Voters -> Decision]
         /\ \A d \in Voters :
              d # c => Entered(s, c, t, l, "candidate")[d] = Round(s)[d]
         /\ Entered(s, c, t, l, "candidate")[c].outcome = "candidate"
         /\ Entered(s, c, t, l, "candidate")[c].target = t
         /\ Entered(s, c, t, l, "candidate")[c].from = subject[s].type
         /\ Narrows(t, subject[s].type)
<1> DEFINE new == [from |-> subject[s].type, target |-> t,
                   outcome |-> "candidate", label |-> l]
<1>1. Round(s) \in [Voters -> Decision] /\ OpenRoundOK(s)
  BY RoundType DEF IInv, SubjectInv
<1>2. Entered(s, c, t, l, "candidate") \in [Voters -> Decision]
  BY EnteredType DEF IInv, Outcomes
<1>3. CASE HasDecided(s, c)
  BY <1>1, <1>2, <1>3 DEF Entered, Admissible, OpenRoundOK
<1>4. CASE ~HasDecided(s, c)
  <2>1. Entered(s, c, t, l, "candidate") = [Round(s) EXCEPT ![c] = new]
    BY <1>4 DEF Entered
  <2>2. /\ [Round(s) EXCEPT ![c] = new][c] = new
        /\ \A d \in Voters : d # c => [Round(s) EXCEPT ![c] = new][d] = Round(s)[d]
    BY <1>1
  <2> QED BY <1>2, <1>4, <2>1, <2>2 DEF Admissible
<1> QED BY <1>3, <1>4

LEMMA ConfirmProposalInv ==
  ASSUME IInv, NEW s \in Subjects, NEW c \in Clients, NEW t \in Types,
         NEW l \in Labels, ConfirmProposal(s, c, t, l)
  PROVE  IInv' /\ SettlesRound(s, t)
<1> USE DEF Outcomes, Settling
<1> DEFINE entered == Entered(s, c, t, l, "candidate")
           round == [entered EXCEPT ![c].outcome = "confirmed"]
<1>1. /\ Admissible(s, c, t) /\ subject[s].live
      /\ subject[s].status \notin {"confirmed", "disputed"}
      /\ c # subject[s].proposer /\ t = subject[s].proposal
      /\ ~Taken(s, t) /\ SetRound(s, round) /\ SettleOn(s, t)
      /\ offered' = offered
  BY DEF ConfirmProposal, Proposed, Admissible
<1>2. /\ TypeOK /\ OpenRoundOK(s) /\ OfferOpen(s) /\ subject[s] \in Row
  BY RoundType DEF IInv, SubjectInv
<1>3. /\ entered \in [Voters -> Decision]
      /\ \A d \in Voters : d # c => entered[d] = Round(s)[d]
      /\ entered[c].target = t /\ entered[c].from = subject[s].type
      /\ Narrows(t, subject[s].type)
  <2>1. Admissible(s, c, t) /\ subject[s].status # "confirmed"
    BY <1>1
  <2>2. Entered(s, c, t, l, "candidate") \in [Voters -> Decision]
    BY <2>1, EnteredRound
  <2>3. \A d \in Voters :
          d # c => Entered(s, c, t, l, "candidate")[d] = Round(s)[d]
    BY <2>1, EnteredRound
  <2>4. Narrows(t, subject[s].type)
    BY <2>1, EnteredRound
  <2>5. /\ Entered(s, c, t, l, "candidate")[c].outcome = "candidate"
        /\ Entered(s, c, t, l, "candidate")[c].target = t
    BY <2>1, EnteredRound
  <2>6. Entered(s, c, t, l, "candidate")[c].from = subject[s].type
    BY <2>1, EnteredRound
  <2> QED BY <2>2, <2>3, <2>4, <2>5, <2>6
<1>4. /\ round \in [Voters -> Decision]
      /\ \A d \in Voters : d # c => round[d] = Round(s)[d]
      /\ round[c].outcome = "confirmed"
      /\ round[c].target = t /\ round[c].from = subject[s].type
  BY <1>3 DEF Decision
<1>5. \A d \in Voters : round[d].outcome \in Settling => d = c
  BY <1>2, <1>1, <1>4 DEF OpenRoundOK, HasDecided
<1>6. Independent(s)'
  <2>1. /\ subject'[s].type = t /\ Round(s)' = round
        /\ subject'[s].proposal = t
        /\ subject'[s].proposer = subject[s].proposer
    BY <1>1, <1>2, <1>4, SettledRow
  <2>2. Holds(s, c, t)' /\ Holds(s, subject[s].proposer, t)'
    BY <1>4, <2>1 DEF Holds
  <2>3. c \in Parties /\ subject[s].proposer \in Parties
    BY <1>2 DEF Row, Parties
  <2> QED BY <1>1, <2>1, <2>2, <2>3 DEF Independent
<1>7. offered'[s] = {} /\ offered' \in [Subjects -> SUBSET Types]
  BY <1>1, <1>2 DEF OfferOpen, TypeOK
<1> HIDE DEF round
<1> QED BY <1>1, <1>3, <1>4, <1>5, <1>6, <1>7, RoundSettled

LEMMA AgreeUnproposedInv ==
  ASSUME IInv, NEW s \in Subjects, NEW c \in Clients, NEW t \in Types,
         NEW l \in Labels, AgreeUnproposed(s, c, t, l)
  PROVE  IInv' /\ SettlesRound(s, t)
<1> USE DEF Outcomes, Settling
<1> DEFINE entered == Entered(s, c, t, l, "candidate")
           round == [d \in Voters |->
                       IF entered[d].outcome = "candidate"
                         THEN [entered[d] EXCEPT !.outcome = "confirmed"]
                         ELSE entered[d]]
<1>1. /\ Admissible(s, c, t) /\ subject[s].live
      /\ subject[s].status # "confirmed" /\ subject[s].proposal = NoType
      /\ ~HasDecided(s, c)
      /\ Active(s) # {} /\ Positions(s) = {t}
      /\ ~Taken(s, t) /\ SetRound(s, round) /\ SettleOn(s, t)
      /\ offered' = offered
  BY DEF AgreeUnproposed, Unproposed, Admissible
<1>2. /\ TypeOK /\ OpenRoundOK(s) /\ OfferOpen(s) /\ subject[s] \in Row
  BY RoundType DEF IInv, SubjectInv
<1>3. /\ entered \in [Voters -> Decision]
      /\ \A d \in Voters : d # c => entered[d] = Round(s)[d]
      /\ entered[c].target = t /\ entered[c].from = subject[s].type
      /\ entered[c].outcome = "candidate"
      /\ Narrows(t, subject[s].type)
  <2>1. Admissible(s, c, t) /\ subject[s].status # "confirmed"
    BY <1>1
  <2>2. Entered(s, c, t, l, "candidate") \in [Voters -> Decision]
    BY <2>1, EnteredRound
  <2>3. \A d \in Voters :
          d # c => Entered(s, c, t, l, "candidate")[d] = Round(s)[d]
    BY <2>1, EnteredRound
  <2>4. Narrows(t, subject[s].type)
    BY <2>1, EnteredRound
  <2>5. /\ Entered(s, c, t, l, "candidate")[c].outcome = "candidate"
        /\ Entered(s, c, t, l, "candidate")[c].target = t
    BY <2>1, EnteredRound
  <2>6. Entered(s, c, t, l, "candidate")[c].from = subject[s].type
    BY <2>1, EnteredRound
  <2> QED BY <2>2, <2>3, <2>4, <2>5, <2>6
<1>4. /\ round \in [Voters -> Decision]
      /\ \A d \in Voters : /\ round[d].target = entered[d].target
                            /\ round[d].from = entered[d].from
                            /\ round[d].outcome =
                                 IF entered[d].outcome = "candidate"
                                 THEN "confirmed" ELSE entered[d].outcome
  BY <1>3 DEF Decision
<1>5. \A d \in Active(s) : Round(s)[d].target = t
  BY <1>1 DEF Positions
<1>6. \A d \in Voters : round[d].outcome \in Settling =>
        round[d].target = t /\ round[d].from = subject[s].type
  BY <1>1, <1>2, <1>3, <1>4, <1>5 DEF OpenRoundOK, HasDecided, Active
<1>7. Independent(s)'
  <2>1. subject'[s].type = t /\ Round(s)' = round
    BY <1>1, <1>2, <1>4, SettledRow
  <2>2. PICK d \in Active(s) : TRUE
    BY <1>1
  <2>3. d # c /\ d \in Clients /\ Round(s)[d].outcome = "candidate"
    BY <1>1, <2>2, ActiveHolds DEF Active
  <2>4. Holds(s, c, t)' /\ Holds(s, d, t)'
    BY <1>3, <1>4, <1>5, <2>1, <2>3 DEF Holds
  <2> QED BY <2>1, <2>3, <2>4 DEF Independent, Parties
<1>8. subject[s].status # "disputed"
  BY <1>1, DisputeHasTwoPositions
<1>9. offered'[s] = {} /\ offered' \in [Subjects -> SUBSET Types]
  BY <1>1, <1>2, <1>8 DEF OfferOpen, TypeOK
<1>10. \E d \in Voters : round[d].outcome \in Settling
  BY <1>3, <1>4
<1> HIDE DEF round
<1> QED BY <1>1, <1>3, <1>4, <1>6, <1>7, <1>9, <1>10, RoundSettled

(* The positions of a genuine dispute leave two parties at odds over any   *)
(* one of them.                                                            *)
LEMMA PositionDisputed ==
  ASSUME IInv, NEW s \in Subjects, subject[s].status = "disputed",
         NEW t \in Positions(s)
  PROVE  \E p, q \in Parties, u \in Types :
           p # q /\ u # t /\ Holds(s, p, t) /\ Holds(s, q, u)
<1>1. Genuine(s) /\ subject[s] \in Row
  BY RoundType DEF IInv, SubjectInv
<1>2. PICK p, q \in Parties, x, u \in Types :
        p # q /\ x # u /\ Holds(s, p, x) /\ Holds(s, q, u)
  BY <1>1 DEF Genuine
<1>3. PICK r \in Parties : Holds(s, r, t)
  <2>1. CASE t = subject[s].proposal
    <3>1. subject[s].proposer \in Parties
      BY <1>1 DEF Row, Parties
    <3> QED BY <2>1, <3>1 DEF Holds
  <2>2. CASE \E d \in Active(s) : t = Round(s)[d].target
    BY <1>1, <2>2, ActiveHolds DEF Parties
  <2> QED BY <2>1, <2>2 DEF Positions
<1>4. CASE r # p /\ x # t
  BY <1>2, <1>3, <1>4
<1>5. CASE r # q /\ u # t
  BY <1>2, <1>3, <1>5
<1>6. CASE r = p /\ u = t
  BY <1>2, <1>6
<1>7. CASE x = t
  BY <1>2, <1>7
<1> QED BY <1>2, <1>4, <1>5, <1>6, <1>7

LEMMA ArbitrateInv ==
  ASSUME IInv, NEW s \in Subjects, NEW t \in Types, Arbitrate(s, t)
  PROVE  IInv' /\ SettlesRound(s, t)
<1> USE DEF Outcomes, Settling
<1> DEFINE chosen == [from |-> subject[s].type, target |-> t,
                      outcome |-> "resolver_selected", label |-> ResolverLabel]
           round == [c \in Voters |->
             IF c = Resolver THEN chosen
             ELSE IF c \in Active(s)
               THEN [Round(s)[c] EXCEPT !.outcome =
                       IF Round(s)[c].target = t THEN "confirmed"
                       ELSE "rejected_resolver"]
             ELSE Round(s)[c]]
<1>1. /\ t \in offered[s] /\ subject[s].status = "disputed"
      /\ t \in Positions(s) /\ ~Taken(s, t)
      /\ SetRound(s, round) /\ SettleOn(s, t)
      /\ offered' = [offered EXCEPT ![s] = {}]
  BY DEF Arbitrate, Arbitrable
<1>2. /\ TypeOK /\ OpenRoundOK(s) /\ OfferOpen(s) /\ subject[s] \in Row
      /\ Round(s) \in [Voters -> Decision]
  BY RoundType DEF IInv, SubjectInv
<1>3. subject[s].live
  BY <1>1, <1>2 DEF OfferOpen
<1>4. Narrows(t, subject[s].type)
  BY <1>1, <1>3, PositionNarrows
<1>5. chosen \in Decision
  BY <1>2 DEF Decision, Row
<1>6. \A c \in Active(s) : c \in Clients
  BY <1>1, ActiveHolds
<1>7. round \in [Voters -> Decision]
  BY <1>2, <1>5 DEF Decision
<1>8. /\ round[Resolver] = chosen
      /\ \A c \in Clients : c \in Active(s) =>
           /\ round[c].target = Round(s)[c].target
           /\ round[c].from = Round(s)[c].from
           /\ round[c].outcome = IF Round(s)[c].target = t THEN "confirmed"
                                 ELSE "rejected_resolver"
      /\ \A c \in Clients : c \notin Active(s) => round[c] = Round(s)[c]
  BY <1>2, ClientsAssumption DEF Decision
<1>9. \A c \in Clients : HasDecided(s, c) =>
        /\ c \in Active(s) /\ Round(s)[c].from = subject[s].type
  BY <1>1, <1>2 DEF OpenRoundOK, Active
<1>10. \A c \in Clients : Round(s)[c].outcome \in Settling => HasDecided(s, c)
  BY DEF HasDecided
<1> HIDE DEF round
<1>11. \A c \in Voters : round[c].outcome \in Settling =>
         round[c].target = t /\ round[c].from = subject[s].type
  <2> SUFFICES ASSUME NEW c \in Voters, round[c].outcome \in Settling
               PROVE  round[c].target = t /\ round[c].from = subject[s].type
    OBVIOUS
  <2>1. CASE c = Resolver
    BY <1>8, <2>1
  <2>2. CASE c \in Clients /\ c \in Active(s)
    <3>1. HasDecided(s, c)
      BY <2>2 DEF Active, HasDecided
    <3> QED BY <1>8, <1>9, <2>2, <3>1
  <2>3. CASE c \in Clients /\ c \notin Active(s)
    BY <1>8, <1>9, <1>10, <2>3
  <2> QED BY <2>1, <2>2, <2>3
<1>12. \E c \in Voters : round[c].outcome \in Settling
  BY <1>8
<1>13. Independent(s)'
  <2>1. /\ subject'[s].type = t /\ Round(s)' = round
        /\ subject'[s].proposal = subject[s].proposal
        /\ subject'[s].proposer = subject[s].proposer
    BY <1>1, <1>2, <1>7, SettledRow
  <2>2. \A p, u : Holds(s, p, u) => Holds(s, p, u)'
    <3> SUFFICES ASSUME NEW p, NEW u, Holds(s, p, u) PROVE Holds(s, p, u)'
      OBVIOUS
    <3>1. CASE p = subject[s].proposer /\ u = subject[s].proposal
      BY <2>1, <3>1 DEF Holds
    <3>2. CASE /\ p \in Clients
               /\ Round(s)[p].outcome \notin {"none", "ignored_locked"}
               /\ Round(s)[p].target = u
      <4>1. HasDecided(s, p) /\ p \in Active(s)
        BY <1>9, <3>2 DEF HasDecided
      <4> QED BY <1>8, <2>1, <3>2, <4>1 DEF Holds
    <3> QED BY <3>1, <3>2 DEF Holds
  <2>3. PICK p, q \in Parties, u \in Types :
          p # q /\ u # t /\ Holds(s, p, t) /\ Holds(s, q, u)
    BY <1>1, PositionDisputed
  <2>4. Holds(s, p, t)' /\ Holds(s, q, u)'
    BY <2>2, <2>3
  <2>5. (Round(s)[Resolver].outcome)' = "resolver_selected"
    BY <1>8, <2>1
  <2> QED BY <2>1, <2>3, <2>4, <2>5 DEF Independent
<1>14. /\ offered'[s] = {} /\ offered' \in [Subjects -> SUBSET Types]
       /\ \A r \in Subjects \ {s} : offered'[r] = offered[r]
  BY <1>1, <1>2 DEF TypeOK
<1>15. /\ subject[s].status # "confirmed" /\ ~Taken(s, t)
       /\ SetRound(s, round) /\ SettleOn(s, t)
  BY <1>1
<1> QED BY <1>3, <1>4, <1>7, <1>11, <1>12, <1>13, <1>14, <1>15, RoundSettled

(* The resolver's call ends without a decision.                            *)
LEMMA CallEndsInv ==
  ASSUME IInv, NEW s \in Subjects,
         offered' = [offered EXCEPT ![s] = {}],
         UNCHANGED <<subject, decisions, typeStatus>>
  PROVE  IInv'
<1>1. TypeOK /\ SubjectInv(s)
  BY DEF IInv
<1>2. /\ offered'[s] = {} /\ TypeOK'
      /\ \A r \in Subjects \ {s} : offered'[r] = offered[r]
  BY <1>1 DEF TypeOK
<1>3. /\ RowOK(s)' /\ FutureEmpty(s)' /\ OpenRoundOK(s)' /\ Audited(s)'
      /\ SettledNarrows(s)' /\ Genuine(s)' /\ Independent(s)'
  <2>1. Round(s)' = Round(s)
    BY DEF Round
  <2>2. \A p, u : Holds(s, p, u)' <=> Holds(s, p, u)
    BY <2>1 DEF Holds
  <2>3. RowOK(s)' /\ FutureEmpty(s)'
    BY <1>1 DEF SubjectInv, RowOK, FutureEmpty
  <2>4. OpenRoundOK(s)'
    BY <1>1, <2>1 DEF SubjectInv, OpenRoundOK, HasDecided
  <2>5. Audited(s)' /\ SettledNarrows(s)'
    BY <1>1, <2>1 DEF SubjectInv, Audited, SettledNarrows
  <2>6. Genuine(s)' /\ Independent(s)'
    BY <1>1, <2>1, <2>2 DEF SubjectInv, Genuine, Independent
  <2> QED BY <2>3, <2>4, <2>5, <2>6
<1>4. SubjectInv(s)'
  BY <1>2, <1>3 DEF SubjectInv, OfferOpen
<1>5. \A r \in Subjects : SubjectInv(r)'
  BY <1>2, <1>4, OneSubject
<1> QED BY <1>2, <1>5 DEF IInv, UniqueIdentity, SettledTypeAccepted

(* A row that has just been created.                                       *)
LEMMA CreateInv ==
  ASSUME IInv, NEW s \in Subjects, NEW c \in Clients, NEW t \in Types,
         Create(s, c, t)
  PROVE  IInv'
<1> USE DEF Statuses
<1> DEFINE row == OpenRow(t, 1, t, c)
<1>1. TypeOK /\ SubjectInv(s) /\ ~subject[s].live
  BY DEF IInv, Create
<1>2. subject[s] = NoRow /\ decisions[s] = NoDecisions /\ offered[s] = {}
  BY <1>1 DEF SubjectInv, RowOK, OfferOpen
<1>3. /\ row \in Row /\ row.live /\ row.type = t /\ row.version = 1
      /\ row.status = "provisional" /\ row.locked = FALSE
      /\ row.proposal = t
  <2>1. 1 \in Versions
    BY VersionAssumption
  <2> QED BY <2>1 DEF Row, OpenRow
<1> HIDE DEF row
<1>4. /\ subject'[s] = row /\ subject' \in [Subjects -> Row]
      /\ \A r \in Subjects \ {s} : subject'[r] = subject[r]
      /\ decisions' = decisions /\ offered' = offered
      /\ typeStatus' = typeStatus
  BY <1>1, <1>3 DEF Create, TypeOK, row
<1>5. \A v \in Versions, c1 \in Voters : decisions[s][v][c1] = NoDecision
  BY <1>2 DEF NoDecisions
<1>6. \A c1 \in Voters : Round(s)'[c1] = NoDecision
  BY <1>3, <1>4, <1>5, VersionAssumption DEF Round
<1>7. RowOK(s)' /\ FutureEmpty(s)'
  BY <1>3, <1>4, <1>5 DEF RowOK, FutureEmpty
<1>8. OpenRoundOK(s)'
  BY <1>3, <1>4, <1>6 DEF OpenRoundOK, HasDecided, NoDecision
<1>9. /\ Audited(s)' /\ SettledNarrows(s)' /\ Genuine(s)'
      /\ Independent(s)' /\ OfferOpen(s)'
  BY <1>2, <1>3, <1>4 DEF Audited, SettledNarrows, Genuine, Independent, OfferOpen
<1>10. SubjectInv(s)'
  BY <1>7, <1>8, <1>9 DEF SubjectInv
<1>11. \A r \in Subjects : SubjectInv(r)'
  BY <1>4, <1>10, OneSubject
<1>12. UniqueIdentity'
  BY <1>4 DEF UniqueIdentity, Create
<1>13. SettledTypeAccepted'
  BY <1>3, <1>4 DEF SettledTypeAccepted, IInv
<1>14. TypeOK'
  BY <1>1, <1>4 DEF TypeOK
<1> QED BY <1>11, <1>12, <1>13, <1>14 DEF IInv

LEMMA DeleteInv ==
  ASSUME IInv, NEW s \in Subjects, Delete(s)
  PROVE  IInv'
<1> USE DEF Statuses, Outcomes
<1>1. TypeOK
  BY DEF IInv
<1>2. NoRow \in Row /\ NoDecision \in Decision
  <2>1. 1 \in Versions
    BY VersionAssumption
  <2>2. NoRow \in Row
    BY <2>1 DEF NoRow, Row
  <2>3. NoDecision \in Decision
    BY DEF NoDecision, Decision
  <2> QED BY <2>2, <2>3
<1>3. NoDecisions \in [Versions -> [Voters -> Decision]]
  BY <1>2 DEF NoDecisions
<1>4. /\ subject'[s] = NoRow /\ decisions'[s] = NoDecisions
      /\ offered'[s] = {} /\ typeStatus' = typeStatus
      /\ \A r \in Subjects \ {s} : /\ subject'[r] = subject[r]
                                   /\ decisions'[r] = decisions[r]
                                   /\ offered'[r] = offered[r]
  BY <1>1 DEF Delete, TypeOK
<1>5. TypeOK'
  <2>1. subject' \in [Subjects -> Row]
    BY <1>1, <1>2 DEF Delete, TypeOK
  <2>2. decisions' \in [Subjects -> [Versions -> [Voters -> Decision]]]
    BY <1>1, <1>3 DEF Delete, TypeOK
  <2>3. offered' \in [Subjects -> SUBSET Types]
    BY <1>1 DEF Delete, TypeOK
  <2> QED BY <1>1, <1>4, <2>1, <2>2, <2>3 DEF TypeOK
<1>6. \A v \in Versions, c \in Voters : decisions'[s][v][c] = NoDecision
  BY <1>4 DEF NoDecisions
<1>7. \A c \in Voters : Round(s)'[c] = NoDecision
  BY <1>4, <1>6, VersionAssumption DEF Round, NoRow
<1>8. RowOK(s)' /\ FutureEmpty(s)'
  BY <1>4, <1>6 DEF RowOK, FutureEmpty, NoRow
<1>9. OpenRoundOK(s)'
  BY <1>4, <1>7 DEF OpenRoundOK, HasDecided, NoDecision, NoRow
<1>10. /\ Audited(s)' /\ SettledNarrows(s)' /\ Genuine(s)'
       /\ Independent(s)' /\ OfferOpen(s)'
  BY <1>4 DEF Audited, SettledNarrows, Genuine, Independent, OfferOpen, NoRow
<1>11. SubjectInv(s)'
  BY <1>8, <1>9, <1>10 DEF SubjectInv
<1>12. \A r \in Subjects : SubjectInv(r)'
  BY <1>4, <1>11, OneSubject
<1>13. UniqueIdentity' /\ SettledTypeAccepted'
  BY <1>4 DEF UniqueIdentity, SettledTypeAccepted, NoRow, IInv
<1> QED BY <1>5, <1>12, <1>13 DEF IInv

LEMMA BackfillInv ==
  ASSUME IInv, NEW s \in Subjects, NEW p \in Clients \cup {NoClient},
         Backfill(s, p)
  PROVE  IInv'
<1> DEFINE row == subject[s]
<1>1. /\ TypeOK /\ SubjectInv(s) /\ row \in Row /\ row.live
      /\ row.proposal = NoType /\ row.type \in Types
  BY RoundType DEF IInv, Backfill, SubjectInv, RowOK
<1>2. /\ subject'[s] = [row EXCEPT !.proposal = row.type, !.proposer = p]
      /\ \A r \in Subjects \ {s} : subject'[r] = subject[r]
      /\ decisions' = decisions /\ offered' = offered
      /\ typeStatus' = typeStatus
  BY <1>1 DEF Backfill, TypeOK
<1>3. /\ subject'[s].live /\ subject'[s].type = row.type
      /\ subject'[s].status = row.status /\ subject'[s].locked = row.locked
      /\ subject'[s].version = row.version
      /\ subject'[s].proposal = row.type /\ subject'[s].proposer = p
      /\ Round(s)' = Round(s)
  BY <1>1, <1>2 DEF Row, Round
<1>4. TypeOK'
  BY <1>1, <1>2 DEF Backfill, TypeOK, Row
<1>5. \A q, u : u # NoType /\ Holds(s, q, u) => Holds(s, q, u)'
  BY <1>1, <1>3 DEF Holds
<1>6. RowOK(s)' /\ FutureEmpty(s)'
  BY <1>1, <1>2, <1>3 DEF SubjectInv, RowOK, FutureEmpty
<1>7. OpenRoundOK(s)'
  BY <1>1, <1>3 DEF SubjectInv, OpenRoundOK, HasDecided
<1>8. Audited(s)' /\ SettledNarrows(s)'
  BY <1>1, <1>3 DEF SubjectInv, Audited, SettledNarrows
<1>9. Genuine(s)' /\ Independent(s)'
  BY <1>1, <1>3, <1>5, TypesAssumption DEF SubjectInv, Genuine, Independent
<1>10. OfferOpen(s)'
  <2>1. Positions(s) \subseteq Positions(s)'
    BY <1>1, <1>3 DEF Positions, Active
  <2> QED BY <1>1, <1>2, <1>3, <2>1 DEF SubjectInv, OfferOpen
<1>11. SubjectInv(s)'
  BY <1>6, <1>7, <1>8, <1>9, <1>10 DEF SubjectInv
<1>12. \A r \in Subjects : SubjectInv(r)'
  BY <1>2, <1>11, OneSubject
<1>13. \A r \in Subjects : /\ subject'[r].live = subject[r].live
                            /\ subject'[r].type = subject[r].type
                            /\ subject'[r].status = subject[r].status
  BY <1>1, <1>2, <1>3
<1>14. UniqueIdentity'
  BY <1>13 DEF IInv, UniqueIdentity
<1>15. SettledTypeAccepted'
  BY <1>2, <1>13 DEF IInv, SettledTypeAccepted
<1> QED BY <1>4, <1>12, <1>14, <1>15 DEF IInv

LEMMA IgnoreDecisionInv ==
  ASSUME IInv, NEW s \in Subjects, NEW c \in Clients, NEW t \in Types,
         NEW l \in Labels, IgnoreDecision(s, c, t, l)
  PROVE  IInv'
<1> USE DEF Outcomes, Settling
<1> DEFINE row == subject[s]
           new == [from |-> row.type, target |-> t,
                   outcome |-> "ignored_locked", label |-> l]
           round == [Round(s) EXCEPT ![c] = new]
<1>1. /\ TypeOK /\ SubjectInv(s) /\ row \in Row /\ row.live
      /\ row.status = "confirmed" /\ ~HasDecided(s, c)
      /\ Round(s) \in [Voters -> Decision]
      /\ subject' = subject /\ offered' = offered /\ typeStatus' = typeStatus
  BY RoundType DEF IInv, IgnoreDecision, Admissible
<1>2. SetRound(s, round)
  BY <1>1 DEF IgnoreDecision, Entered
<1>3. new \in Decision
  BY <1>1 DEF Decision, Row
<1>4. /\ round \in [Voters -> Decision] /\ round[c] = new
      /\ \A d \in Voters : d # c => round[d] = Round(s)[d]
  BY <1>1, <1>3
<1> HIDE DEF round
<1>5. /\ decisions' \in [Subjects -> [Versions -> [Voters -> Decision]]]
      /\ \A r \in Subjects \ {s} : decisions'[r] = decisions[r]
      /\ \A v \in Versions \ {row.version} : decisions'[s][v] = decisions[s][v]
      /\ decisions'[s][row.version] = round
  BY <1>1, <1>2, <1>4, SetRoundType DEF SetRound, TypeOK, Row
<1>6. Round(s)' = round
  BY <1>1, <1>5 DEF Round
<1>7. RowOK(s)' /\ OpenRoundOK(s)' /\ Genuine(s)'
  BY <1>1 DEF SubjectInv, RowOK, OpenRoundOK, Genuine
<1>8. FutureEmpty(s)'
  BY <1>1, <1>5 DEF SubjectInv, FutureEmpty, Row
<1>9. OfferOpen(s)'
  BY <1>1 DEF SubjectInv, OfferOpen
<1>10. \A d \in Voters : round[d].outcome \in Settling =>
         round[d] = Round(s)[d]
  BY <1>4
<1>11. Audited(s)' /\ SettledNarrows(s)'
  <2>1. \A d \in Voters : Round(s)[d].outcome \in Settling =>
          round[d] = Round(s)[d]
    BY <1>1, <1>4 DEF HasDecided
  <2> QED BY <1>1, <1>6, <1>10, <2>1 DEF SubjectInv, Audited, SettledNarrows
<1>12. Independent(s)'
  <2>1. \A p, u : Holds(s, p, u) => Holds(s, p, u)'
    BY <1>1, <1>4, <1>6 DEF Holds, HasDecided
  <2>2. c # Resolver
    BY ClientsAssumption
  <2>3. (Round(s)[Resolver])' = Round(s)[Resolver]
    BY <1>4, <1>6, <2>2
  <2> QED BY <1>1, <2>1, <2>3 DEF SubjectInv, Independent
<1>13. SubjectInv(s)'
  BY <1>7, <1>8, <1>9, <1>11, <1>12 DEF SubjectInv
<1>14. \A r \in Subjects : SubjectInv(r)'
  BY <1>1, <1>5, <1>13, OneSubject
<1>15. TypeOK' /\ UniqueIdentity' /\ SettledTypeAccepted'
  BY <1>1, <1>5 DEF IInv, TypeOK, UniqueIdentity, SettledTypeAccepted
<1> QED BY <1>14, <1>15 DEF IInv

LEMMA ReopenInv ==
  ASSUME IInv, NEW s \in Subjects, NEW c \in Clients, Reopen(s, c)
  PROVE  IInv'
<1> USE DEF Statuses
<1> DEFINE v == subject[s].version + 1
<1>1. /\ TypeOK /\ SubjectInv(s) /\ subject[s] \in Row /\ UniqueIdentity
      /\ subject[s].live /\ subject[s].status = "confirmed"
      /\ v \in Versions /\ v > subject[s].version
      /\ decisions' = decisions /\ offered' = offered /\ typeStatus' = typeStatus
  <2>1. TypeOK /\ SubjectInv(s) /\ subject[s] \in Row /\ UniqueIdentity
    BY RoundType DEF IInv
  <2>2. /\ subject[s].live /\ subject[s].status = "confirmed"
        /\ subject[s].version < MaxVersion
        /\ decisions' = decisions /\ offered' = offered
        /\ typeStatus' = typeStatus
    BY DEF Reopen
  <2>3. subject[s].version \in 1..MaxVersion
    BY <2>1 DEF Row
  <2> QED BY <2>1, <2>2, <2>3, VersionAssumption
<1>2. PICK d \in Voters :
        /\ Round(s)[d].outcome \in Settling
        /\ ~Taken(s, Round(s)[d].from)
        /\ subject' = [subject EXCEPT ![s] =
                         OpenRow(Round(s)[d].from, v, Round(s)[d].from, c)]
  BY DEF Reopen
<1> DEFINE from == Round(s)[d].from
<1>3. from \in Types
  BY <1>1, <1>2 DEF SubjectInv, SettledNarrows
<1> HIDE DEF from, v
<1>4. OpenRow(from, v, from, c) \in Row
  BY <1>1, <1>3 DEF OpenRow, Row
<1>5. /\ subject'[s] = OpenRow(from, v, from, c)
      /\ subject' \in [Subjects -> Row]
      /\ \A r \in Subjects \ {s} : subject'[r] = subject[r]
      /\ ~Taken(s, from)
  BY <1>1, <1>2, <1>4 DEF TypeOK, from
<1>6. /\ subject'[s].live /\ subject'[s].type = from
      /\ subject'[s].status = "provisional" /\ subject'[s].locked = FALSE
      /\ subject'[s].version = v /\ subject'[s].proposal = from
  BY <1>5 DEF OpenRow
<1>7. \A w \in Versions, e \in Voters : w >= v => decisions[s][w][e] = NoDecision
  BY <1>1 DEF SubjectInv, FutureEmpty, Row, v
<1>8. \A e \in Voters : Round(s)'[e] = NoDecision
  BY <1>1, <1>6, <1>7 DEF Round, Row
<1>9. RowOK(s)' /\ FutureEmpty(s)'
  BY <1>1, <1>3, <1>6, <1>7 DEF RowOK, FutureEmpty
<1>10. OpenRoundOK(s)'
  BY <1>6, <1>8 DEF OpenRoundOK, HasDecided, NoDecision
<1>11. /\ Audited(s)' /\ SettledNarrows(s)' /\ Genuine(s)' /\ Independent(s)'
       /\ OfferOpen(s)'
  BY <1>1, <1>6 DEF SubjectInv, Audited, SettledNarrows, Genuine,
     Independent, OfferOpen
<1>12. SubjectInv(s)'
  BY <1>9, <1>10, <1>11 DEF SubjectInv
<1>13. \A r \in Subjects : SubjectInv(r)'
  BY <1>1, <1>5, <1>12, OneSubject
<1>14. UniqueIdentity'
  BY <1>1, <1>5, <1>6, TypeFree
<1>15. SettledTypeAccepted'
  BY <1>1, <1>5, <1>6 DEF SettledTypeAccepted, IInv
<1>16. TypeOK'
  BY <1>1, <1>5 DEF TypeOK
<1> QED BY <1>13, <1>14, <1>15, <1>16 DEF IInv

-----------------------------------------------------------------------------
LEMMA InitInv == Init => IInv
<1> SUFFICES ASSUME Init PROVE IInv
  OBVIOUS
<1> USE DEF Statuses, Outcomes
<1>1. PICK kind \in [LegacySubjects -> Types] :
        /\ \A r, s \in LegacySubjects : kind[r] = kind[s] => r = s
        /\ subject = [s \in Subjects |-> IF s \in LegacySubjects
                                           THEN OpenRow(kind[s], 1, NoType, NoClient)
                                           ELSE NoRow]
  BY DEF Init
<1>2. 1 \in Versions
  BY VersionAssumption
<1>3. NoRow \in Row /\ NoDecision \in Decision
  BY <1>2 DEF NoRow, NoDecision, Row, Decision
<1>4. \A s \in LegacySubjects : OpenRow(kind[s], 1, NoType, NoClient) \in Row
  BY <1>1, <1>2 DEF OpenRow, Row
<1>5. /\ decisions = [s \in Subjects |-> NoDecisions]
      /\ typeStatus = [t \in Types |-> "provisional"]
      /\ offered = [s \in Subjects |-> {}]
  BY DEF Init
<1>6. NoDecisions \in [Versions -> [Voters -> Decision]]
  BY <1>3 DEF NoDecisions
<1>7. TypeOK
  BY <1>1, <1>3, <1>4, <1>5, <1>6 DEF TypeOK, TypeStatuses
<1>8. \A s \in Subjects : /\ subject[s].status = "provisional"
                          /\ subject[s].version = 1 /\ subject[s].locked = FALSE
                          /\ subject[s].proposal = NoType
  BY <1>1 DEF OpenRow, NoRow
<1>9. \A s \in Subjects :
        IF s \in LegacySubjects
          THEN subject[s].live /\ subject[s].type = kind[s]
          ELSE ~subject[s].live /\ subject[s] = NoRow
  BY <1>1 DEF OpenRow, NoRow
<1>10. ASSUME NEW s \in Subjects PROVE SubjectInv(s)
  <2>1. \A v \in Versions, c \in Voters : decisions[s][v][c] = NoDecision
    BY <1>5 DEF NoDecisions
  <2>2. \A c \in Voters : Round(s)[c] = NoDecision
    BY <1>2, <1>8, <2>1 DEF Round
  <2>3. RowOK(s) /\ FutureEmpty(s)
    BY <1>1, <1>5, <1>9, <2>1 DEF RowOK, FutureEmpty
  <2>4. OpenRoundOK(s)
    BY <1>8, <2>2 DEF OpenRoundOK, HasDecided, NoDecision
  <2>5. /\ Audited(s) /\ SettledNarrows(s) /\ Genuine(s) /\ Independent(s)
        /\ OfferOpen(s)
    BY <1>5, <1>8 DEF Audited, SettledNarrows, Genuine, Independent, OfferOpen
  <2> QED BY <2>3, <2>4, <2>5 DEF SubjectInv
<1>11. UniqueIdentity
  BY <1>1, <1>9 DEF UniqueIdentity
<1>12. SettledTypeAccepted
  BY <1>8 DEF SettledTypeAccepted
<1> QED BY <1>7, <1>10, <1>11, <1>12 DEF IInv

LEMMA ProposeInv ==
  ASSUME IInv, NEW s \in Subjects, NEW c \in Clients, NEW t \in Types,
         NEW l \in Labels, Propose(s, c, t, l)
  PROVE  IInv'
BY IgnoreDecisionInv, JoinDisputeInv, DecideOwnProposalInv,
   ConfirmProposalInv, DisputeProposalInv, FirstPositionInv,
   AgreeUnproposedInv, SplitUnproposedInv DEF Propose

LEMMA StepInv == IInv /\ [Next]_vars => IInv'
<1> SUFFICES ASSUME IInv, [Next]_vars PROVE IInv'
  OBVIOUS
<1>1. ASSUME NEW s \in Subjects, NEW c \in Clients, NEW t \in Types,
             Create(s, c, t)
      PROVE  IInv'
  BY <1>1, CreateInv
<1>2. ASSUME NEW s \in Subjects, NEW c \in Clients, NEW t \in Types,
             NEW l \in Labels, Propose(s, c, t, l)
      PROVE  IInv'
  BY <1>2, ProposeInv
<1>3. ASSUME NEW s \in Subjects, NEW t \in Types, Arbitrate(s, t)
      PROVE  IInv'
  BY <1>3, ArbitrateInv
<1>4. ASSUME NEW s \in Subjects, NEW t \in Types, RefuseArbitration(s, t)
      PROVE  IInv'
  BY <1>4, CallEndsInv DEF RefuseArbitration
<1>5. ASSUME NEW s \in Subjects, NEW p \in Clients \cup {NoClient},
             Backfill(s, p)
      PROVE  IInv'
  BY <1>5, BackfillInv
<1>6. ASSUME NEW s \in Subjects, NEW c \in Clients, Reopen(s, c)
      PROVE  IInv'
  BY <1>6, ReopenInv
<1>7. ASSUME NEW s \in Subjects, ResolverFails(s)
      PROVE  IInv'
  BY <1>7, CallEndsInv DEF ResolverFails
<1>8. ASSUME NEW s \in Subjects, Delete(s)
      PROVE  IInv'
  BY <1>8, DeleteInv
<1>9. CASE UNCHANGED vars
  <2>1. \A s \in Subjects : SubjectInv(s)'
    BY <1>9, Frame DEF vars, IInv
  <2> QED BY <1>9, <2>1 DEF vars, IInv, TypeOK, UniqueIdentity, SettledTypeAccepted
<1> QED
  BY <1>1, <1>2, <1>3, <1>4, <1>5, <1>6, <1>7, <1>8, <1>9 DEF Next

(* The inductive invariant holds in every state of every behaviour.        *)
THEOREM Invariance == Spec => []IInv
BY InitInv, StepInv, PTL DEF Spec

(* Types and shapes of all rows: subjects, decisions, vocabulary, offers.  *)
THEOREM TypeCorrect == Spec => []TypeOK
<1>1. IInv => TypeOK
  BY DEF IInv
<1> QED BY <1>1, Invariance, PTL

(* Every locked classification has the audit reopening needs.              *)
THEOREM SettlementIsAudited == Spec => []SettlementAudited
<1>1. IInv => SettlementAudited
  BY DEF IInv, SubjectInv, SettlementAudited
<1> QED BY <1>1, Invariance, PTL

(* No client settles a classification on its own, whether by confirming,   *)
(* by voting without a proposal, or by raising a dispute for the resolver. *)
THEOREM SettlementIsIndependent == Spec => []SettlementIndependent
<1>1. IInv => SettlementIndependent
  BY DEF IInv, SubjectInv, SettlementIndependent
<1> QED BY <1>1, Invariance, PTL

(* A dispute is between two parties over two types, and the resolver is    *)
(* never refused for want of a second position.                            *)
THEOREM DisputesAreGenuine == Spec => []DisputeIsGenuine
<1>1. IInv => DisputeIsGenuine
  BY DEF IInv, SubjectInv, DisputeIsGenuine
<1> QED BY <1>1, Invariance, PTL

(* What the resolver was sent stays true until its answer arrives.         *)
THEOREM OffersStayOpen == Spec => []OfferStaysOpen
<1>1. IInv => OfferStaysOpen
  BY DEF IInv, SubjectInv, OfferStaysOpen
<1> QED BY <1>1, Invariance, PTL

(* Votes, arbitration and reopening never bring two rows of one canonical  *)
(* key to the same type.                                                   *)
THEOREM IdentityIsUnique == Spec => []UniqueIdentity
<1>1. IInv => UniqueIdentity
  BY DEF IInv
<1> QED BY <1>1, Invariance, PTL

-----------------------------------------------------------------------------
(* The refinement.  What a step may do to the abstract state of a subject. *)
SameRound(s) ==
  /\ Phase(s)' = Phase(s) /\ RoundNo(s)' = RoundNo(s)
  /\ Started(s)' = Started(s) /\ subject'[s].type = subject[s].type

LEMMA UntouchedRound ==
  ASSUME NEW s \in Subjects,
         subject'[s] = subject[s], decisions'[s] = decisions[s]
  PROVE  SameRound(s)
<1>1. Round(s)' = Round(s)
  BY DEF Round
<1> QED BY <1>1 DEF SameRound, Phase, RoundNo, Started

LEMMA OpenRowSame ==
  ASSUME NEW s \in Subjects,
         subject[s].live, subject[s].status # "confirmed",
         subject'[s].live, subject'[s].status # "confirmed",
         subject'[s].type = subject[s].type,
         subject'[s].version = subject[s].version
  PROVE  SameRound(s)
BY DEF SameRound, Phase, RoundNo, Started

LEMMA AllSame ==
  ASSUME \A s \in Subjects : SameRound(s)
  PROVE  UNCHANGED Rounds!vars
BY DEF SameRound, Rounds!vars

(* Every kind of step on s, as the abstract specification sees it.         *)
LEMMA SettleMaps ==
  ASSUME IInv, NEW s \in Subjects, NEW t \in Types, SettlesRound(s, t)
  PROVE  Rounds!Settle(s, t)
<1>1. \A r \in Subjects \ {s} : SameRound(r)
  BY UntouchedRound DEF SettlesRound
<1>2. /\ Phase(s) = "open" /\ Phase(s)' = "settled"
      /\ RoundNo(s)' = RoundNo(s)
      /\ Started(s) = subject[s].type /\ Started(s)' = subject[s].type
      /\ subject'[s].type = t
  BY DEF SettlesRound, Phase, RoundNo, Started
<1>3. Rounds!Narrows(t, Started(s))
  BY <1>2 DEF SettlesRound, Narrows, Descends, Rounds!Narrows, Rounds!Descends
<1>4. [r \in Subjects |-> Phase(r)]' =
        [[r \in Subjects |-> Phase(r)] EXCEPT ![s] = "settled"]
  BY <1>1, <1>2 DEF SameRound
<1>5. [r \in Subjects |-> subject[r].type]' =
        [[r \in Subjects |-> subject[r].type] EXCEPT ![s] = t]
  BY <1>1, <1>2 DEF SameRound
<1>6. UNCHANGED [r \in Subjects |-> RoundNo(r)]
  BY <1>1, <1>2 DEF SameRound
<1>7. UNCHANGED [r \in Subjects |-> Started(r)]
  BY <1>1, <1>2 DEF SameRound
<1> QED BY <1>2, <1>3, <1>4, <1>5, <1>6, <1>7 DEF Rounds!Settle

LEMMA CreateMaps ==
  ASSUME IInv, NEW s \in Subjects, NEW c \in Clients, NEW t \in Types,
         Create(s, c, t)
  PROVE  Rounds!Open(s, t)
<1>1. /\ ~subject[s].live /\ subject'[s] = OpenRow(t, 1, t, c)
      /\ \A r \in Subjects \ {s} : subject'[r] = subject[r]
      /\ decisions' = decisions
  BY DEF Create, IInv, TypeOK
<1>2. \A r \in Subjects \ {s} : SameRound(r)
  BY <1>1, UntouchedRound
<1>3. /\ Phase(s) = "absent" /\ Phase(s)' = "open" /\ RoundNo(s)' = 1
      /\ Started(s)' = t /\ subject'[s].type = t
  BY <1>1 DEF Phase, RoundNo, Started, OpenRow
<1>4. [r \in Subjects |-> Phase(r)]' =
        [[r \in Subjects |-> Phase(r)] EXCEPT ![s] = "open"]
  BY <1>2, <1>3 DEF SameRound
<1>5. [r \in Subjects |-> subject[r].type]' =
        [[r \in Subjects |-> subject[r].type] EXCEPT ![s] = t]
  BY <1>2, <1>3 DEF SameRound
<1>6. [r \in Subjects |-> RoundNo(r)]' =
        [[r \in Subjects |-> RoundNo(r)] EXCEPT ![s] = 1]
  BY <1>2, <1>3 DEF SameRound
<1>7. [r \in Subjects |-> Started(r)]' =
        [[r \in Subjects |-> Started(r)] EXCEPT ![s] = t]
  BY <1>2, <1>3 DEF SameRound
<1> QED BY <1>3, <1>4, <1>5, <1>6, <1>7 DEF Rounds!Open

LEMMA DeleteMaps ==
  ASSUME IInv, NEW s \in Subjects, Delete(s)
  PROVE  Rounds!Remove(s)
<1>1. /\ subject[s].live /\ subject'[s] = NoRow
      /\ \A r \in Subjects \ {s} : /\ subject'[r] = subject[r]
                                   /\ decisions'[r] = decisions[r]
  BY DEF Delete, IInv, TypeOK
<1>2. \A r \in Subjects \ {s} : SameRound(r)
  BY <1>1, UntouchedRound
<1>3. /\ Phase(s) # "absent" /\ Phase(s)' = "absent" /\ RoundNo(s)' = 0
      /\ Started(s)' = NoType /\ subject'[s].type = NoType
  BY <1>1 DEF Phase, RoundNo, Started, NoRow
<1>4. [r \in Subjects |-> Phase(r)]' =
        [[r \in Subjects |-> Phase(r)] EXCEPT ![s] = "absent"]
  BY <1>2, <1>3 DEF SameRound
<1>5. [r \in Subjects |-> subject[r].type]' =
        [[r \in Subjects |-> subject[r].type] EXCEPT ![s] = NoType]
  BY <1>2, <1>3 DEF SameRound
<1>6. [r \in Subjects |-> RoundNo(r)]' =
        [[r \in Subjects |-> RoundNo(r)] EXCEPT ![s] = 0]
  BY <1>2, <1>3 DEF SameRound
<1>7. [r \in Subjects |-> Started(r)]' =
        [[r \in Subjects |-> Started(r)] EXCEPT ![s] = NoType]
  BY <1>2, <1>3 DEF SameRound
<1> QED BY <1>3, <1>4, <1>5, <1>6, <1>7 DEF Rounds!Remove

LEMMA ReopenMaps ==
  ASSUME IInv, NEW s \in Subjects, NEW c \in Clients, Reopen(s, c)
  PROVE  Rounds!Reopen(s)
<1>1. /\ subject[s].live /\ subject[s].status = "confirmed"
      /\ decisions' = decisions /\ Audited(s) /\ TypeOK
  BY DEF Reopen, IInv, SubjectInv
<1>2. PICK d \in Voters :
        /\ Round(s)[d].outcome \in Settling
        /\ subject' = [subject EXCEPT ![s] = OpenRow(Round(s)[d].from,
                         subject[s].version + 1, Round(s)[d].from, c)]
  BY DEF Reopen
<1>3. Started(s) = Round(s)[d].from
  BY <1>1, <1>2, StartedIs
<1>4. /\ subject'[s] = OpenRow(Started(s), subject[s].version + 1, Started(s), c)
      /\ \A r \in Subjects \ {s} : subject'[r] = subject[r]
  BY <1>1, <1>2, <1>3 DEF TypeOK
<1>5. \A r \in Subjects \ {s} : SameRound(r)
  BY <1>1, <1>4, UntouchedRound
<1>6. /\ Phase(s) = "settled" /\ Phase(s)' = "open"
      /\ RoundNo(s)' = RoundNo(s) + 1
      /\ Started(s)' = Started(s) /\ subject'[s].type = Started(s)
  BY <1>1, <1>4 DEF Phase, RoundNo, Started, OpenRow
<1>7. [r \in Subjects |-> Phase(r)]' =
        [[r \in Subjects |-> Phase(r)] EXCEPT ![s] = "open"]
  BY <1>5, <1>6 DEF SameRound
<1>8. [r \in Subjects |-> subject[r].type]' =
        [[r \in Subjects |-> subject[r].type] EXCEPT ![s] = Started(s)]
  BY <1>5, <1>6 DEF SameRound
<1>9. [r \in Subjects |-> RoundNo(r)]' =
        [[r \in Subjects |-> RoundNo(r)] EXCEPT ![s] = RoundNo(s) + 1]
  BY <1>5, <1>6 DEF SameRound
<1>10. UNCHANGED [r \in Subjects |-> Started(r)]
  BY <1>5, <1>6 DEF SameRound
<1> QED BY <1>6, <1>7, <1>8, <1>9, <1>10 DEF Rounds!Reopen

(* The decisions that leave the round open.                                *)
LEMMA PendingMaps ==
  ASSUME IInv, NEW s \in Subjects, NEW c \in Clients, NEW t \in Types,
         NEW l \in Labels,
         \/ JoinDispute(s, c, t, l) \/ DecideOwnProposal(s, c, t, l)
         \/ DisputeProposal(s, c, t, l) \/ FirstPosition(s, c, t, l)
         \/ SplitUnproposed(s, c, t, l)
  PROVE  UNCHANGED Rounds!vars
<1>1. TypeOK /\ subject[s] \in Row /\ subject[s].live
      /\ subject[s].status # "confirmed"
  BY RoundType DEF IInv, Admissible, Proposed, Unproposed, JoinDispute,
     DecideOwnProposal, DisputeProposal, FirstPosition, SplitUnproposed
<1>2. \A r \in Subjects \ {s} : /\ subject'[r] = subject[r]
                               /\ decisions'[r] = decisions[r]
  BY <1>1 DEF TypeOK, SetRound, JoinDispute,
     DecideOwnProposal, DisputeProposal, FirstPosition, SplitUnproposed
<1>3. \E st \in {"candidate", "disputed"} :
        \/ subject' = [subject EXCEPT ![s].status = st]
        \/ subject' = subject
  BY DEF JoinDispute, DecideOwnProposal, DisputeProposal, FirstPosition,
     SplitUnproposed
<1>4. /\ subject'[s].live /\ subject'[s].status # "confirmed"
      /\ subject'[s].type = subject[s].type
      /\ subject'[s].version = subject[s].version
  BY <1>1, <1>3 DEF TypeOK, Row
<1>5. SameRound(s)
  BY <1>1, <1>4, OpenRowSame
<1>6. \A r \in Subjects : SameRound(r)
  BY <1>2, <1>5, UntouchedRound
<1> QED BY <1>6, AllSame

LEMMA IgnoreMaps ==
  ASSUME IInv, NEW s \in Subjects, NEW c \in Clients, NEW t \in Types,
         NEW l \in Labels, IgnoreDecision(s, c, t, l)
  PROVE  UNCHANGED Rounds!vars
<1> USE DEF Outcomes, Settling
<1> DEFINE new == [from |-> subject[s].type, target |-> t,
                   outcome |-> "ignored_locked", label |-> l]
           round == [Round(s) EXCEPT ![c] = new]
<1>1. /\ TypeOK /\ Audited(s) /\ subject[s] \in Row
      /\ subject[s].live /\ subject[s].status = "confirmed"
      /\ ~HasDecided(s, c) /\ subject' = subject
      /\ Round(s) \in [Voters -> Decision]
  BY RoundType DEF IInv, SubjectInv, IgnoreDecision, Admissible
<1>2. SetRound(s, round)
  BY <1>1 DEF IgnoreDecision, Entered
<1>3. /\ round[c].outcome = "ignored_locked"
      /\ \A d \in Voters : d # c => round[d] = Round(s)[d]
  BY <1>1
<1> HIDE DEF round
<1>4. /\ Round(s)' = round
      /\ \A r \in Subjects \ {s} : decisions'[r] = decisions[r]
  BY <1>1, <1>2 DEF SetRound, Round, TypeOK, Row
<1>5. PICK e \in Voters : Round(s)[e].outcome \in Settling
  BY <1>1 DEF Audited
<1>6. round[e] = Round(s)[e]
  BY <1>1, <1>3, <1>5 DEF HasDecided
<1>7. Started(s)' = Started(s)
  <2> DEFINE d == CHOOSE d \in Voters : round[d].outcome \in Settling
  <2>1. d \in Voters /\ round[d].outcome \in Settling
    BY <1>5, <1>6
  <2>2. Started(s)' = round[d].from
    BY <1>1, <1>4 DEF Started
  <2> HIDE DEF d
  <2>3. round[d] = Round(s)[d]
    BY <1>3, <2>1
  <2> QED BY <1>1, <2>1, <2>2, <2>3, StartedIs
<1>8. SameRound(s)
  BY <1>1, <1>7 DEF SameRound, Phase, RoundNo
<1>9. \A r \in Subjects : SameRound(r)
  BY <1>1, <1>4, <1>8, UntouchedRound
<1> QED BY <1>9, AllSame

LEMMA BackfillMaps ==
  ASSUME IInv, NEW s \in Subjects, NEW p \in Clients \cup {NoClient},
         Backfill(s, p)
  PROVE  UNCHANGED Rounds!vars
<1>1. TypeOK /\ subject[s] \in Row /\ decisions' = decisions
  BY RoundType DEF IInv, Backfill
<1>2. /\ subject'[s].live = subject[s].live
      /\ subject'[s].status = subject[s].status
      /\ subject'[s].type = subject[s].type
      /\ subject'[s].version = subject[s].version
      /\ \A r \in Subjects \ {s} : subject'[r] = subject[r]
  BY <1>1 DEF Backfill, TypeOK, Row
<1>3. Round(s)' = Round(s)
  BY <1>1, <1>2 DEF Round
<1>4. SameRound(s)
  BY <1>2, <1>3 DEF SameRound, Phase, RoundNo, Started
<1>5. \A r \in Subjects : SameRound(r)
  BY <1>1, <1>2, <1>4, UntouchedRound
<1> QED BY <1>5, AllSame

LEMMA NoRowMaps ==
  ASSUME UNCHANGED <<subject, decisions>>
  PROVE  UNCHANGED Rounds!vars
<1>1. \A r \in Subjects : SameRound(r)
  BY UntouchedRound
<1> QED BY <1>1, AllSame

LEMMA StepMaps == IInv /\ [Next]_vars => [Rounds!Next]_(Rounds!vars)
<1> SUFFICES ASSUME IInv, [Next]_vars PROVE [Rounds!Next]_(Rounds!vars)
  OBVIOUS
<1>1. ASSUME NEW s \in Subjects, NEW c \in Clients, NEW t \in Types,
             Create(s, c, t)
      PROVE  Rounds!Next
  BY <1>1, CreateMaps DEF Rounds!Next
<1>2. ASSUME NEW s \in Subjects, NEW c \in Clients, NEW t \in Types,
             NEW l \in Labels, Propose(s, c, t, l)
      PROVE  [Rounds!Next]_(Rounds!vars)
  <2>1. CASE IgnoreDecision(s, c, t, l)
    BY <2>1, IgnoreMaps
  <2>2. CASE ConfirmProposal(s, c, t, l) \/ AgreeUnproposed(s, c, t, l)
    <3>1. Rounds!Settle(s, t)
      BY <2>2, ConfirmProposalInv, AgreeUnproposedInv, SettleMaps
    <3> QED BY <3>1 DEF Rounds!Next
  <2>3. CASE \/ JoinDispute(s, c, t, l) \/ DecideOwnProposal(s, c, t, l)
             \/ DisputeProposal(s, c, t, l) \/ FirstPosition(s, c, t, l)
             \/ SplitUnproposed(s, c, t, l)
    BY <2>3, PendingMaps
  <2> QED BY <1>2, <2>1, <2>2, <2>3 DEF Propose
<1>3. ASSUME NEW s \in Subjects, NEW t \in Types, Arbitrate(s, t)
      PROVE  Rounds!Next
  <2>1. Rounds!Settle(s, t)
    BY <1>3, ArbitrateInv, SettleMaps
  <2> QED BY <2>1 DEF Rounds!Next
<1>4. ASSUME NEW s \in Subjects, NEW t \in Types, RefuseArbitration(s, t)
      PROVE  UNCHANGED Rounds!vars
  BY <1>4, NoRowMaps DEF RefuseArbitration
<1>5. ASSUME NEW s \in Subjects, NEW p \in Clients \cup {NoClient},
             Backfill(s, p)
      PROVE  UNCHANGED Rounds!vars
  BY <1>5, BackfillMaps
<1>6. ASSUME NEW s \in Subjects, NEW c \in Clients, Reopen(s, c)
      PROVE  Rounds!Next
  BY <1>6, ReopenMaps DEF Rounds!Next
<1>7. ASSUME NEW s \in Subjects, ResolverFails(s)
      PROVE  UNCHANGED Rounds!vars
  BY <1>7, NoRowMaps DEF ResolverFails
<1>8. ASSUME NEW s \in Subjects, Delete(s)
      PROVE  Rounds!Next
  BY <1>8, DeleteMaps DEF Rounds!Next
<1>9. CASE UNCHANGED vars
  BY <1>9, NoRowMaps DEF vars
<1> QED
  BY <1>1, <1>2, <1>3, <1>4, <1>5, <1>6, <1>7, <1>8, <1>9 DEF Next

LEMMA InitMaps == Init => Rounds!Init
<1> SUFFICES ASSUME Init PROVE Rounds!Init
  OBVIOUS
<1>1. IInv
  BY InitInv
<1>2. PICK kind \in [LegacySubjects -> Types] :
        subject = [s \in Subjects |-> IF s \in LegacySubjects
                                        THEN OpenRow(kind[s], 1, NoType, NoClient)
                                        ELSE NoRow]
  BY DEF Init
<1>3. \A s \in Subjects : /\ subject[s].status = "provisional"
                          /\ subject[s].version = 1
                          /\ subject[s].live \in BOOLEAN
                          /\ subject[s].type \in Types \cup {NoType}
  BY <1>2 DEF OpenRow, NoRow
<1>4. \A s \in Subjects : /\ Phase(s) \in {"absent", "open"}
                          /\ RoundNo(s) = IF Phase(s) = "absent" THEN 0 ELSE 1
                          /\ Started(s) = subject[s].type
  BY <1>3 DEF Phase, RoundNo, Started
<1>5. /\ [s \in Subjects |-> Phase(s)] \in [Subjects -> {"absent", "open"}]
      /\ [s \in Subjects |-> subject[s].type] \in [Subjects -> Types \cup {NoType}]
      /\ [s \in Subjects |-> Started(s)] = [s \in Subjects |-> subject[s].type]
  BY <1>3, <1>4
<1>6. [s \in Subjects |-> RoundNo(s)] =
        [s \in Subjects |->
           IF [r \in Subjects |-> Phase(r)][s] = "absent" THEN 0 ELSE 1]
  BY <1>4
<1> QED BY <1>5, <1>6 DEF Rounds!Init

(* Classification implements ClassificationRounds: whatever clients,       *)
(* resolver and migration do, a subject moves only between its baseline    *)
(* and narrower types, is settled once per round, and is reopened at the   *)
(* baseline it was created under.                                          *)
THEOREM Refinement == Spec => ImplementsRounds
BY InitMaps, StepMaps, Invariance, PTL DEF Spec, ImplementsRounds, Rounds!Spec
-----------------------------------------------------------------------------
(* The audit.  What a step may do to one decision, and to all of them.     *)
Closes(old, new) ==
  (old.outcome # "none" /\ new # old) =>
    /\ old.outcome = "candidate"
    /\ new.outcome \in {"confirmed", "rejected_resolver"}
    /\ new = [old EXCEPT !.outcome = new.outcome]

Appends ==
  \A s \in Subjects, v \in Versions, c \in Voters :
    (subject'[s].live /\ decisions[s][v][c].outcome # "none"
       /\ decisions'[s][v][c] # decisions[s][v][c]) =>
      v = subject[s].version /\ Closes(decisions[s][v][c], decisions'[s][v][c])

LEMMA RoundAppends ==
  ASSUME TypeOK, NEW s \in Subjects, NEW round \in [Voters -> Decision],
         SetRound(s, round),
         \A c \in Voters : Closes(Round(s)[c], round[c])
  PROVE  Appends
<1>1. \A r \in Subjects, v \in Versions :
        decisions'[r][v] = IF r = s /\ v = subject[s].version THEN round
                           ELSE decisions[r][v]
  BY RoundType DEF TypeOK, SetRound
<1> QED BY <1>1 DEF Appends, Round, Closes

(* A first decision is entered where there was none.                       *)
LEMMA EnteredAppends ==
  ASSUME TypeOK, NEW s \in Subjects, NEW c \in Clients, NEW t \in Types,
         NEW l \in Labels, NEW o \in Outcomes
  PROVE  \A d \in Voters : Closes(Round(s)[d], Entered(s, c, t, l, o)[d])
BY RoundType DEF Entered, HasDecided, Closes

LEMMA EnteredStep ==
  ASSUME TypeOK, NEW s \in Subjects, NEW c \in Clients, NEW t \in Types,
         NEW l \in Labels, NEW o \in Outcomes,
         SetRound(s, Entered(s, c, t, l, o))
  PROVE  Appends
<1>1. Entered(s, c, t, l, o) \in [Voters -> Decision]
  BY EnteredType
<1> QED BY <1>1, EnteredAppends, RoundAppends

(* The decision that settles a proposal was pending, or has just been made.*)
LEMMA ConfirmAppends ==
  ASSUME IInv, NEW s \in Subjects, NEW c \in Clients, NEW t \in Types,
         NEW l \in Labels, ConfirmProposal(s, c, t, l)
  PROVE  Appends
<1> USE DEF Outcomes
<1>1. PICK entered : entered = Entered(s, c, t, l, "candidate")
  OBVIOUS
<1>2. /\ TypeOK /\ entered \in [Voters -> Decision]
      /\ Round(s) \in [Voters -> Decision]
      /\ \A d \in Voters : Closes(Round(s)[d], entered[d])
  BY <1>1, EnteredType, EnteredAppends, RoundType DEF IInv
<1>3. PICK round : round = [entered EXCEPT ![c].outcome = "confirmed"]
  OBVIOUS
<1>4. round \in [Voters -> Decision] /\ SetRound(s, round)
  <2>1. entered[c] \in Decision
    BY <1>2
  <2>2. [entered[c] EXCEPT !.outcome = "confirmed"] \in Decision
    BY <2>1 DEF Decision
  <2>3. round \in [Voters -> Decision]
    BY <1>2, <1>3, <2>2
  <2> QED BY <1>1, <1>3, <2>3 DEF ConfirmProposal
<1>5. \A d \in Voters : d # c => round[d] = entered[d]
  BY <1>2, <1>3
<1>6. Closes(Round(s)[c], round[c])
  <2>1. CASE ~HasDecided(s, c)
    BY <2>1 DEF HasDecided, Closes
  <2>2. CASE HasDecided(s, c)
    <3>1. entered = Round(s) /\ Round(s)[c].outcome = "candidate"
      <4>1. OpenRoundOK(s) /\ subject[s].status # "confirmed"
        BY DEF IInv, SubjectInv, ConfirmProposal, Proposed
      <4> QED BY <1>1, <2>2, <4>1 DEF Entered, OpenRoundOK
    <3>2. round[c] = [Round(s)[c] EXCEPT !.outcome = "confirmed"]
      BY <1>2, <1>3, <3>1
    <3>3. Round(s)[c] \in Decision
      BY <1>2
    <3>4. round[c].outcome = "confirmed"
      BY <3>2, <3>3 DEF Decision
    <3> QED BY <3>1, <3>2, <3>4 DEF Closes
  <2> QED BY <2>1, <2>2
<1>7. \A d \in Voters : Closes(Round(s)[d], round[d])
  BY <1>2, <1>5, <1>6
<1> QED BY <1>2, <1>4, <1>7, RoundAppends

(* Closing pending decisions of a round with an outcome of their own.      *)
LEMMA PendingClosed ==
  ASSUME NEW d \in Decision, d.outcome = "candidate",
         NEW o \in {"confirmed", "rejected_resolver"}
  PROVE  [d EXCEPT !.outcome = o] \in Decision /\ Closes(d, [d EXCEPT !.outcome = o])
BY DEF Decision, Outcomes, Closes

LEMMA AgreeAppends ==
  ASSUME IInv, NEW s \in Subjects, NEW c \in Clients, NEW t \in Types,
         NEW l \in Labels, AgreeUnproposed(s, c, t, l)
  PROVE  Appends
<1> USE DEF Outcomes
<1>1. PICK entered : entered = Entered(s, c, t, l, "candidate")
  OBVIOUS
<1>2. /\ TypeOK /\ entered \in [Voters -> Decision]
      /\ Round(s) \in [Voters -> Decision]
      /\ \A d \in Voters : d # c => entered[d] = Round(s)[d]
      /\ Round(s)[c].outcome = "none"
  BY <1>1, EnteredType, RoundType DEF IInv, Entered, AgreeUnproposed, Unproposed, HasDecided
<1>3. PICK round : round = [d \in Voters |->
                     IF entered[d].outcome = "candidate"
                       THEN [entered[d] EXCEPT !.outcome = "confirmed"]
                       ELSE entered[d]]
  OBVIOUS
<1>4. ASSUME NEW d \in Voters
      PROVE  round[d] \in Decision /\ Closes(Round(s)[d], round[d])
  <2>1. entered[d] \in Decision
    BY <1>2
  <2>2. round[d] \in Decision
    BY <1>3, <2>1, PendingClosed
  <2>3. CASE d = c
    BY <1>2, <2>2, <2>3 DEF Closes
  <2>4. CASE d # c
    BY <1>2, <1>3, <2>1, <2>2, <2>4, PendingClosed DEF Closes
  <2> QED BY <2>2, <2>3, <2>4
<1>5. round \in [Voters -> Decision] /\ SetRound(s, round)
  BY <1>1, <1>3, <1>4 DEF AgreeUnproposed
<1> QED BY <1>2, <1>4, <1>5, RoundAppends

LEMMA ArbitrateAppends ==
  ASSUME IInv, NEW s \in Subjects, NEW t \in Types, Arbitrate(s, t)
  PROVE  Appends
<1> USE DEF Outcomes
<1>1. PICK round : round = [c \in Voters |->
        IF c = Resolver
          THEN [from |-> subject[s].type, target |-> t,
                outcome |-> "resolver_selected", label |-> ResolverLabel]
        ELSE IF c \in Active(s)
          THEN [Round(s)[c] EXCEPT !.outcome =
                  IF Round(s)[c].target = t THEN "confirmed"
                  ELSE "rejected_resolver"]
        ELSE Round(s)[c]]
  OBVIOUS
<1>2. /\ TypeOK /\ Round(s) \in [Voters -> Decision] /\ subject[s] \in Row
      /\ ~HasDecided(s, Resolver)
  BY RoundType DEF IInv, SubjectInv, OpenRoundOK, Arbitrate, Arbitrable
<1>3. ASSUME NEW c \in Voters
      PROVE  round[c] \in Decision /\ Closes(Round(s)[c], round[c])
  <2>1. Round(s)[c] \in Decision
    BY <1>2
  <2>2. CASE c = Resolver
    <3>1. /\ round[c] = [from |-> subject[s].type, target |-> t,
                        outcome |-> "resolver_selected", label |-> ResolverLabel]
          /\ subject[s].type \in Types \cup {NoType}
      BY <1>1, <1>2, <2>2 DEF Row
    <3>2. round[c] \in Decision
      BY <3>1 DEF Decision
    <3> QED BY <1>2, <2>2, <3>2 DEF HasDecided, Closes
  <2>3. CASE c # Resolver /\ c \in Active(s)
    <3>1. PICK o \in {"confirmed", "rejected_resolver"} :
            round[c] = [Round(s)[c] EXCEPT !.outcome = o]
      BY <1>1, <2>3
    <3>2. Round(s)[c].outcome = "candidate"
      BY <2>3 DEF Active
    <3> QED BY <2>1, <3>1, <3>2, PendingClosed
  <2>4. CASE c # Resolver /\ c \notin Active(s)
    <3>1. round[c] = Round(s)[c]
      BY <1>1, <2>4
    <3> QED BY <2>1, <3>1 DEF Closes
  <2> QED BY <2>2, <2>3, <2>4
<1>4. round \in [Voters -> Decision] /\ SetRound(s, round)
  BY <1>1, <1>3 DEF Arbitrate
<1> QED BY <1>2, <1>3, <1>4, RoundAppends

LEMMA StepAppends == IInv /\ [Next]_vars => Appends
<1> SUFFICES ASSUME IInv, [Next]_vars PROVE Appends
  OBVIOUS
<1>1. TypeOK
  BY DEF IInv
<1>2. ASSUME UNCHANGED decisions PROVE Appends
  BY <1>2 DEF Appends
<1>3. ASSUME NEW s \in Subjects, NEW c \in Clients, NEW t \in Types, NEW l \in Labels,
             Propose(s, c, t, l)
      PROVE  Appends
  <2>1. \/ \E o \in Outcomes : SetRound(s, Entered(s, c, t, l, o))
        \/ ConfirmProposal(s, c, t, l) \/ AgreeUnproposed(s, c, t, l)
    BY <1>3 DEF Propose, IgnoreDecision, JoinDispute, DecideOwnProposal,
       DisputeProposal, FirstPosition, SplitUnproposed, Outcomes
  <2> QED BY <1>1, <2>1, EnteredStep, ConfirmAppends, AgreeAppends
<1>4. ASSUME NEW s \in Subjects, Delete(s) PROVE Appends
  BY <1>1, <1>4 DEF Delete, Appends, TypeOK, NoRow
<1>5. ASSUME NEW s \in Subjects, NEW t \in Types,
             Arbitrate(s, t) \/ RefuseArbitration(s, t)
      PROVE  Appends
  BY <1>2, <1>5, ArbitrateAppends DEF RefuseArbitration
<1>6. ASSUME NEW s \in Subjects,
             \/ \E c \in Clients, t \in Types : Create(s, c, t)
             \/ \E p \in Clients \cup {NoClient} : Backfill(s, p)
             \/ \E c \in Clients : Reopen(s, c)
             \/ ResolverFails(s)
      PROVE  Appends
  BY <1>2, <1>6 DEF Create, Backfill, Reopen, ResolverFails
<1> QED BY <1>2, <1>3, <1>4, <1>5, <1>6 DEF Next, vars

(* However many clients decide, and whatever is settled, arbitrated and    *)
(* reopened, the audit of a subject that exists is append-only.            *)
THEOREM AuditIsAppendOnly == Spec => AuditAppendOnly
<1>1. Appends => (\A s \in Subjects, v \in Versions, c \in Voters :
        LET old == decisions[s][v][c]  new == decisions'[s][v][c]
        IN  (subject'[s].live /\ old.outcome # "none" /\ new # old) =>
              /\ v = subject[s].version
              /\ old.outcome = "candidate"
              /\ new.outcome \in {"confirmed", "rejected_resolver"}
              /\ new = [old EXCEPT !.outcome = new.outcome])
  BY DEF Appends, Closes
<1> QED BY <1>1, Invariance, StepAppends, PTL DEF Spec, AuditAppendOnly

(* The vocabulary has accepted the type every settled subject is under.    *)
THEOREM TypesAreAccepted == Spec => []SettledTypeAccepted
<1>1. IInv => SettledTypeAccepted
  BY DEF IInv
<1> QED BY <1>1, Invariance, PTL
=============================================================================
