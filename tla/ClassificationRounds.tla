------------------------ MODULE ClassificationRounds ------------------------
(***************************************************************************)
(* What TestGraph promises about the classification of a subject, without  *)
(* saying who votes or how votes are counted.                              *)
(*                                                                         *)
(* A subject is opened under a type, its baseline.  While a round is open  *)
(* its type is the baseline.  A round is settled once, on the baseline or  *)
(* on a strict descendant of it, and from then on the type stands until a  *)
(* governed reopening, which starts the next round from the same baseline. *)
(* A subject may be removed at any time.                                   *)
(***************************************************************************)
EXTENDS Naturals

CONSTANTS
  Subjects,     \* rows of v2_subjects
  Types,        \* semantic subject types
  IsA,          \* the active taxonomy edges, a set of <<child, parent>>
  NoType        \* the type of a row that does not exist

VARIABLES
  phase,        \* [Subjects -> {"absent", "open", "settled"}]
  round,        \* the round the subject is in, 0 if it is absent
  baseline,     \* the type each of its rounds starts from
  type          \* the type it is filed under now

vars == <<phase, round, baseline, type>>

(* t lies strictly below a: t is in every set that holds the children of a *)
(* and the children of its own members.                                    *)
Descends(t, a) ==
  \A S \in SUBSET Types :
    (\A e \in IsA : e[2] \in S \cup {a} => e[1] \in S) => t \in S

Narrows(t, a) == t = a \/ Descends(t, a)

(* Rows that exist before the first step may be filed under any type.      *)
Init ==
  /\ phase \in [Subjects -> {"absent", "open"}]
  /\ round = [s \in Subjects |-> IF phase[s] = "absent" THEN 0 ELSE 1]
  /\ type \in [Subjects -> Types \cup {NoType}]
  /\ baseline = type

Open(s, t) ==
  /\ phase[s] = "absent"
  /\ phase' = [phase EXCEPT ![s] = "open"]
  /\ round' = [round EXCEPT ![s] = 1]
  /\ baseline' = [baseline EXCEPT ![s] = t]
  /\ type' = [type EXCEPT ![s] = t]

Settle(s, t) ==
  /\ phase[s] = "open"
  /\ Narrows(t, baseline[s])
  /\ phase' = [phase EXCEPT ![s] = "settled"]
  /\ type' = [type EXCEPT ![s] = t]
  /\ UNCHANGED <<round, baseline>>

Reopen(s) ==
  /\ phase[s] = "settled"
  /\ phase' = [phase EXCEPT ![s] = "open"]
  /\ round' = [round EXCEPT ![s] = @ + 1]
  /\ type' = [type EXCEPT ![s] = baseline[s]]
  /\ UNCHANGED baseline

Remove(s) ==
  /\ phase[s] # "absent"
  /\ phase' = [phase EXCEPT ![s] = "absent"]
  /\ round' = [round EXCEPT ![s] = 0]
  /\ baseline' = [baseline EXCEPT ![s] = NoType]
  /\ type' = [type EXCEPT ![s] = NoType]

Next ==
  \E s \in Subjects :
    \/ \E t \in Types : Open(s, t) \/ Settle(s, t)
    \/ Reopen(s)
    \/ Remove(s)

Spec == Init /\ [][Next]_vars
=============================================================================
