------------------------------- MODULE Search -------------------------------
(***************************************************************************)
(* Searching reviews and known subjects: _search of app/api/mcp_v2.py.     *)
(*                                                                         *)
(* One search answers from two lists, the reviews from the newest on and   *)
(* the subjects by name, and one cursor carries an offset into each.  The  *)
(* rows that match come and go between two pages: reviews are saved and    *)
(* deleted, subjects are filed under another type or get a location.       *)
(***************************************************************************)
EXTENDS Pages

CONSTANTS
  MaxHit,      \* each list has places 1..MaxHit, in the order it is served
  MaxShifts    \* bound: rows that begin or cease to match

ASSUME SearchAssumption == MaxHit \in Nat \ {0} /\ MaxShifts \in Nat

VARIABLES
  matching,   \* the rows that match, of each list
  shifts,
  search      \* a client that searches to the end

seVars == <<matching, shifts, search>>

Hits == 1..MaxHit
SearchLists == {"reviews", "subjects"}
OfBoth(x) == [k \in SearchLists |-> x]

(* listed: the lists that are served.  Without a word and a type to search *)
(* for, the subjects are not.  offset: what the cursor carries; seen: what *)
(* the pages held; stayed: what matched all the while; left: what did not. *)
Searcher == [state : {"idle", "more", "done"}, listed : SUBSET SearchLists, limit : 0..MaxHit,
             offset : [SearchLists -> 0..MaxHit],
             seen : [SearchLists -> SUBSET Hits], stayed : [SearchLists -> SUBSET Hits],
             left : [SearchLists -> SUBSET Hits]]

-----------------------------------------------------------------------------
SeInit ==
  /\ matching \in [SearchLists -> SUBSET Hits]
  /\ shifts = 0
  /\ search = [state |-> "idle", listed |-> {}, limit |-> 0, offset |-> OfBoth(0),
               seen |-> OfBoth({}), stayed |-> OfBoth({}), left |-> OfBoth({})]

(* The rows of a page of one list.                                         *)
RowsOf(k, offset, limit) ==
  LET rows == Sorted(matching[k])
  IN  {rows[i] : i \in {i \in DOMAIN rows : offset < i /\ i <= offset + limit}}

Beyond(k, offset, limit) == Cardinality(matching[k]) > offset + limit

(* Mutant: the search ends with its reviews.                               *)
HasMoreReviews(listed, offset, limit) == Beyond("reviews", offset["reviews"], limit)

(* One list may have ended long before the other.                          *)
HasMore(listed, offset, limit) == \E k \in listed : Beyond(k, offset[k], limit)

SearchPage(s) ==
  LET rows == [k \in SearchLists |->
                 IF k \in s.listed THEN RowsOf(k, s.offset[k], s.limit) ELSE {}]
  IN  search' = [s EXCEPT
        !.state = IF HasMore(s.listed, s.offset, s.limit) THEN "more" ELSE "done",
        !.offset = [k \in SearchLists |-> @[k] + Cardinality(rows[k])],
        !.seen = [k \in SearchLists |-> @[k] \cup rows[k]]]

(* The first page.                                                         *)
BeginSearch ==
  /\ search.state = "idle"
  /\ \E limit \in Hits, listed \in {{"reviews"}, SearchLists} :
       SearchPage([search EXCEPT !.limit = limit, !.listed = listed,
                                 !.stayed = [k \in SearchLists |->
                                   IF k \in listed THEN matching[k] ELSE {}]])
  /\ UNCHANGED <<matching, shifts>>

(* The cursor is taken for the search it was given for and no other.       *)
ContinueSearch ==
  /\ search.state = "more" /\ SearchPage(search)
  /\ UNCHANGED <<matching, shifts>>

(* A row begins to match, or no longer does.                               *)
MatchChanges ==
  /\ search.state = "more" /\ shifts < MaxShifts
  /\ shifts' = shifts + 1
  /\ \E k \in search.listed, h \in Hits :
       LET gone == h \in matching[k]
       IN  /\ matching' = [matching EXCEPT ![k] = IF gone THEN @ \ {h} ELSE @ \cup {h}]
           /\ search' = [search EXCEPT !.stayed[k] = @ \ {h},
                                       !.left[k] = IF gone THEN @ \cup {h} ELSE @]

SeNext == BeginSearch \/ ContinueSearch \/ MatchChanges
SeSpec == SeInit /\ [][SeNext]_seVars

-----------------------------------------------------------------------------
SeTypeOK ==
  /\ matching \in [SearchLists -> SUBSET Hits]
  /\ shifts \in 0..MaxShifts /\ search \in Searcher

(* "Continue with next_cursor until has_more is false before claiming      *)
(* exhaustive retrieval" (the tool's description).  A client that does has *)
(* seen every review and every subject that matched all the while, except  *)
(* behind a row of the same list that ceased to match; rows that begin to  *)
(* match hide nothing.                                                     *)
SearchExhaustive ==
  search.state = "done" =>
    \A k \in search.listed : \A h \in search.stayed[k] \ search.seen[k] :
      \E g \in search.left[k] : g < h
=============================================================================
