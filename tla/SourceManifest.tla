--------------------------- MODULE SourceManifest ---------------------------
(***************************************************************************)
(* The source manifest of a collection: the pages on which a client found  *)
(* the collection's members, and what                                      *)
(* _validate_collection_source_manifest of app/api/mcp_v2.py finds wrong   *)
(* with it.                                                                *)
(*                                                                         *)
(* The server does not read the pages.  From the manifest alone it decides *)
(* whether the client has followed the directory to its end, and so        *)
(* whether the absence of a member may be concluded later.  The client     *)
(* here begins with what it found on a directory and makes mistakes.       *)
(***************************************************************************)
EXTENDS Naturals, Sequences, FiniteSets

CONSTANTS
  Urls,         \* of pages
  NoUrl,
  Members,      \* the submitted member refs
  MaxMistakes   \* bound

ASSUME SourceManifestAssumption ==
  /\ NoUrl \notin Urls /\ MaxMistakes \in Nat
  /\ IsFiniteSet(Urls) /\ IsFiniteSet(Members)

VARIABLES
  manifest,   \* what the client would submit
  mistakes    \* the number of them in it

smVars == <<manifest, mistakes>>

(* sequence 0 is a page without one.                                       *)
Page == [url : Urls, refs : SUBSET Members, sequence : 0..Cardinality(Urls),
         next : Urls \cup {NoUrl}, terminal : BOOLEAN]

Manifest ==
  [coverage : {"complete", "partial"}, method : {"pagination", "other"},
   declared : 1..Cardinality(Urls), directory : Urls \cup {NoUrl},
   reconciled : SUBSET Urls, unresolved : SUBSET Urls,
   pages : Seq(Page)]

PageUrls(m) == {m.pages[i].url : i \in DOMAIN m.pages}
Covered(m) == UNION {m.pages[i].refs : i \in DOMAIN m.pages}

(* The codes of the violations, of what concerns every manifest.           *)
SourceViolations(m) ==
  {code \in {"incomplete", "not_unique", "count", "unresolved", "directory",
             "unreconciled", "without_members", "coverage"} :
     CASE code = "incomplete" -> m.coverage # "complete"
       [] code = "not_unique" -> Cardinality(PageUrls(m)) # Len(m.pages)
       [] code = "count" -> m.declared # Len(m.pages)
       [] code = "unresolved" -> m.unresolved # {}
       [] code = "directory" -> m.directory \notin PageUrls(m) \cup {NoUrl}
       [] code = "unreconciled" -> ~(PageUrls(m) \subseteq m.reconciled)
       [] code = "without_members" -> \E i \in DOMAIN m.pages : m.pages[i].refs = {}
       [] code = "coverage" -> Covered(m) # Members}

Continuous(m) ==
  {m.pages[i].sequence : i \in DOMAIN m.pages} = 1..Len(m.pages)

(* The page with a sequence number, of continuously numbered pages.        *)
Ordered(m, s) == m.pages[CHOOSE i \in DOMAIN m.pages : m.pages[i].sequence = s]

(* Mutant: the links are followed without asking where the pages end.      *)
OpenViolations(m) ==
  LET n == Len(m.pages)
  IN  IF m.method = "pagination"
      THEN IF ~Continuous(m) THEN {"pagination_incomplete"}
           ELSE {"broken_links" : s \in {s \in 1..n - 1 :
                   Ordered(m, s).next # Ordered(m, s + 1).url}}
      ELSE {}

(* And of what concerns the links: a pagination is a chain that ends at    *)
(* its one terminal page; other links lead to pages of the manifest.       *)
LinkViolations(m) ==
  LET n == Len(m.pages)
      Next(s) == IF s < n THEN Ordered(m, s + 1).url ELSE NoUrl
  IN  IF m.method = "pagination"
      THEN IF ~Continuous(m) THEN {"pagination_incomplete"}
           ELSE {"terminal" : x \in {x \in {1} :
                   {s \in 1..n : Ordered(m, s).terminal} # {n}}}
                \cup {"broken_links" : s \in {s \in 1..n : Ordered(m, s).next # Next(s)}}
      ELSE {"links_unresolved" : i \in {i \in DOMAIN m.pages :
              m.pages[i].next \notin PageUrls(m) \cup {NoUrl}}}

Violations(m) == SourceViolations(m) \cup LinkViolations(m)

-----------------------------------------------------------------------------
(* What a client finds that follows a directory page by page, and reports  *)
(* in any order.                                                           *)
Found(order) ==
  LET n == Len(order)
  IN  [coverage |-> "complete", method |-> "pagination", declared |-> n,
       directory |-> order[1], reconciled |-> Urls, unresolved |-> {},
       pages |-> [i \in 1..n |->
         [url |-> order[i], refs |-> Members, sequence |-> i,
          next |-> IF i < n THEN order[i + 1] ELSE NoUrl, terminal |-> i = n]]]

Shuffled(m, p) == [m EXCEPT !.pages = [i \in DOMAIN @ |-> @[p[i]]]]

Orders(S, n) == {f \in [1..n -> S] : Cardinality({f[i] : i \in 1..n}) = n}

SmInit ==
  /\ \E n \in 1..Cardinality(Urls) : \E order \in Orders(Urls, n), p \in Orders(1..n, n) :
       manifest = Shuffled(Found(order), p)
  /\ mistakes = 0

(* A mistake in the manifest, or in one page of it.                        *)
Mistake ==
  /\ mistakes < MaxMistakes
  /\ mistakes' = mistakes + 1
  /\ \/ manifest' = [manifest EXCEPT !.coverage = "partial"]
     \/ manifest' = [manifest EXCEPT !.method = "other"]
     \/ \E v \in 1..Cardinality(Urls) : manifest' = [manifest EXCEPT !.declared = v]
     \/ \E v \in Urls \cup {NoUrl} : manifest' = [manifest EXCEPT !.directory = v]
     \/ \E v \in Urls : manifest' = [manifest EXCEPT !.reconciled = @ \ {v}]
     \/ \E v \in Urls : manifest' = [manifest EXCEPT !.unresolved = @ \cup {v}]
     \/ Len(manifest.pages) > 1 /\ \E i \in DOMAIN manifest.pages :
          manifest' = [manifest EXCEPT !.pages =
                         [j \in 1..Len(@) - 1 |-> IF j < i THEN @[j] ELSE @[j + 1]]]
     \/ \E i \in DOMAIN manifest.pages :
          \/ \E v \in Urls : manifest' = [manifest EXCEPT !.pages[i].url = v]
          \/ \E v \in SUBSET Members : manifest' = [manifest EXCEPT !.pages[i].refs = v]
          \/ \E v \in 0..Cardinality(Urls) :
               manifest' = [manifest EXCEPT !.pages[i].sequence = v]
          \/ \E v \in Urls \cup {NoUrl} : manifest' = [manifest EXCEPT !.pages[i].next = v]
          \/ manifest' = [manifest EXCEPT !.pages[i].terminal = ~@]

SmNext == Mistake
SmSpec == SmInit /\ [][SmNext]_smVars

-----------------------------------------------------------------------------
SmTypeOK ==
  /\ manifest \in Manifest /\ Len(manifest.pages) \in 1..Cardinality(Urls)
  /\ mistakes \in 0..MaxMistakes

PageOf(m, url) == m.pages[CHOOSE i \in DOMAIN m.pages : m.pages[i].url = url]

(* Where a reader is that starts on the first page and follows n links.    *)
Walk(m) ==
  LET at[n \in 0..Len(m.pages)] ==
        IF n = 0 THEN Ordered(m, 1).url
        ELSE IF at[n - 1] = NoUrl THEN NoUrl ELSE PageOf(m, at[n - 1]).next
  IN  at

(* A manifest without violations supports a conclusion from absence: a     *)
(* reader who starts on the first page of a pagination and follows the     *)
(* links sees every page once and then the end, no page links outside, and *)
(* the pages yield the members and nothing else.                           *)
AcceptedIsWalk ==
  Violations(manifest) = {} =>
    /\ manifest.method = "pagination" =>
         LET at == Walk(manifest)
             n == Len(manifest.pages)
         IN  /\ {at[i] : i \in 0..n - 1} = PageUrls(manifest)
             /\ at[n] = NoUrl
             /\ \A i \in 0..n - 1 : PageOf(manifest, at[i]).terminal <=> i = n - 1
    /\ \A i \in DOMAIN manifest.pages :
         manifest.pages[i].next \in PageUrls(manifest) \cup {NoUrl}
    /\ Covered(manifest) = Members
    /\ manifest.declared = Cardinality(PageUrls(manifest))
=============================================================================
