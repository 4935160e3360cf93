----------------------------- MODULE MCLocation -----------------------------
(* Instances of LocationRequests for TLC.                                  *)
EXTENDS LocationRequests, TLC

CONSTANTS page, pageSlash, link, url, urlSlash

\* Up to 1, the instant 1, and from 2 on: periods that touch, follow each
\* other and shrink to an instant.
Ages == {[from |-> 0, to |-> 1], [from |-> 1, to |-> 1],
         [from |-> 2, to |-> 3]}

\* Up to 1 and from 2 on.
Halves == {[from |-> 0, to |-> 1], [from |-> 2, to |-> 3]}

(* A place has one page of OpenStreetMap and one of its own site.  The     *)
(* same address is written with and without its last slash, and under      *)
(* either scheme.                                                          *)
PageOrSite == (page :> "osm" @@ pageSlash :> "osm") @@ (link :> "site")
Written == (page :> url @@ pageSlash :> urlSlash) @@ (link :> url)
WithoutSlash == url :> url @@ urlSlash :> url

\* One pair of names stands for clients, canonical keys and titles, which
\* are never compared with each other.
Symmetric == Permutations(Places) \cup Permutations(Clients)
=============================================================================
