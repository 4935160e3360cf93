-------------------------- MODULE LocationRequests --------------------------
(***************************************************************************)
(* The two halves of a location claim (app/services/location.py): which    *)
(* place it is about (PlaceNames), and what becomes of the claims about    *)
(* places (Location).  A place once it is there is never removed, and a    *)
(* claim is stored with its id, so that a behaviour is about one half:     *)
(* the names of places, or claims between places that are there.           *)
(***************************************************************************)
EXTENDS Location, PlaceNames

VARIABLE half

lrVars == <<half, vars, plVars>>

LrInit == half \in {"names", "claims"} /\ PlInit
          /\ Init /\ (half = "names" => state = <<>>)

NamePlaces == half = "names" /\ PlNext /\ UNCHANGED <<half, vars>>
ClaimPlaces == half = "claims" /\ Next /\ UNCHANGED <<half, plVars>>

LrNext == NamePlaces \/ ClaimPlaces

LrSpec == LrInit /\ [][LrNext]_lrVars
=============================================================================
