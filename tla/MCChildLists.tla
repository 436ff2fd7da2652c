---------------------------- MODULE MCChildLists ----------------------------
(***************************************************************************)
(* An instance of ChildLists for TLC: an organization, a department, a     *)
(* user there, and an issued ID that may be placed as a group.             *)
(***************************************************************************)
EXTENDS ChildLists, TLC

CONSTANTS nOrg, nDep, nUser, nPlaced

MCPlaces ==
  (nOrg :> "ORGANIZATION") @@ (nDep :> "GROUP") @@ (nUser :> "USER")
  @@ (nPlaced :> "GROUP")
MCPlacesUnder == (nOrg :> None) @@ (nDep :> nOrg) @@ (nUser :> nDep)
=============================================================================
