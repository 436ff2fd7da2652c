------------------------------ MODULE MCKeyIds ------------------------------
(***************************************************************************)
(* Instances of KeyIds for TLC: an organization, a machine whose ID is long *)
(* enough to roll up, and places for nodes created or adopted later.       *)
(***************************************************************************)
EXTENDS KeyIds, TLC

CONSTANTS nOrg, nMachine, nNew, nMore, coreA, coreB

MCCoreOf == [n \in Nodes |-> IF n = nOrg THEN coreA ELSE coreB]
MCCoreOfTwo == [n \in Nodes |-> IF n \in {nOrg, nMore} THEN coreA ELSE coreB]
MCMayAsk == [n \in Nodes |->
  CASE n = nOrg -> {} [] n = nMachine -> {nOrg, nNew}
    [] n = nNew -> {nOrg} [] n = nMore -> {}]
MCFirstId == (nOrg :> <<1>>) @@ (nMachine :> <<2, 1, 1>>)

(* Conversations are alike. *)
Alike == Permutations(Talks)
=============================================================================
