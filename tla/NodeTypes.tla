------------------------------ MODULE NodeTypes ------------------------------
(***************************************************************************)
(* What a node is, and which types may sit directly under which            *)
(* (src/topology/local-nodes.ts).                                          *)
(***************************************************************************)
EXTENDS Naturals

NodeType == {"ORGANIZATION", "GROUP", "SITE", "USER", "MACHINE"}

MAY_HOLD ==
  [ORGANIZATION |-> {"ORGANIZATION", "GROUP", "SITE", "USER"},
   GROUP |-> {"GROUP", "USER"},
   SITE |-> {"SITE", "MACHINE"},
   USER |-> {},
   MACHINE |-> {}]

MayHold(parent, child) == child \in MAY_HOLD[parent]

(* The types that take a seat, and have no list of their own (seatKind). *)
Seated == {"USER", "MACHINE"}
=============================================================================
