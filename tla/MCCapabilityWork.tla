-------------------------- MODULE MCCapabilityWork --------------------------
(***************************************************************************)
(* Instances of CapabilityWork for TLC: two services, the first with two   *)
(* copies, and a command of each way of choosing.                          *)
(***************************************************************************)
EXTENDS CapabilityWork, TLC

CONSTANTS sFirst, sSecond, iA, iB, iC

MCServiceOf == (iA :> sFirst) @@ (iB :> sFirst) @@ (iC :> sSecond)
MCServiceOfTwo == (iA :> sFirst) @@ (iC :> sSecond)

InOrder == [way |-> "dynamic", services |-> <<sFirst, sSecond>>, enough |-> 0]
All == [way |-> "consensus", services |-> <<sFirst, sSecond>>, enough |-> 0]
AnyOne == [way |-> "consensus", services |-> <<sFirst, sSecond>>, enough |-> 1]
Only == [way |-> "bound", services |-> <<sFirst>>, enough |-> 0]

MCRequests == {InOrder, All, AnyOne, Only}
MCInOrder == {InOrder}
MCReports == {Only, AnyOne}

(* The copies keep in hand all they ever accepted.  Only JobEnds takes work  *)
(* from them and nothing else asks what they have, so to leave it out hides *)
(* nothing from a run of what may never happen.                             *)
NoJobEnds == \A i \in Instances : holding[i] \subseteq holding'[i]

KeptSpec == Init /\ [][Next /\ NoJobEnds]_vars

(* The requests served at the same time are alike, and so are the two       *)
(* copies of the first service.                                             *)
Alike == Permutations(Calls) \cup Permutations({iA, iB})
=============================================================================
