------------------------------- MODULE MCLive -------------------------------
(***************************************************************************)
(* Small instances, for TLC in one run, of the parts where something must  *)
(* come right in the end: child lists, suspensions and running copies.     *)
(* Each behaviour lets one part move and leaves the others as they began.  *)
(***************************************************************************)
EXTENDS ChildLists, Shutdowns, Copies, TLC

CONSTANTS
  o1, o2,                       \* operators
  nOrg, nDep, nUser, nPlaced,   \* nodes
  bTop, bMid, bLeaf             \* a branch of three

VARIABLE part

partVars == <<part, vars, shutdownVars, copyVars>>

(* An organization, a department, a user there, and an issued ID that may  *)
(* be placed as a site, which may be below the organization only.          *)
MCType ==
  (nOrg :> "ORGANIZATION") @@ (nDep :> "GROUP") @@ (nUser :> "USER") @@ (nPlaced :> "SITE")
MCStart == (nOrg :> None) @@ (nDep :> nOrg) @@ (nUser :> nDep)
MCUp == (bTop :> Nobody) @@ (bMid :> bTop) @@ (bLeaf :> bMid)

LiveInit ==
  /\ part \in {"lists", "shutdowns", "copies"}
  /\ Init /\ ShutdownsInit /\ CopiesInit

Moves(p) == part = p /\ part' = p

(* Operators are alike, so the first one free is the one to start: o2 only *)
(* while o1 has calls to make.                                             *)
InTurn == todo[o2] = <<>> /\ todo[o1] = <<>> => todo'[o2] = <<>>

(* One thing goes wrong with a copy: a call that fails, or a long job. *)
LiveNext ==
  \/ Moves("lists") /\ Next /\ InTurn /\ UNCHANGED <<shutdownVars, copyVars>>
  \/ Moves("shutdowns") /\ ShutdownsNext /\ UNCHANGED <<vars, copyVars>>
  \/ Moves("copies") /\ CopiesNext /\ outages' + long' <= 1 /\ UNCHANGED <<vars, shutdownVars>>

(* Each part's own fairness; bTop has no parent to check in with. *)
LiveFairness ==
  /\ \A t \in Talker : WF_vars(part = "lists" /\ (Answered(t) \/ Refused(t)))
  /\ \A c \in Node : SF_vars(part = "lists" /\ CheckIn(c))
  /\ \A n \in Branch \ {bTop} : WF_shutdownVars(part = "shutdowns" /\ OwnCheckIn(n))
  /\ \A w \in Branch \cup Orderer : WF_shutdownVars(part = "shutdowns" /\ CheckIns(w))
  /\ \A o \in Orderer : WF_shutdownVars(part = "shutdowns" /\ Orders(o))
  /\ WF_shutdownVars(part = "shutdowns" /\ NoticeSteps)
  /\ WF_copyVars(part = "copies" /\ InstanceRecorded)
  /\ \A l \in Loop : WF_copyVars(part = "copies" /\ LoopSteps(l))
  /\ \A i \in Instance : WF_copyVars(part = "copies" /\ SilenceUnused(i))
  /\ WF_copyVars(part = "copies" /\ SweepSteps)

LiveSpec == LiveInit /\ [][LiveNext]_partVars /\ LiveFairness
=============================================================================
