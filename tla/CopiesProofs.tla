----------------------------- MODULE CopiesProofs -----------------------------
(***************************************************************************)
(* Proofs about Copies, for any loops and any bounds: whatever is lost,    *)
(* refused or ended, and whenever, no loop asks with an instance that Core *)
(* has no record of.                                                       *)
(***************************************************************************)
EXTENDS Copies, TLAPS

Pc == {"ended", "idle", "waiting", "asking", "held", "offered", "working"}
Known == Instance \cup {0}

CopiesTypes ==
  /\ state \in [Instance -> {"NONE", "RUNNING", "STOPPED", "LOST"}]
  /\ silent \subseteq Instance /\ listed \subseteq Instance
  /\ copy \in {"up", "stopping", "down"}
  /\ instanceId \in Known /\ registering \in BOOLEAN
  /\ loop \in [Loop -> [pc : Pc, with : Known]]

(* The shared ID is of a recorded instance, so what a loop asks with is. *)
Recorded(i) == i = 0 \/ state[i] # "NONE"
RecordedIds == Recorded(instanceId) /\ \A l \in Loop : Recorded(loop[l].with)

CopiesInv == CopiesTypes /\ RecordedIds

USE CopiesAssumption

LEMMA NotAnInstance == 0 \notin Instance /\ 0 \in Known /\ Instance \subseteq Known
  BY DEF Instance, Known

LEMMA InitCopies == ASSUME CopiesInit PROVE CopiesInv
  BY NotAnInstance
     DEF CopiesInit, CopiesInv, CopiesTypes, RecordedIds, Recorded, Ended, Doing, Pc

(* A new instance is one that was not recorded. *)
LEMMA NewIsNew == ASSUME CanRecord PROVE NewInstance \in Instance /\ state[NewInstance] = "NONE"
  BY DEF CanRecord, NewInstance

(* What is recorded stays recorded: startInstance, stopInstance, markLost. *)
LEMMA Recording ==
  ASSUME CopiesTypes, CanRecord, RecordsInstance
  PROVE /\ state' \in [Instance -> {"NONE", "RUNNING", "STOPPED", "LOST"}]
        /\ state'[NewInstance] = "RUNNING"
        /\ \A i \in Instance : state[i] # "NONE" => state'[i] # "NONE"
  BY NewIsNew DEF CopiesTypes, RecordsInstance

LEMMA Marking ==
  ASSUME CopiesTypes, NEW i \in Instance, NEW s \in {"STOPPED", "LOST"},
         state' = [state EXCEPT ![i] = s]
  PROVE /\ state' \in [Instance -> {"NONE", "RUNNING", "STOPPED", "LOST"}]
        /\ \A j \in Instance : state[j] # "NONE" => state'[j] # "NONE"
  BY DEF CopiesTypes

(* The invariant holds on as long as loops go on with what they have, the  *)
(* shared ID or none.                                                      *)
LEMMA LoopsGoOn ==
  ASSUME CopiesInv,
         state' \in [Instance -> {"NONE", "RUNNING", "STOPPED", "LOST"}],
         \A i \in Instance : state[i] # "NONE" => state'[i] # "NONE",
         silent' \subseteq Instance, listed' \subseteq Instance,
         copy' \in {"up", "stopping", "down"}, registering' \in BOOLEAN,
         instanceId' \in Known, instanceId' # 0 => state'[instanceId'] # "NONE",
         loop' \in [Loop -> [pc : Pc, with : Known]],
         \A l \in Loop : loop'[l].with \in {0, loop[l].with, instanceId, instanceId'}
  PROVE CopiesInv'
<1>1. CopiesTypes'
  BY DEF CopiesTypes, Instance, Known
<1>2. \A i \in Known : Recorded(i) => i = 0 \/ state'[i] # "NONE"
  BY DEF Recorded, Known
<1>3. ASSUME NEW l \in Loop PROVE loop'[l].with = 0 \/ state'[loop'[l].with] # "NONE"
  <2>1. loop[l].with \in Known /\ instanceId \in Known
    BY DEF CopiesInv, CopiesTypes
  <2>2. Recorded(loop[l].with) /\ Recorded(instanceId)
    BY DEF CopiesInv, RecordedIds
  <2> QED BY <1>2, <2>1, <2>2
<1> QED BY <1>1, <1>3 DEF CopiesInv, RecordedIds, Recorded

LEMMA StepCopies == ASSUME CopiesInv, [CopiesNext]_copyVars PROVE CopiesInv'
<1> USE DEF Doing, Resting
<1>0. /\ CopiesTypes
      /\ \A l \in Loop : loop[l] = [pc |-> loop[l].pc, with |-> loop[l].with]
      /\ \A l \in Loop : loop[l].pc \in Pc /\ loop[l].with \in Known
      /\ instanceId # 0 => state[instanceId] # "NONE"
  BY DEF CopiesInv, CopiesTypes, RecordedIds, Recorded
<1>w. ASSUME NEW i \in Known, NEW pc \in Pc
      PROVE Waiting([pc |-> pc, with |-> i]) \in [Loop -> [pc : Pc, with : Known]]
  BY <1>0 DEF Waiting, CopiesTypes
<1>1. CASE UNCHANGED copyVars
  BY <1>1, <1>0, LoopsGoOn DEF copyVars, CopiesTypes
<1>2. CASE CopyStarts
  BY <1>2, <1>0, LoopsGoOn, NotAnInstance DEF CopyStarts, CopiesTypes, Pc
<1>3. CASE InstanceRecorded
  <2>1. NewInstance \in Known /\ NewInstance # 0
    BY <1>3, NewIsNew, NotAnInstance DEF InstanceRecorded
  <2>2. loop' \in [Loop -> [pc : Pc, with : Known]]
    BY <1>3, <2>1, <1>w DEF InstanceRecorded, Pc
  <2>3. \A l \in Loop : loop'[l].with \in {loop[l].with, instanceId'}
    BY <1>3 DEF InstanceRecorded, Waiting
  <2> QED BY <1>3, <1>0, <2>1, <2>2, <2>3, Recording, LoopsGoOn DEF InstanceRecorded, CopiesTypes
<1>4. CASE RegisterFails
  <2>1. loop' \in [Loop -> [pc : Pc, with : Known]]
    BY <1>4, <1>w, NotAnInstance DEF RegisterFails, Pc
  <2>2. \A l \in Loop : loop'[l].with \in {loop[l].with, 0}
    BY <1>4 DEF RegisterFails, Waiting
  <2>3. /\ state' \in [Instance -> {"NONE", "RUNNING", "STOPPED", "LOST"}]
        /\ \A i \in Instance : state[i] # "NONE" => state'[i] # "NONE"
    BY <1>4, <1>0, Recording DEF RegisterFails, CopiesTypes
  <2>4. instanceId # 0 => state'[instanceId] # "NONE"
    BY <1>0, <2>3 DEF CopiesTypes, Known
  <2> QED BY <1>4, <1>0, <2>1, <2>2, <2>3, <2>4, LoopsGoOn DEF RegisterFails, CopiesTypes
<1>5. CASE Stops
  BY <1>5, <1>0, LoopsGoOn DEF Stops, CopiesTypes
<1>6. CASE Stopped
  <2>1. /\ state' \in [Instance -> {"NONE", "RUNNING", "STOPPED", "LOST"}]
        /\ \A i \in Instance : state[i] # "NONE" => state'[i] # "NONE"
    BY <1>6, <1>0, Marking DEF Stopped, Running, CopiesTypes, Known
  <2>2. silent' \subseteq Instance
    BY <1>6, <1>0 DEF Stopped, CopiesTypes
  <2> QED BY <1>6, <1>0, <2>1, <2>2, NotAnInstance, LoopsGoOn DEF Stopped, CopiesTypes
<1>7. CASE Crashes
  BY <1>7, <1>0, NotAnInstance, LoopsGoOn DEF Crashes, Ended, CopiesTypes, Pc
<1>8. ASSUME NEW l \in Loop, LoopSteps(l) \/ CallFails(l) PROVE CopiesInv'
  <2>1. CASE NextRound(l)
    <3>1. PICK pc \in Pc, i \in {0, instanceId} : loop' = [loop EXCEPT ![l] = Doing(pc, i)]
      BY <2>1 DEF NextRound, Pc
    <3>2. /\ loop' \in [Loop -> [pc : Pc, with : Known]]
          /\ \A m \in Loop : loop'[m].with \in {0, loop[m].with, instanceId}
      BY <3>1, <1>0, NotAnInstance DEF CopiesTypes
    <3>3. registering' \in BOOLEAN
      BY <2>1, <1>0 DEF NextRound, CopiesTypes
    <3> QED BY <2>1, <1>0, <3>2, <3>3, LoopsGoOn DEF NextRound, CopiesTypes
  <2>2. ASSUME NEW from \in Pc, NEW to \in Pc, Asks(l, from, to) PROVE CopiesInv'
    <3>1. CASE Running(loop[l].with)
      BY <2>2, <3>1, <1>0, LoopsGoOn DEF Asks, CopiesTypes
    <3>2. CASE ~Running(loop[l].with)
      BY <2>2, <3>2, <1>0, NotAnInstance, LoopsGoOn DEF Asks, LetGo, CopiesTypes, Pc
    <3> QED BY <3>1, <3>2
  <2>3. CASE ChecksIn(l)
    BY <2>3, <1>0, NotAnInstance, LoopsGoOn DEF ChecksIn, CopiesTypes, Pc
  <2>4. CASE JobEnds(l) \/ CallFails(l)
    BY <2>4, <1>0, NotAnInstance, LoopsGoOn DEF JobEnds, CallFails, CopiesTypes, Pc
  <2> QED BY <1>8, <2>1, <2>2, <2>3, <2>4 DEF LoopSteps, Pc
<1>9. CASE SweepLists
  BY <1>9, <1>0, LoopsGoOn DEF SweepLists, Due, CopiesTypes
<1>10. ASSUME NEW i \in Instance, FallsSilent(i) PROVE CopiesInv'
  <2>1. silent' \subseteq Instance
    BY <1>10, <1>0 DEF FallsSilent, CopiesTypes
  <2> QED BY <1>10, <1>0, <2>1, LoopsGoOn DEF FallsSilent, CopiesTypes
<1>11. ASSUME NEW i \in Instance, SweepMarks(i) PROVE CopiesInv'
  <2>1. /\ state' \in [Instance -> {"NONE", "RUNNING", "STOPPED", "LOST"}]
        /\ \A j \in Instance : state[j] # "NONE" => state'[j] # "NONE"
    BY <1>11, <1>0, Marking DEF SweepMarks
  <2>2. instanceId # 0 => state'[instanceId] # "NONE"
    BY <1>0, <2>1 DEF CopiesTypes, Known
  <2> QED BY <1>11, <1>0, <2>1, <2>2, LoopsGoOn DEF SweepMarks, CopiesTypes
<1> QED BY <1>1, <1>2, <1>3, <1>4, <1>5, <1>6, <1>7, <1>8, <1>9, <1>10, <1>11 DEF CopiesNext

LEMMA CopiesInvHolds == CopiesSpec => []CopiesInv
<1> QED BY InitCopies, StepCopies, PTL DEF CopiesSpec

(* The instances' records, and what the copy and each of its loops hold of *)
(* them, are of the right types, and no loop asks with an ID that is not   *)
(* recorded: service-wrapper.ts, registry.ts, at every step, whatever is   *)
(* let go, lost or recorded without an answer.                             *)
THEOREM CopiesTyping == CopiesSpec => []CopiesTypeOK
<1>1. CopiesInv => CopiesTypeOK
  BY DEF CopiesInv, CopiesTypes, RecordedIds, Recorded, CopiesTypeOK, Uses, Known
<1> QED BY <1>1, CopiesInvHolds, PTL
=============================================================================
