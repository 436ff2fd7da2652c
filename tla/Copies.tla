-------------------------------- MODULE Copies --------------------------------
(***************************************************************************)
(* Running copies of a service and their records                           *)
(* (src/wrapper/service-wrapper.ts, src/capabilities/registry.ts,          *)
(* src/capabilities/prisma-capability-store.ts, src/host/start.ts).        *)
(*                                                                         *)
(* A copy records an instance, asks for work in several loops at once, and *)
(* checks in by asking.  The loops share the instance's ID and, while it   *)
(* is being recorded, one call; a loop that is told its instance is not    *)
(* running lets the ID go and a new one is recorded.  Core's sweep lists   *)
(* the instances that have been silent for ten minutes and then marks them *)
(* lost one by one.  A copy may be ended outright and started again.       *)
(*                                                                         *)
(* What the work is, and what becomes of it, is CapabilityWork's matter.   *)
(***************************************************************************)
EXTENDS Naturals, FiniteSets

CONSTANTS
  Loop,         \* the copy's loops, as many as its capacity
  MaxInstance,  \* bound: instances recorded
  MaxCopyStarts,\* bound: starts of the copy
  MaxOutages,   \* bound: calls that fail, or ten minutes without Core
  MaxLong       \* bound: jobs that keep all loops for ten minutes

ASSUME CopiesAssumption == {MaxInstance, MaxCopyStarts, MaxOutages, MaxLong} \subseteq Nat

VARIABLES
  state,        \* each instance's state as recorded
  silent,       \* running instances not checked in for ten minutes
  listed,       \* instances the sweep found silent and has still to mark
  copy,         \* the copy's process
  instanceId,   \* the instance its loops share, 0 if none
  registering,  \* the shared call that records one is under way
  loop,         \* what each loop is doing, and with which instance
  copyStarts, outages, long  \* how many of each so far

copyVars ==
  <<state, silent, listed, copy, instanceId, registering, loop, copyStarts, outages, long>>

Instance == 1 .. MaxInstance
Running(i) == i # 0 /\ state[i] = "RUNNING"
Doing(pc, i) == [pc |-> pc, with |-> i]
Resting == Doing("idle", 0)
Ended == [l \in Loop |-> Doing("ended", 0)]

CopiesInit ==
  /\ state = [i \in Instance |-> "NONE"]
  /\ silent = {}
  /\ listed = {}
  /\ copy = "down"
  /\ instanceId = 0
  /\ registering = FALSE
  /\ loop = Ended
  /\ copyStarts = 0
  /\ outages = 0
  /\ long = 0

Outage == outages < MaxOutages /\ outages' = outages + 1

-----------------------------------------------------------------------------
(* The copy.                                                               *)

CopyStarts ==
  /\ copy = "down"
  /\ copyStarts < MaxCopyStarts
  /\ copyStarts' = copyStarts + 1
  /\ copy' = "up"
  /\ loop' = [l \in Loop |-> Resting]
  /\ UNCHANGED <<state, silent, listed, instanceId, registering, outages, long>>

(* The next round: with the ID there is, or waiting for one to be recorded. *)
NextRound(l) ==
  /\ loop[l].pc = "idle"
  /\ IF copy = "stopping"
     THEN loop' = [loop EXCEPT ![l] = Doing("ended", 0)] /\ UNCHANGED registering
     ELSE IF instanceId # 0
     THEN loop' = [loop EXCEPT ![l] = Doing("asking", instanceId)] /\ UNCHANGED registering
     ELSE loop' = [loop EXCEPT ![l] = Doing("waiting", 0)] /\ registering' = TRUE
  /\ UNCHANGED <<state, silent, listed, copy, instanceId, copyStarts, outages, long>>

Waiting(next) == [l \in Loop |-> IF loop[l].pc = "waiting" THEN next ELSE loop[l]]

(* startInstance: an instance with an ID of its own, as all are. *)
NewInstance == CHOOSE i \in Instance : state[i] = "NONE"
CanRecord == \E i \in Instance : state[i] = "NONE"

(* Fault: the ID is given before the instance is recorded. *)
RecordsLater == UNCHANGED state

RecordsInstance == state' = [state EXCEPT ![NewInstance] = "RUNNING"]

InstanceRecorded ==
  /\ registering
  /\ CanRecord
  /\ RecordsInstance
  /\ instanceId' = NewInstance
  /\ registering' = FALSE
  /\ loop' = Waiting(Doing("asking", NewInstance))
  /\ UNCHANGED <<silent, listed, copy, copyStarts, outages, long>>

(* It fails for all that wait; the instance may have been recorded. *)
RegisterFails ==
  /\ registering
  /\ Outage
  /\ registering' = FALSE
  /\ loop' = Waiting(Resting)
  /\ UNCHANGED state \/ (CanRecord /\ RecordsInstance)
  /\ UNCHANGED <<silent, listed, copy, instanceId, copyStarts, long>>

(* Fault: a refusal leaves the loops with the instance they have. *)
LetGoNever == instanceId

(* Whichever instance the refusal is about, the shared ID is let go. *)
LetGo == 0

(* A request for work, or the answer to the work offered, reaches Core. *)
Asks(l, from, to) ==
  /\ loop[l].pc = from
  /\ IF Running(loop[l].with)
     THEN loop' = [loop EXCEPT ![l].pc = to] /\ UNCHANGED instanceId
     ELSE loop' = [loop EXCEPT ![l] = Resting] /\ instanceId' = LetGo
  /\ UNCHANGED <<state, silent, listed, copy, registering, copyStarts, outages, long>>

(* takeWork, held by Core meanwhile: it checks in, and comes back with work *)
(* or without.                                                              *)
ChecksIn(l) ==
  /\ loop[l].pc = "held"
  /\ silent' = silent \ {loop[l].with}
  /\ \E next \in {Doing("offered", loop[l].with), Resting} : loop' = [loop EXCEPT ![l] = next]
  /\ UNCHANGED <<state, listed, copy, instanceId, registering, copyStarts, outages, long>>

(* The job is done and reported; a refusal of the report is not heeded. *)
JobEnds(l) ==
  /\ loop[l].pc = "working"
  /\ loop' = [loop EXCEPT ![l] = Resting]
  /\ UNCHANGED <<state, silent, listed, copy, instanceId, registering, copyStarts, outages, long>>

CallFails(l) ==
  /\ loop[l].pc \in {"asking", "held", "offered"}
  /\ Outage
  /\ loop' = [loop EXCEPT ![l] = Resting]
  /\ UNCHANGED <<state, silent, listed, copy, instanceId, registering, copyStarts, long>>

Stops ==
  /\ copy = "up"
  /\ copy' = "stopping"
  /\ UNCHANGED <<state, silent, listed, instanceId, registering, loop, copyStarts, outages, long>>

(* stopInstance, once all loops have ended; if it fails, that is that. *)
Stopped ==
  /\ copy = "stopping"
  /\ loop = Ended
  /\ copy' = "down"
  /\ instanceId' = 0
  /\ IF Running(instanceId)
     THEN \/ /\ state' = [state EXCEPT ![instanceId] = "STOPPED"]
             /\ silent' = silent \ {instanceId}
             /\ UNCHANGED outages
          \/ Outage /\ UNCHANGED <<state, silent>>
     ELSE UNCHANGED <<state, silent, outages>>
  /\ UNCHANGED <<listed, registering, loop, copyStarts, long>>

(* Ended outright: a crash, a power cut. *)
Crashes ==
  /\ copy # "down"
  /\ copy' = "down"
  /\ instanceId' = 0
  /\ registering' = FALSE
  /\ loop' = Ended
  /\ UNCHANGED <<state, silent, listed, copyStarts, outages, long>>

-----------------------------------------------------------------------------
(* Time, and Core's sweep.                                                 *)

Uses(l, i) == loop[l].with = i
InUse(i) == copy # "down" /\ (instanceId = i \/ \E l \in Loop : Uses(l, i))

(* A loop that is not busy with a job asks again well within ten minutes. *)
AsksStill(i) ==
  \E l \in Loop : \/ Uses(l, i) /\ loop[l].pc \in {"asking", "held", "offered"}
                  \/ instanceId = i /\ loop[l].pc \in {"idle", "waiting"}

Busy(i) == \E l \in Loop : Uses(l, i) /\ loop[l].pc = "working"

(* Ten minutes pass.  Saying that a job goes on is not checking in. *)
FallsSilent(i) ==
  /\ Running(i)
  /\ i \notin silent
  /\ silent' = silent \cup {i}
  /\ IF ~InUse(i) THEN UNCHANGED <<outages, long>>
     ELSE IF Busy(i) /\ ~AsksStill(i)
     THEN long < MaxLong /\ long' = long + 1 /\ UNCHANGED outages
     ELSE Outage /\ UNCHANGED long
  /\ UNCHANGED <<state, listed, copy, instanceId, registering, loop, copyStarts>>

(* Fault: the times are compared the wrong way round. *)
DueFresh == {i \in Instance : Running(i)} \ silent

Due == {i \in silent : Running(i)}

SweepLists ==
  /\ listed = {}
  /\ Due # {}
  /\ listed' = Due
  /\ UNCHANGED <<state, silent, copy, instanceId, registering, loop, copyStarts, outages, long>>

(* markLost: whatever the instance has done since it was listed. *)
SweepMarks(i) ==
  /\ i \in listed
  /\ listed' = listed \ {i}
  /\ state' = [state EXCEPT ![i] = "LOST"]
  /\ silent' = silent \ {i}
  /\ UNCHANGED <<copy, instanceId, registering, loop, copyStarts, outages, long>>

LoopSteps(l) ==
  NextRound(l) \/ Asks(l, "asking", "held") \/ ChecksIn(l) \/ Asks(l, "offered", "working") \/ JobEnds(l)

CopiesNext ==
  \/ CopyStarts \/ InstanceRecorded \/ RegisterFails \/ Stops \/ Stopped \/ Crashes
  \/ \E l \in Loop : LoopSteps(l) \/ CallFails(l)
  \/ SweepLists
  \/ \E i \in Instance : FallsSilent(i) \/ SweepMarks(i)

SweepSteps == SweepLists \/ \E i \in Instance : SweepMarks(i)
SilenceUnused(i) == ~InUse(i) /\ FallsSilent(i)

(* A copy's loops go on, its calls are answered and its jobs end (assumed  *)
(* of the service: the wrapper has no limit); time passes; Core sweeps     *)
(* every 15 seconds.                                                       *)
CopiesFairness ==
  /\ WF_copyVars(InstanceRecorded)
  /\ \A l \in Loop : WF_copyVars(LoopSteps(l))
  /\ \A i \in Instance : WF_copyVars(SilenceUnused(i))
  /\ WF_copyVars(SweepSteps)

CopiesSpec == CopiesInit /\ [][CopiesNext]_copyVars /\ CopiesFairness

-----------------------------------------------------------------------------

(* The records and the copy are of the right types. *)
CopiesTypeOK ==
  /\ state \in [Instance -> {"NONE", "RUNNING", "STOPPED", "LOST"}]
  /\ silent \subseteq Instance /\ listed \subseteq Instance
  /\ copy \in {"up", "stopping", "down"}
  /\ instanceId \in Instance \cup {0} /\ registering \in BOOLEAN
  /\ \A l \in Loop : Uses(l, 0) \/ state[loop[l].with] # "NONE"

(* The records are made true: an instance nobody uses any more, its copy   *)
(* ended, or having let it go on a late refusal, does not stay recorded as *)
(* running.                                                                *)
UnusedIsNoticed == \A i \in Instance : []<>(Running(i) => InUse(i))

(* A copy that is up comes, again and again, to ask with an instance that  *)
(* is recorded as running, however often the one it had was marked lost.   *)
ComesBack == []<>(copy = "up" => Running(instanceId))

(* Marked lost: it was ended without saying so. *)
LostHasEnded == \A i \in Instance : state[i] = "LOST" => ~InUse(i)
=============================================================================
