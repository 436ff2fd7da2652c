----------------------------- MODULE MCWorkLive -----------------------------
(***************************************************************************)
(* Two small instances of CapabilityWork, for TLC in one run, of what must *)
(* come right in the end.  A behaviour is of one of them:                  *)
(*   in order    one command to two services in order, with a copy each,   *)
(*               whose reports, silences and refusals may all overlap;     *)
(*   two copies  two commands to the first service, one of whose two       *)
(*               copies may stop: work is left unanswered, put off,        *)
(*               accepted or refused, and jobs end or never do.            *)
(* No restriction stands in the way of a step that fairness demands.       *)
(***************************************************************************)
EXTENDS MCCapabilityWork

CONSTANTS c1, c2

VARIABLE part

workVars == <<part, vars>>

MCEitherWay == {InOrder, Only}

AsksFor(c, request) ==
  runs[c].pc # "idle" => commands[c].services = request.services

(* Nobody defers, and the first service has one copy. *)
OneInOrder ==
  /\ AsksFor(c1, InOrder) /\ runs[c2].pc = "idle"
  /\ instances[iA] = "READY"
  /\ \A e \in Executions : executions[e].instanceId # iB /\ ~executions[e].deferred

(* Work once accepted is neither reported nor found silent. *)
TwoCopies ==
  /\ \A c \in Commands : AsksFor(c, Only)
  /\ runs[c1].pc = "idle" => runs[c2].pc = "idle"
  /\ instances[iA] # "UNREADY"
  /\ \A e \in Executions : executions[e].status = "RUNNING" => ~executions[e].overdue
  /\ \A t \in Threads : thread[t].pc \notin {"addAnswer", "change"}

WorkInit == part \in {"in order", "two copies"} /\ Init

WorkNext ==
  /\ part' = part /\ Next
  /\ part = "in order" => OneInOrder' /\ NoJobEnds
  /\ part = "two copies" => TwoCopies'

(* Fairness, but that in the first instance the copy left out never asks. *)
WorkFairness ==
  /\ \A t \in Threads : WF_vars(Continue(t))
  /\ \A t \in Sweeps : WF_vars(SweepLists(t))
  /\ \A c \in Commands : WF_vars(Run(c))
  /\ \A i \in {iA, iC} : WF_vars(Ask(i))
  /\ WF_vars(part = "two copies" /\ Ask(iB))

WorkSpec == WorkInit /\ [][WorkNext]_workVars /\ WorkFairness
=============================================================================
