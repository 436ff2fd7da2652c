--------------------------- MODULE CapabilityWork ---------------------------
(***************************************************************************)
(* Commands to a capability and the executions that carry them out         *)
(* (src/capabilities/work.ts).  An application's `run' creates a command   *)
(* and one execution per chosen service; running copies of the services    *)
(* (instances) take the work, answer it, report progress and a result; a   *)
(* sweep fails the executions whose service fell silent.                   *)
(*                                                                         *)
(* Every request Core serves is a thread of its own, and a thread gives    *)
(* way at each `await': one action below is one call of the store.  The    *)
(* store's calls are atomic (one SQL statement each), what happens between *)
(* two of them is not.                                                     *)
(*                                                                         *)
(* Abstracted: the content of inputs, answers, reasons and settings (a     *)
(* request that does not validate changes nothing), and the clock.  The    *)
(* one limit that runs in each state of an execution - 60 s to answer an   *)
(* offer, 90 s without progress, the deferral's own time - is the flag     *)
(* `overdue', which may rise at any moment.                                *)
(***************************************************************************)
EXTENDS Naturals, Sequences, FiniteSets

CONSTANTS
  Commands,     \* the commands applications issue
  Requests,     \* what a command may ask for: way, services in order, enough
  Services,     \* the service versions of the capability
  Instances,    \* their running copies
  ServiceOf,    \* the service version each copy runs
  Executions,   \* execution IDs, in the order they are issued
  Calls,        \* requests of services that Core serves at the same time
  Sweeps,       \* rounds of the sweep timer that may overlap
  Unsteady,     \* the copies that may stop, or become unable to work
  Defers,       \* whether services put work off to a later time
  Deadlines,    \* the commands whose caller's wait may run out before they are done
  MaxCrashes,   \* how often Core may end without warning
  NoOne         \* no instance, no service

ASSUME WorkAssumption ==
  /\ ServiceOf \in [Instances -> Services]
  /\ Executions \subseteq Nat \ {0}
  /\ Calls \cap Sweeps = {}
  /\ Unsteady \subseteq Instances
  /\ Defers \in BOOLEAN
  /\ Deadlines \subseteq Commands
  /\ MaxCrashes \in Nat
  /\ NoOne \notin Instances \cup Services \cup Commands
  /\ Requests \subseteq [way : {"bound", "dynamic", "consensus"},
                         services : Seq(Services), enough : Nat]

VARIABLES
  commands,     \* the command rows: status and payload
  runs,         \* how far each command's `run' has come
  results,      \* the commands whose one result is recorded
  executions,   \* the execution rows
  answers,      \* the executions an answer is stored for
  instances,    \* the instance rows, as `able' and `ownInstance' read them
  holding,      \* the accepted work each copy has in hand
  thread,       \* the requests and sweep rounds being served
  crashes,      \* times Core ended without warning
  early,        \* history: commands an execution of which finished before `run'
                \* had set them RUNNING
  outrun        \* history: those of which one finished before `run' had added
                \* them all (no action reads either)

vars == <<commands, runs, results, executions, answers, instances, holding,
          thread, crashes, early, outrun>>

Threads == Calls \cup Sweeps
Finished == {"SUCCESS", "FAILED", "CANCELLED"}

WorkExecution ==
  [status : {"NONE", "PENDING", "WAITING", "RUNNING"} \cup Finished,
   commandId : Commands \cup {NoOne}, serviceVersionId : Services \cup {NoOne},
   instanceId : Instances \cup {NoOne}, deferred : BOOLEAN, overdue : BOOLEAN]

NoExecution ==
  [status |-> "NONE", commandId |-> NoOne, serviceVersionId |-> NoOne,
   instanceId |-> NoOne, deferred |-> FALSE, overdue |-> FALSE]

Idle == [pc |-> "idle", execution |-> 0, status |-> "NONE", next |-> NoOne,
         seen |-> FALSE, todo |-> {}]

Init ==
  /\ commands = [c \in Commands |-> [status |-> "NONE", way |-> "bound",
                                     services |-> <<>>, enough |-> 0]]
  /\ runs = [c \in Commands |-> [pc |-> "idle", toAdd |-> {},
                                 entries |-> [e \in Executions |-> "NONE"]]]
  /\ results = {}
  /\ executions = [e \in Executions |-> NoExecution]
  /\ answers = {}
  /\ instances = [i \in Instances |-> "READY"]
  /\ holding = [i \in Instances |-> {}]
  /\ thread = [t \in Threads |-> Idle]
  /\ crashes = 0
  /\ early = {}
  /\ outrun = {}

-----------------------------------------------------------------------------
(* The store: rows of executions, each operation one statement.            *)

Of(c) == {e \in Executions : executions[e].commandId = c}

AllFinished(c) == \A e \in Of(c) : executions[e].status \in Finished

Succeeded(c) == {e \in Of(c) : executions[e].status = "SUCCESS"}

(* Fault: whoever was offered the work may answer for it. *)
ExpectedOfAnyCopy(e, status, i) == executions[e].status = status

(* What `change' expects of the row before it changes it. *)
Expected(e, status, i) ==
  executions[e].status = status /\ executions[e].instanceId = i

Put(e, status) ==
  [executions EXCEPT ![e] = [@ EXCEPT !.status = status, !.overdue = FALSE]]

Inserted(e, c, s) ==
  [executions EXCEPT ![e] = [NoExecution EXCEPT !.status = "PENDING",
                               !.commandId = c, !.serviceVersionId = s]]

(* IDs are issued in order. *)
NextID(e) ==
  /\ executions[e].status = "NONE"
  /\ \A d \in Executions : d < e => executions[d].status # "NONE"

(* Fault: work whose copy fell silent is offered again. *)
ClaimableWhileRunning(e, s) ==
  /\ executions[e].serviceVersionId = s
  /\ \/ executions[e].status = "PENDING" /\ ~executions[e].deferred
     \/ executions[e].status \in {"PENDING", "WAITING", "RUNNING"} /\ executions[e].overdue

(* Fault: an offer a copy left unanswered is not made again. *)
ClaimableOnce(e, s) ==
  /\ executions[e].serviceVersionId = s
  /\ executions[e].status = "PENDING"
  /\ executions[e].deferred => executions[e].overdue

(* Work the claim statement may offer for a service: waiting and not put   *)
(* off to a later time, or offered to a copy that has not answered in time *)
Claimable(e, s) ==
  /\ executions[e].serviceVersionId = s
  /\ \/ /\ executions[e].status = "PENDING"
        /\ executions[e].deferred => executions[e].overdue
     \/ executions[e].status = "WAITING" /\ executions[e].overdue

(* Put off to a later time, whether or not that time has come. *)
PutOff(e) == executions[e].status = "PENDING" /\ executions[e].deferred

-----------------------------------------------------------------------------
(* Running copies and which of them a command can count on.                *)

(* `ownInstance': the row must be RUNNING.  An UNREADY copy's is, but it    *)
(* has not checked in lately or its machine falls short of the service's   *)
(* needs.  LEAVING is stopped, with a request for work still being held.   *)
Own(i) == instances[i] \in {"READY", "UNREADY"}

Able(s) == \E i \in Instances : ServiceOf[i] = s /\ instances[i] = "READY"

(* The one of S that comes first in the order asked for. *)
FirstOf(order, S, s) ==
  /\ s \in S
  /\ \E n \in DOMAIN order : /\ order[n] = s
                             /\ \A m \in DOMAIN order : m < n => order[m] \notin S

Named(order) == {order[n] : n \in DOMAIN order}

(* `plan': of the services a command may use, those that can run now. *)
Ready(order) == {s \in Named(order) : Able(s)}

-----------------------------------------------------------------------------
(* `run': one command, from its creation to its one result.                *)

(* Can, should, and the command row.  Refused when no service is ready.    *)
CreateCommand(c, request) ==
  LET ready  == Ready(request.services)
      chosen == IF request.way = "consensus" THEN ready
                ELSE {s \in ready : FirstOf(request.services, ready, s)}
  IN  /\ runs[c].pc = "idle"
      /\ chosen # {}
      /\ request.enough <= Cardinality(chosen)
      /\ commands' = [commands EXCEPT ![c] =
                        [status |-> "PENDING", way |-> request.way,
                         services |-> request.services, enough |-> request.enough]]
      /\ runs' = [runs EXCEPT ![c].pc = "adding", ![c].toAdd = chosen]
      /\ UNCHANGED <<results, executions, answers, instances, holding, thread,
                     crashes, early, outrun>>

FinishedEarly(c) ==
  runs[c].pc = "adding" /\ \E e \in Of(c) : executions[e].status \in Finished

RunAdds(c) ==
  /\ runs[c].pc = "adding"
  /\ \E s \in runs[c].toAdd, e \in Executions :
       /\ FirstOf(commands[c].services, runs[c].toAdd, s)
       /\ NextID(e)
       /\ executions' = Inserted(e, c, s)
       /\ runs' = [runs EXCEPT ![c].toAdd = @ \ {s}]
  /\ outrun' = IF FinishedEarly(c) THEN outrun \cup {c} ELSE outrun
  /\ UNCHANGED <<commands, results, answers, instances, holding, thread,
                 crashes, early>>

(* updateCommandStatus RUNNING: written whatever the status is by then. *)
RunStarts(c) ==
  /\ runs[c].pc = "adding" /\ runs[c].toAdd = {}
  /\ commands' = [commands EXCEPT ![c].status = "RUNNING"]
  /\ early' = IF FinishedEarly(c) THEN early \cup {c} ELSE early
  /\ runs' = [runs EXCEPT ![c].pc = "waiting"]
  /\ UNCHANGED <<results, executions, answers, instances, holding,
                 thread, crashes, outrun>>

(* Fault: the wait has no deadline. *)
RunReadsWhenDone(c) ==
  /\ runs[c].pc = "waiting"
  /\ commands[c].status \in Finished
  /\ runs' = [runs EXCEPT ![c].pc = "read", ![c].entries =
                [e \in Executions |-> IF e \in Of(c) THEN executions[e].status
                                      ELSE "NONE"]]
  /\ UNCHANGED <<commands, results, executions, answers, instances, holding,
                 thread, crashes, early, outrun>>

(* The wait ends when the command's status is finished or at the deadline, *)
(* which may come at once (waitSeconds 0): then the entries are read.      *)
RunReads(c) ==
  /\ runs[c].pc = "waiting"
  /\ commands[c].status \in Finished \/ c \in Deadlines
  /\ runs' = [runs EXCEPT ![c].pc = "read", ![c].entries =
                [e \in Executions |-> IF e \in Of(c) THEN executions[e].status
                                      ELSE "NONE"]]
  /\ UNCHANGED <<commands, results, executions, answers, instances, holding,
                 thread, crashes, early, outrun>>

RunRecords(c) ==
  /\ runs[c].pc = "read"
  /\ results' = results \cup {c}
  /\ runs' = [runs EXCEPT ![c].pc = "done"]
  /\ UNCHANGED <<commands, executions, answers, instances, holding, thread,
                 crashes, early, outrun>>

Run(c) == RunAdds(c) \/ RunStarts(c) \/ RunReads(c) \/ RunRecords(c)

-----------------------------------------------------------------------------
(* Taking and answering work.                                              *)

(* A copy asks for work again and again.  Each time counts as checking in  *)
(* and says what its machine has now.                                      *)
CheckIn(i) ==
  /\ instances[i] = "UNREADY"
  /\ instances' = [instances EXCEPT ![i] = "READY"]
  /\ UNCHANGED <<commands, runs, results, executions, answers, holding,
                 thread, crashes, early, outrun>>

(* The claim, made at once and on every change while the request is held:  *)
(* the oldest execution waiting for the service.  Whose request it is was  *)
(* checked when it came, so a copy that stopped since is offered work too. *)
Offer(i) ==
  /\ instances[i] # "STOPPED"
  /\ \E e \in Executions :
       /\ Claimable(e, ServiceOf[i])
       /\ \A d \in Executions : d < e => ~Claimable(d, ServiceOf[i])
       /\ executions' = [executions EXCEPT ![e] =
                          [@ EXCEPT !.status = "WAITING", !.instanceId = i,
                                    !.deferred = FALSE, !.overdue = FALSE]]
  /\ instances' = IF instances[i] = "LEAVING"
                  THEN [instances EXCEPT ![i] = "STOPPED"] ELSE instances
  /\ UNCHANGED <<commands, runs, results, answers, holding, thread, crashes,
                 early, outrun>>

(* Accept.  A copy the reply does not reach goes no further (the wrapper   *)
(* gives up), as does one that crashes at its work.                        *)
Accept(i, e) ==
  /\ Own(i) /\ Expected(e, "WAITING", i)
  /\ executions' = Put(e, "RUNNING")
  /\ holding' = [holding EXCEPT ![i] = @ \cup {e}]
  /\ UNCHANGED <<commands, runs, results, answers, instances, thread, crashes,
                 early, outrun>>

(* Decline, or unavailable: the execution has failed and is followed up. *)
NotNow(t, i, e) ==
  /\ thread[t] = Idle
  /\ Own(i) /\ Expected(e, "WAITING", i)
  /\ executions' = Put(e, "FAILED")
  /\ thread' = [thread EXCEPT ![t] =
                 [@ EXCEPT !.pc = "afterFinish", !.execution = e]]
  /\ UNCHANGED <<commands, runs, results, answers, instances, holding,
                 crashes, early, outrun>>

(* Defer: waiting again, for a later time; the next service is tried. *)
Defer(t, i, e) ==
  /\ Defers
  /\ thread[t] = Idle
  /\ Own(i) /\ Expected(e, "WAITING", i)
  /\ executions' = [executions EXCEPT ![e] =
                     [@ EXCEPT !.status = "PENDING", !.deferred = TRUE,
                               !.overdue = FALSE]]
  /\ thread' = [thread EXCEPT ![t] =
                 [@ EXCEPT !.pc = "passOnDeferred", !.execution = e]]
  /\ UNCHANGED <<commands, runs, results, answers, instances, holding,
                 crashes, early, outrun>>

(* Word of work it accepted may still reach Core after the copy has given   *)
(* the job up, so nothing is asked here of what it has in hand.            *)
Progress(i, e) ==
  /\ Own(i) /\ Expected(e, "RUNNING", i)
  /\ executions' = Put(e, "RUNNING")
  /\ UNCHANGED <<commands, runs, results, answers, instances, holding, thread,
                 crashes, early, outrun>>

(* The job is over for the copy's loop: its handler returned and its calls  *)
(* were answered or given up, whatever became of the row - or it crashed.  *)
JobEnds(i, e) ==
  /\ e \in holding[i]
  /\ holding' = [holding EXCEPT ![i] = @ \ {e}]
  /\ UNCHANGED <<commands, runs, results, executions, answers, instances,
                 thread, crashes, early, outrun>>

-----------------------------------------------------------------------------
(* A report: checked first, then the answer stored, then the row changed.  *)
(* The wrapper sends a second report (FAILED) when the reply to the first  *)
(* does not come, so two reports of one execution may be served at once.   *)

(* Fault: the row is changed first, and the answer with it is lost when    *)
(* the request ends there.                                                 *)
ReportWithoutAnswer(t, i, e, status) ==
  /\ thread[t] = Idle
  /\ Own(i) /\ Expected(e, "RUNNING", i)
  /\ thread' = [thread EXCEPT ![t] =
                 [@ EXCEPT !.pc = "change", !.execution = e, !.status = status]]
  /\ UNCHANGED <<commands, runs, results, executions, answers, instances,
                 holding, crashes, early, outrun>>

Report(t, i, e, status) ==
  /\ thread[t] = Idle
  /\ Own(i) /\ Expected(e, "RUNNING", i)
  /\ thread' = [thread EXCEPT ![t] =
                 [@ EXCEPT !.pc = IF status = "SUCCESS" THEN "addAnswer"
                                  ELSE "change",
                           !.execution = e, !.status = status]]
  /\ UNCHANGED <<commands, runs, results, executions, answers, instances,
                 holding, crashes, early, outrun>>

AddAnswer(t) ==
  /\ thread[t].pc = "addAnswer"
  /\ answers' = answers \cup {thread[t].execution}
  /\ thread' = [thread EXCEPT ![t].pc = "change"]
  /\ UNCHANGED <<commands, runs, results, executions, instances, holding,
                 crashes, early, outrun>>

(* Fault: the row is changed whatever became of it since the check. *)
ChangeReportedBlindly(t) ==
  /\ thread[t].pc = "change"
  /\ executions' = Put(thread[t].execution, thread[t].status)
  /\ thread' = [thread EXCEPT ![t] =
                 [@ EXCEPT !.pc = "afterFinish", !.status = "NONE"]]
  /\ UNCHANGED <<commands, runs, results, answers, instances, holding,
                 crashes, early, outrun>>

(* Whether the row changed is not looked at: what follows is the same.  (A *)
(* RUNNING row keeps its instance, so the caller's is the one expected.)   *)
ChangeReported(t) ==
  LET e == thread[t].execution
  IN  /\ thread[t].pc = "change"
      /\ executions' = IF Expected(e, "RUNNING", executions[e].instanceId)
                       THEN Put(e, thread[t].status) ELSE executions
      /\ thread' = [thread EXCEPT ![t] =
                     [@ EXCEPT !.pc = "afterFinish", !.status = "NONE"]]
      /\ UNCHANGED <<commands, runs, results, answers, instances, holding,
                     crashes, early, outrun>>

-----------------------------------------------------------------------------
(* markSilent: the RUNNING rows are listed once, those without word for 90 *)
(* s noted, and each is then changed if it is still RUNNING.               *)

SweepLists(t) ==
  LET silent == {e \in Executions : executions[e].status = "RUNNING"
                                    /\ executions[e].overdue}
  IN  /\ thread[t] = Idle
      /\ silent # {}
      /\ thread' = [thread EXCEPT ![t] = [@ EXCEPT !.pc = "sweep", !.todo = silent]]
      /\ UNCHANGED <<commands, runs, results, executions, answers, instances,
                     holding, crashes, early, outrun>>

(* A thread that has done with its execution: a sweep goes on to the next. *)
After(todo) ==
  IF todo = {} THEN Idle ELSE [Idle EXCEPT !.pc = "sweep", !.todo = todo]

(* Fault: an execution once listed as silent is failed, whatever it did since. *)
SweepMarksBlindly(t) ==
  /\ thread[t].pc = "sweep"
  /\ \E e \in thread[t].todo :
       /\ executions' = Put(e, "FAILED")
       /\ thread' = [thread EXCEPT ![t] =
                      [@ EXCEPT !.pc = "afterFinish", !.execution = e,
                                !.todo = @ \ {e}]]
  /\ UNCHANGED <<commands, runs, results, answers, instances, holding,
                 crashes, early, outrun>>

(* Fault: the sweep expects the row to be waiting for an answer still. *)
SweepMarksNothing(t) ==
  /\ thread[t].pc = "sweep"
  /\ \E e \in thread[t].todo :
       /\ ~Expected(e, "WAITING", executions[e].instanceId)
       /\ thread' = [thread EXCEPT ![t] = After(thread[t].todo \ {e})]
  /\ UNCHANGED <<commands, runs, results, executions, answers, instances,
                 holding, crashes, early, outrun>>

SweepMarks(t) ==
  /\ thread[t].pc = "sweep"
  /\ \E e \in thread[t].todo :
       /\ \A d \in thread[t].todo : e <= d
       /\ LET rest == thread[t].todo \ {e}
          IN  IF Expected(e, "RUNNING", executions[e].instanceId)
              THEN /\ executions' = Put(e, "FAILED")
                   /\ thread' = [thread EXCEPT ![t] =
                                  [@ EXCEPT !.pc = "afterFinish", !.execution = e,
                                            !.todo = rest]]
              ELSE /\ thread' = [thread EXCEPT ![t] = After(rest)]
                   /\ UNCHANGED executions
  /\ UNCHANGED <<commands, runs, results, answers, instances, holding,
                 crashes, early, outrun>>

-----------------------------------------------------------------------------
(* afterFinish and passOn, on behalf of an answer, a report or the sweep.  *)

CommandOf(t) == executions[thread[t].execution].commandId

(* The command is read: its payload, and whether it is finished already. *)
AfterFinish(t) ==
  LET e == thread[t].execution
      c == CommandOf(t)
  IN  /\ thread[t].pc = "afterFinish"
      /\ thread' = [thread EXCEPT ![t] =
                     [@ EXCEPT !.pc = IF commands[c].way # "dynamic" THEN "settle"
                                      ELSE IF executions[e].status = "SUCCESS"
                                      THEN "cancel" ELSE "passOn",
                               !.seen = commands[c].status \in Finished]]
      /\ UNCHANGED <<commands, runs, results, executions, answers, instances,
                     holding, crashes, early, outrun>>

CancelPending(t) ==
  LET c == CommandOf(t)
  IN  /\ thread[t].pc = "cancel"
      /\ executions' = [e \in Executions |->
           IF e \in Of(c) /\ executions[e].status = "PENDING"
           THEN [executions[e] EXCEPT !.status = "CANCELLED",
                                      !.deferred = FALSE, !.overdue = FALSE]
           ELSE executions[e]]
      /\ thread' = [thread EXCEPT ![t].pc = "settle"]
      /\ UNCHANGED <<commands, runs, results, answers, instances, holding,
                     crashes, early, outrun>>

(* Being worked on, or waiting to be offered now, or done. *)
Active(e) ==
  \/ executions[e].status \in {"SUCCESS", "WAITING", "RUNNING"}
  \/ executions[e].status = "PENDING" /\ ~executions[e].deferred

(* Fault: the command counts as passed on though no service was left. *)
PassOnSaysPassed(t) ==
  LET c       == CommandOf(t)
      tried   == {executions[e].serviceVersionId : e \in Of(c)}
      untried == {s \in Services \ tried : s \in Named(commands[c].services) /\ Able(s)}
  IN  /\ thread[t].pc \in {"passOn", "passOnDeferred"}
      /\ thread' = IF /\ \A e \in Of(c) : ~Active(e)
                      /\ commands[c].way = "dynamic" /\ untried # {}
                   THEN [thread EXCEPT ![t] =
                          [@ EXCEPT !.pc = "addExecution",
                                    !.next = CHOOSE s \in untried :
                                      FirstOf(commands[c].services, untried, s)]]
                   ELSE [thread EXCEPT ![t] = After(thread[t].todo)]
      /\ UNCHANGED <<commands, runs, results, executions, answers, instances,
                     holding, crashes, early, outrun>>

(* The executions are listed, and the next service that is able is sought. *)
PassOn(t) ==
  LET c       == CommandOf(t)
      tried   == {executions[e].serviceVersionId : e \in Of(c)}
      untried == {s \in Services \ tried : s \in Named(commands[c].services) /\ Able(s)}
  IN  /\ thread[t].pc \in {"passOn", "passOnDeferred"}
      /\ \/ /\ commands[c].way = "dynamic"
            /\ \A e \in Of(c) : ~Active(e)
            /\ \E s \in untried :
                 /\ FirstOf(commands[c].services, untried, s)
                 /\ thread' = [thread EXCEPT ![t] =
                                [@ EXCEPT !.pc = "addExecution", !.next = s]]
         \/ /\ \/ commands[c].way # "dynamic"
               \/ \E e \in Of(c) : Active(e)
               \/ untried = {}
            /\ thread' = IF thread[t].pc = "passOn"
                         THEN [thread EXCEPT ![t].pc = "settle"]
                         ELSE [thread EXCEPT ![t] = After(thread[t].todo)]
      /\ UNCHANGED <<commands, runs, results, executions, answers, instances,
                     holding, crashes, early, outrun>>

AddExecution(t) ==
  /\ thread[t].pc = "addExecution"
  /\ \E e \in Executions :
       /\ NextID(e)
       /\ executions' = Inserted(e, CommandOf(t), thread[t].next)
  /\ thread' = [thread EXCEPT ![t] = After(thread[t].todo)]
  /\ UNCHANGED <<commands, runs, results, answers, instances, holding,
                 crashes, early, outrun>>

(* Fault: enough counts the executions that finished, however they did. *)
SettledByFinished(c, seen) ==
  IF /\ commands[c].enough > 0
     /\ Cardinality({e \in Of(c) : executions[e].status \in Finished})
          >= commands[c].enough
     /\ ~seen
  THEN "SUCCESS"
  ELSE IF ~AllFinished(c) THEN "NONE"
  ELSE IF Succeeded(c) # {} THEN "SUCCESS" ELSE "FAILED"

(* Fault: the command's status is written though work goes on. *)
SettledUnfinished(c, seen) ==
  IF ~AllFinished(c) THEN "RUNNING"
  ELSE IF Succeeded(c) # {} THEN "SUCCESS" ELSE "FAILED"

(* Fault: a command nobody succeeded at is left as it is. *)
SettledBySuccess(c, seen) ==
  IF Succeeded(c) # {} /\ AllFinished(c) THEN "SUCCESS" ELSE "NONE"

(* The executions are listed again: enough have succeeded, or all have finished. *)
Settled(c, seen) ==
  IF /\ commands[c].enough > 0
     /\ Cardinality(Succeeded(c)) >= commands[c].enough
     /\ ~seen
  THEN "SUCCESS"
  ELSE IF ~AllFinished(c) THEN "NONE"
  ELSE IF Succeeded(c) # {} THEN "SUCCESS" ELSE "FAILED"

Settle(t) ==
  LET status == Settled(CommandOf(t), thread[t].seen)
  IN  /\ thread[t].pc = "settle"
      /\ thread' = IF status = "NONE"
                   THEN [thread EXCEPT ![t] = After(thread[t].todo)]
                   ELSE [thread EXCEPT ![t] =
                          [@ EXCEPT !.pc = "write", !.status = status]]
      /\ UNCHANGED <<commands, runs, results, executions, answers, instances,
                     holding, crashes, early, outrun>>

WriteStatus(t) ==
  /\ thread[t].pc = "write"
  /\ commands' = [commands EXCEPT ![CommandOf(t)].status = thread[t].status]
  /\ thread' = [thread EXCEPT ![t] = After(thread[t].todo)]
  /\ UNCHANGED <<runs, results, executions, answers, instances, holding,
                 crashes, early, outrun>>

Continue(t) ==
  \/ AddAnswer(t) \/ ChangeReported(t) \/ SweepMarks(t)
  \/ AfterFinish(t) \/ CancelPending(t) \/ PassOn(t) \/ AddExecution(t)
  \/ Settle(t) \/ WriteStatus(t)

-----------------------------------------------------------------------------
(* The surroundings.                                                       *)

(* The limit of the execution's present state passes: a deferral's time    *)
(* comes, an offer goes stale, a service has said nothing for 90 s.        *)
Elapse(e) ==
  /\ ~executions[e].overdue
  /\ executions[e].status \in {"WAITING", "RUNNING"} \/ PutOff(e)
  /\ executions' = [executions EXCEPT ![e].overdue = TRUE]
  /\ UNCHANGED <<commands, runs, results, answers, instances, holding, thread,
                 crashes, early, outrun>>

(* A copy becomes unready (no check-in for 150 s, or too little memory);   *)
(* it is stopped, or marked lost; the request it left behind runs out.     *)
InstanceChanges(i) ==
  /\ i \in Unsteady
  /\ \/ /\ instances[i] = "READY"
        /\ instances' = [instances EXCEPT ![i] = "UNREADY"]
     \/ /\ Own(i)
        /\ \E now \in {"LEAVING", "STOPPED"} : instances' = [instances EXCEPT ![i] = now]
     \/ /\ instances[i] = "LEAVING"
        /\ instances' = [instances EXCEPT ![i] = "STOPPED"]
  /\ UNCHANGED <<commands, runs, results, executions, answers, holding,
                 thread, crashes, early, outrun>>

(* Core ends without warning and starts again: the rows remain, every      *)
(* request it was serving is gone.                                         *)
Crash ==
  /\ crashes < MaxCrashes
  /\ crashes' = crashes + 1
  /\ thread' = [t \in Threads |-> Idle]
  /\ runs' = [c \in Commands |-> IF runs[c].pc = "idle" THEN runs[c]
                                 ELSE [runs[c] EXCEPT !.pc = "done", !.toAdd = {}]]
  /\ instances' = [i \in Instances |-> IF instances[i] = "LEAVING" THEN "STOPPED"
                                       ELSE instances[i]]
  /\ early' = early \cup {c \in Commands : FinishedEarly(c)}
  /\ UNCHANGED <<commands, results, executions, answers, holding, outrun>>

Next ==
  \/ \E c \in Commands, request \in Requests : CreateCommand(c, request)
  \/ \E c \in Commands : Run(c)
  \/ \E i \in Instances : CheckIn(i) \/ Offer(i) \/ InstanceChanges(i)
  \/ \E i \in Instances, e \in Executions :
       Accept(i, e) \/ Progress(i, e) \/ JobEnds(i, e)
  \/ \E t \in Calls, i \in Instances, e \in Executions :
       \/ NotNow(t, i, e)
       \/ Defer(t, i, e)
       \/ \E status \in {"SUCCESS", "FAILED"} : Report(t, i, e, status)
  \/ \E t \in Sweeps : SweepLists(t)
  \/ \E t \in Threads : Continue(t)
  \/ \E e \in Executions : Elapse(e)
  \/ Crash

Spec == Init /\ [][Next]_vars

(* A copy with no job in hand asks for work again and again                *)
(* (ServiceWrapper.loop).  Nothing says that its handler ever returns, so a *)
(* job may keep its loop for ever.                                         *)
Ask(i) == holding[i] = {} /\ Offer(i)

(* What runs without anyone's help: the requests Core is serving, its sweep *)
(* timer, and `run' up to its deadline; and the copies' loops.              *)
Fairness ==
  /\ \A t \in Threads : WF_vars(Continue(t))
  /\ \A t \in Sweeps : WF_vars(SweepLists(t))
  /\ \A c \in Commands : WF_vars(Run(c))
  /\ \A i \in Instances : WF_vars(Ask(i))

LiveSpec == Spec /\ Fairness

-----------------------------------------------------------------------------
(* Properties.                                                             *)

CommandRow ==
  [status : {"NONE", "PENDING", "RUNNING", "SUCCESS", "FAILED"},
   way : {"bound", "dynamic", "consensus"}, services : Seq(Services), enough : Nat]

Entries ==
  [Executions -> {"NONE", "PENDING", "WAITING", "RUNNING"} \cup Finished]

RunState ==
  [pc : {"idle", "adding", "waiting", "read", "done"},
   toAdd : SUBSET Services, entries : Entries]

ThreadState ==
  [pc : {"idle", "addAnswer", "change", "sweep", "afterFinish", "cancel", "passOn",
         "passOnDeferred", "addExecution", "settle", "write"},
   execution : Executions \cup {0},
   status : {"NONE", "SUCCESS", "FAILED"},
   next : Services \cup {NoOne},
   seen : BOOLEAN,
   todo : SUBSET Executions]

(* The rows, the threads and the counters keep their types. *)
TypeOK ==
  /\ commands \in [Commands -> CommandRow]
  /\ runs \in [Commands -> RunState]
  /\ results \subseteq Commands
  /\ executions \in [Executions -> WorkExecution]
  /\ answers \subseteq Executions
  /\ instances \in [Instances -> {"READY", "UNREADY", "LEAVING", "STOPPED"}]
  /\ holding \in [Instances -> SUBSET Executions]
  /\ thread \in [Threads -> ThreadState]
  /\ crashes \in 0..MaxCrashes
  /\ early \subseteq Commands
  /\ outrun \subseteq Commands

(* An execution that says SUCCESS has its answer stored, so a caller who   *)
(* reads its entry finds one: report stores the answer before it changes   *)
(* the row, and no overlapping report or sweep can split the two.          *)
SuccessHasAnswer ==
  \A e \in Executions : executions[e].status = "SUCCESS" => e \in answers

(* The copy that was told the work is its own and has it in hand is the    *)
(* one the row names, and the row is never offered again: however late an  *)
(* accept arrives and whoever was offered the work meanwhile, two copies   *)
(* never both work.                                                        *)
HeldByOne ==
  \A i \in Instances : \A e \in holding[i] :
    executions[e].instanceId = i /\ executions[e].status \in {"RUNNING"} \cup Finished

(* A finished execution is never changed again, by a second report, by the *)
(* sweep, by a success elsewhere in the command or by a late answer.       *)
FinishedIsFinal ==
  [][\A e \in Executions : executions[e].status \in Finished
       => executions'[e] = executions[e]]_vars

(* What a command's one result says of a finished execution is what that   *)
(* execution's row says for good, though the result is never written again *)
(* while work goes on; a result counts only executions of the command.     *)
ResultIsTrue ==
  \A c \in results, e \in Executions :
    runs[c].entries[e] \in Finished
      => /\ executions[e].status = runs[c].entries[e]
         /\ executions[e].commandId = c
         /\ executions[e].status = "SUCCESS" => e \in answers

(* A command says SUCCESS only when an execution of it succeeded.  Where   *)
(* one or all services are asked, moreover, as many succeeded as the       *)
(* caller said are enough, or all have finished and nothing is left to     *)
(* wait for - unless one finished before run had added them all: then a    *)
(* SUCCESS decided on a list without the later ones may still be written,  *)
(* even after RUNNING, while those are open.  The lists it was decided on  *)
(* may be old by the time it is written.                                   *)
SuccessIsEarned ==
  \A c \in Commands : commands[c].status = "SUCCESS" =>
    /\ Succeeded(c) # {}
    /\ commands[c].way # "dynamic" /\ c \notin outrun =>
         \/ AllFinished(c)
         \/ commands[c].enough \in 1..Cardinality(Succeeded(c))

(* No request is still at work on an execution of the command. *)
Quiet(c) ==
  \A t \in Threads : thread[t] # Idle =>
    thread[t].execution \notin Of(c) /\ thread[t].todo \cap Of(c) = {}

(* Its run has set it going and nothing is left to be done for it. *)
Exhausted(c) == runs[c].pc \in {"waiting", "read", "done"} /\ AllFinished(c) /\ Quiet(c)

(* "When every execution has finished, the command's status says so"       *)
(* (afterFinish), however the last ones overlap - as long as Core does not *)
(* crash, and no service finished before run had written RUNNING.          *)
FinishIsNoticed ==
  \A c \in Commands :
    Exhausted(c) /\ crashes = 0 /\ c \notin early
      => commands[c].status \in Finished

(* The same, with services however quick: violated, as run writes RUNNING  *)
(* over whatever status the executions have given the command by then.     *)
FinishIsAlwaysNoticed ==
  \A c \in Commands :
    Exhausted(c) /\ crashes = 0 => commands[c].status \in Finished

(* Under a list in order the command passes on only "when nothing is being *)
(* worked on or waiting to be offered now" (passOn): where nobody defers,  *)
(* one service at a time has the work.                                     *)
OneAtATime ==
  \A c \in Commands :
    commands[c].way = "dynamic" /\ ~Defers
      => Cardinality({e \in Of(c) : Active(e)}) <= 1

(* The mapping to WorkLease: an execution is a piece of work; WAITING, and *)
(* not yet answered, is offered, RUNNING is held.                          *)
Phase(status) ==
  CASE status = "NONE"    -> "none"
    [] status = "PENDING" -> "open"
    [] status = "WAITING" -> "offered"
    [] status = "RUNNING" -> "held"
    [] OTHER -> status

Lease == INSTANCE WorkLease WITH
  Work   <- Executions,
  Copies <- Instances,
  Nobody <- NoOne,
  phase  <- [e \in Executions |-> Phase(executions[e].status)],
  holder <- [e \in Executions |-> executions[e].instanceId],
  stored <- answers

(* The executions, under every overlap of requests, sweeps and crashes,    *)
(* keep the promise of WorkLease.                                          *)
KeepsLease == Lease!LeaseSpec

(* A command that was created gets its one result, as long as Core runs,   *)
(* whatever becomes of the work: the caller's wait ends in time.           *)
ResultComes ==
  \A c \in Deadlines : runs[c].pc = "adding" ~> c \in results

(* A service that fell silent in the middle of a job is noticed, unless it *)
(* speaks again: the execution does not stay RUNNING for ever.             *)
SilenceIsNoticed ==
  \A e \in Executions :
    executions[e].status = "RUNNING" /\ executions[e].overdue
      ~> ~(executions[e].status = "RUNNING" /\ executions[e].overdue)

(* A copy that is told of work may never answer (its accept is lost, it    *)
(* ended), or may put the work off.  Once the 60 s or the deferral's time  *)
(* are over, the work is offered again, by the copies of the service that  *)
(* go on asking - unless an older execution comes first, or for good each  *)
(* copy is stopped or kept by a job that does not end.                     *)
Ripe(e) ==
  executions[e].overdue /\ (executions[e].status = "WAITING" \/ PutOff(e))

Taken(s) ==
  \A i \in Instances : ServiceOf[i] = s => instances[i] = "STOPPED" \/ holding[i] # {}

ComesFirst(d, e) == d < e /\ Claimable(d, executions[e].serviceVersionId)

RipeIsOffered ==
  \A e \in Executions :
    Ripe(e) ~> \/ ~Ripe(e)
               \/ \E d \in Executions : ComesFirst(d, e)
               \/ []Taken(executions[e].serviceVersionId)

(* A command whose executions have all finished is passed on to another    *)
(* service or gets a finished status, whoever finished last and whatever   *)
(* overlaps: the caller's wait ends by it.                                 *)
FinishIsTold ==
  \A c \in Commands :
    runs[c].pc \in {"waiting", "read", "done"} /\ AllFinished(c)
      ~> commands[c].status \in Finished \/ ~AllFinished(c) \/ c \in early
=============================================================================
