------------------------ MODULE CapabilityWorkProofs ------------------------
(***************************************************************************)
(* Theorems about CapabilityWork, for any number of commands, services,    *)
(* copies, executions, overlapping requests, sweep rounds and crashes.     *)
(***************************************************************************)
EXTENDS CapabilityWork, FiniteSetTheorems, TLAPS

(* A request that is past its first read works on an execution.  One about *)
(* to change a reported row knows how it ended, and a success is about to  *)
(* be written only where the answer is stored.                             *)
ThreadOK ==
  \A t \in Threads :
    /\ thread[t].pc \notin {"idle", "sweep"} => thread[t].execution \in Executions
    /\ thread[t].pc = "addAnswer" => thread[t].status = "SUCCESS"
    /\ thread[t].pc = "change" =>
         \/ thread[t].status = "FAILED"
         \/ thread[t].status = "SUCCESS" /\ thread[t].execution \in answers

TypeInv == TypeOK /\ ThreadOK

LEMMA InitTypes == ASSUME Init PROVE TypeInv
<1>1. TypeOK
  <2>1. commands \in [Commands -> CommandRow]
    BY DEF Init, CommandRow
  <2>2. runs \in [Commands -> RunState]
    BY DEF Init, RunState, Entries
  <2>3. executions \in [Executions -> WorkExecution]
    BY DEF Init, NoExecution, WorkExecution
  <2>4. thread \in [Threads -> ThreadState]
    BY DEF Init, Idle, ThreadState
  <2>5. results \subseteq Commands /\ answers \subseteq Executions
    BY DEF Init
  <2>6. /\ instances \in [Instances -> {"READY", "UNREADY", "LEAVING", "STOPPED"}]
        /\ holding \in [Instances -> SUBSET Executions]
    BY DEF Init
  <2>7. crashes \in 0..MaxCrashes
    BY WorkAssumption DEF Init
  <2>8. early \subseteq Commands /\ outrun \subseteq Commands
    BY DEF Init
  <2> QED BY <2>1, <2>2, <2>3, <2>4, <2>5, <2>6, <2>7, <2>8 DEF TypeOK
<1>2. ThreadOK
  BY DEF Init, ThreadOK, Idle
<1> QED BY <1>1, <1>2 DEF TypeInv

(* A row that is added, or given another status, is a row. *)
LEMMA InsertedType ==
  ASSUME executions \in [Executions -> WorkExecution], NEW e \in Executions,
         NEW c \in Commands \cup {NoOne}, NEW s \in Services \cup {NoOne}
  PROVE  Inserted(e, c, s) \in [Executions -> WorkExecution]
<1>1. [NoExecution EXCEPT !.status = "PENDING", !.commandId = c,
                          !.serviceVersionId = s] \in WorkExecution
  BY DEF NoExecution, WorkExecution
<1> QED BY <1>1 DEF Inserted

LEMMA RowType ==
  ASSUME NEW row \in WorkExecution,
         NEW status \in {"PENDING", "RUNNING", "SUCCESS", "FAILED"}
  PROVE  [row EXCEPT !.status = status, !.overdue = FALSE] \in WorkExecution
BY DEF WorkExecution, Finished

LEMMA PutType ==
  ASSUME executions \in [Executions -> WorkExecution], NEW e \in Executions,
         NEW status \in {"PENDING", "RUNNING", "SUCCESS", "FAILED"}
  PROVE  Put(e, status) \in [Executions -> WorkExecution]
BY RowType DEF Put

(* What `run' does keeps the types. *)
LEMMA RunTypes ==
  ASSUME TypeInv, NEW c \in Commands,
         Run(c) \/ \E request \in Requests : CreateCommand(c, request)
  PROVE  TypeInv'
<1> USE DEF TypeInv
<1>1. ASSUME NEW request \in Requests, CreateCommand(c, request) PROVE TypeInv'
  <2>1. request \in [way : {"bound", "dynamic", "consensus"},
                     services : Seq(Services), enough : Nat]
    BY WorkAssumption
  <2>2. Named(request.services) \subseteq Services
    BY <2>1 DEF Named
  <2>3. [status |-> "PENDING", way |-> request.way,
         services |-> request.services, enough |-> request.enough] \in CommandRow
    BY <2>1 DEF CommandRow
  <2>4. PICK chosen : chosen \subseteq Services
          /\ runs' = [runs EXCEPT ![c].pc = "adding", ![c].toAdd = chosen]
    BY <1>1, <2>2 DEF CreateCommand, Ready
  <2>5. runs' \in [Commands -> RunState]
    BY <2>4 DEF TypeOK, RunState
  <2>6. TypeOK'
    BY <1>1, <2>3, <2>5 DEF CreateCommand, TypeOK
  <2>7. ThreadOK'
    BY <1>1 DEF CreateCommand, ThreadOK
  <2> QED BY <2>6, <2>7
<1>2. CASE RunAdds(c)
  <2>1. runs' \in [Commands -> RunState]
    BY <1>2 DEF RunAdds, TypeOK, RunState
  <2>2. executions' \in [Executions -> WorkExecution]
    BY <1>2, InsertedType DEF RunAdds, TypeOK, RunState
  <2> QED BY <1>2, <2>1, <2>2 DEF RunAdds, TypeOK, ThreadOK
<1>3. CASE RunStarts(c)
  <2>1. runs' \in [Commands -> RunState]
    BY <1>3 DEF RunStarts, TypeOK, RunState
  <2>2. commands' \in [Commands -> CommandRow]
    BY <1>3 DEF RunStarts, TypeOK, CommandRow
  <2> QED BY <1>3, <2>1, <2>2 DEF RunStarts, TypeOK, ThreadOK
<1>4. CASE RunReads(c)
  <2>1. [e \in Executions |-> IF e \in Of(c) THEN executions[e].status
                              ELSE "NONE"] \in Entries
    BY DEF TypeOK, Entries, WorkExecution
  <2>2. runs' \in [Commands -> RunState]
    BY <1>4, <2>1 DEF RunReads, TypeOK, RunState
  <2> QED BY <1>4, <2>2 DEF RunReads, TypeOK, ThreadOK
<1>5. CASE RunRecords(c)
  <2>1. runs' \in [Commands -> RunState]
    BY <1>5 DEF RunRecords, TypeOK, RunState
  <2> QED BY <1>5, <2>1 DEF RunRecords, TypeOK, ThreadOK
<1> QED BY <1>1, <1>2, <1>3, <1>4, <1>5 DEF Run

(* So does what copies and their requests do to the rows, *)
LEMMA CopyTypes ==
  ASSUME TypeInv, NEW i \in Instances,
         \/ CheckIn(i) \/ Offer(i) \/ InstanceChanges(i)
         \/ \E e \in Executions : Accept(i, e) \/ Progress(i, e) \/ JobEnds(i, e)
  PROVE  TypeInv'
<1> USE DEF TypeInv
<1>1. CASE CheckIn(i)
  BY <1>1 DEF CheckIn, TypeOK, ThreadOK
<1>2. CASE Offer(i)
  <2>1. \A e \in Executions :
          [executions[e] EXCEPT !.status = "WAITING", !.instanceId = i,
                                !.deferred = FALSE, !.overdue = FALSE] \in WorkExecution
    BY DEF TypeOK, WorkExecution
  <2>2. executions' \in [Executions -> WorkExecution]
    BY <1>2, <2>1 DEF Offer, TypeOK
  <2> QED BY <1>2, <2>2 DEF Offer, TypeOK, ThreadOK
<1>3. CASE InstanceChanges(i)
  BY <1>3 DEF InstanceChanges, TypeOK, ThreadOK
<1>4. ASSUME NEW e \in Executions, Accept(i, e) PROVE TypeInv'
  BY <1>4, PutType DEF Accept, TypeOK, ThreadOK
<1>5. ASSUME NEW e \in Executions, Progress(i, e) PROVE TypeInv'
  BY <1>5, PutType DEF Progress, TypeOK, ThreadOK
<1>6. ASSUME NEW e \in Executions, JobEnds(i, e) PROVE TypeInv'
  BY <1>6 DEF JobEnds, TypeOK, ThreadOK
<1> QED BY <1>1, <1>2, <1>3, <1>4, <1>5, <1>6

(* and so do the requests and sweeps that begin, *)
LEMMA BeginTypes ==
  ASSUME TypeInv, NEW t \in Threads, NEW i \in Instances, NEW e \in Executions,
         \/ NotNow(t, i, e) \/ Defer(t, i, e)
         \/ \E status \in {"SUCCESS", "FAILED"} : Report(t, i, e, status)
  PROVE  TypeInv'
<1> USE DEF TypeInv
<1>a. thread[t] \in ThreadState
  BY DEF TypeOK
<1>1. CASE NotNow(t, i, e)
  <2>1. [thread[t] EXCEPT !.pc = "afterFinish", !.execution = e] \in ThreadState
    BY <1>a DEF ThreadState
  <2>2. ThreadOK'
    BY <1>1, <1>a DEF NotNow, TypeOK, ThreadState, ThreadOK
  <2> QED BY <1>1, <2>1, <2>2, PutType DEF NotNow, TypeOK
<1>2. CASE Defer(t, i, e)
  <2>1. [thread[t] EXCEPT !.pc = "passOnDeferred", !.execution = e] \in ThreadState
    BY <1>a DEF ThreadState
  <2>2. [executions[e] EXCEPT !.status = "PENDING", !.deferred = TRUE,
                              !.overdue = FALSE] \in WorkExecution
    BY DEF TypeOK, WorkExecution
  <2>3. ThreadOK'
    BY <1>2, <1>a DEF Defer, TypeOK, ThreadState, ThreadOK
  <2> QED BY <1>2, <2>1, <2>2, <2>3 DEF Defer, TypeOK
<1>3. ASSUME NEW status \in {"SUCCESS", "FAILED"}, Report(t, i, e, status)
      PROVE  TypeInv'
  <2>1. [thread[t] EXCEPT
           !.pc = IF status = "SUCCESS" THEN "addAnswer" ELSE "change",
           !.execution = e, !.status = status] \in ThreadState
    BY <1>a DEF ThreadState
  <2>2. ThreadOK'
    BY <1>3, <1>a DEF Report, TypeOK, ThreadState, ThreadOK
  <2> QED BY <1>3, <2>1, <2>2 DEF Report, TypeOK
<1> QED BY <1>1, <1>2, <1>3

LEMMA SweepTypes ==
  ASSUME TypeInv, NEW t \in Threads, SweepLists(t)
  PROVE  TypeInv'
<1> USE DEF TypeInv
<1>1. \A silent \in SUBSET Executions :
        [thread[t] EXCEPT !.pc = "sweep", !.todo = silent] \in ThreadState
  BY DEF TypeOK, ThreadState
<1>2. ThreadOK'
  BY DEF SweepLists, TypeOK, ThreadState, ThreadOK
<1> QED BY <1>1, <1>2 DEF SweepLists, TypeOK

(* A thread that has done with its execution is in order. *)
LEMMA AfterOK ==
  ASSUME NEW todo \in SUBSET Executions
  PROVE  After(todo) \in ThreadState /\ After(todo).pc \in {"idle", "sweep"}
BY DEF After, Idle, ThreadState

(* When one thread moves to a row in order, all are in order. *)
LEMMA ThreadMoves ==
  ASSUME TypeInv, NEW t \in Threads, NEW row \in ThreadState,
         thread' = [thread EXCEPT ![t] = row],
         answers \subseteq answers',
         row.pc \notin {"idle", "sweep"} => row.execution \in Executions,
         row.pc = "change" => row.execution \in answers' /\ row.status = "SUCCESS",
         row.pc # "addAnswer"
  PROVE  thread' \in [Threads -> ThreadState] /\ ThreadOK'
BY DEF TypeInv, TypeOK, ThreadOK

(* and those that go on. *)
LEMMA ContinueTypes ==
  ASSUME TypeInv, NEW t \in Threads, Continue(t)
  PROVE  TypeInv'
<1> USE DEF TypeInv
<1>a. /\ thread[t] \in ThreadState
      /\ thread[t].todo \in SUBSET Executions
      /\ thread[t].execution \in Executions \cup {0}
  BY DEF TypeOK, ThreadState
<1>b. thread[t].pc \notin {"idle", "sweep"} => thread[t].execution \in Executions
  BY DEF ThreadOK
<1>c. \A todo \in SUBSET Executions :
        After(todo) \in ThreadState /\ After(todo).pc \in {"idle", "sweep"}
  BY AfterOK
<1>1. CASE AddAnswer(t)
  <2> DEFINE row == [thread[t] EXCEPT !.pc = "change"]
  <2>1. row \in ThreadState /\ row.execution = thread[t].execution
        /\ row.status = thread[t].status
    BY <1>a DEF ThreadState
  <2>2. thread[t].status = "SUCCESS" /\ thread[t].execution \in Executions
    BY <1>1 DEF AddAnswer, ThreadOK
  <2>3. thread' \in [Threads -> ThreadState] /\ ThreadOK'
    <3> HIDE DEF row
    <3>1. thread' = [thread EXCEPT ![t] = row] /\ row.pc = "change"
      BY <1>1, <1>a DEF AddAnswer, row, ThreadState
    <3>2. answers' = answers \cup {thread[t].execution}
      BY <1>1 DEF AddAnswer
    <3> QED BY <2>1, <2>2, <3>1, <3>2, ThreadMoves
  <2> QED BY <1>1, <2>2, <2>3 DEF AddAnswer, TypeOK
<1>2. CASE ChangeReported(t)
  <2> DEFINE row == [thread[t] EXCEPT !.pc = "afterFinish", !.status = "NONE"]
  <2>1. row \in ThreadState /\ row.execution = thread[t].execution
        /\ row.pc = "afterFinish"
    BY <1>a DEF ThreadState
  <2>2. thread[t].status \in {"SUCCESS", "FAILED"} /\ thread[t].execution \in Executions
    BY <1>2 DEF ChangeReported, ThreadOK
  <2>3. thread' = [thread EXCEPT ![t] = row] /\ answers' = answers
    BY <1>2 DEF ChangeReported
  <2>4. thread' \in [Threads -> ThreadState] /\ ThreadOK'
    BY <2>1, <2>2, <2>3, ThreadMoves
  <2>5. executions' \in [Executions -> WorkExecution]
    BY <1>2, <2>2, PutType DEF ChangeReported, TypeOK
  <2> QED BY <1>2, <2>4, <2>5 DEF ChangeReported, TypeOK
<1>3. CASE SweepMarks(t)
  <2>1. PICK e \in thread[t].todo :
          LET rest == thread[t].todo \ {e}
              row  == [thread[t] EXCEPT !.pc = "afterFinish", !.execution = e,
                                        !.todo = rest]
          IN  \/ /\ executions' = Put(e, "FAILED")
                 /\ thread' = [thread EXCEPT ![t] = row]
              \/ /\ executions' = executions
                 /\ thread' = [thread EXCEPT ![t] = After(rest)]
    BY <1>3 DEF SweepMarks
  <2>2. answers' = answers
    BY <1>3 DEF SweepMarks
  <2> DEFINE rest == thread[t].todo \ {e}
             row  == [thread[t] EXCEPT !.pc = "afterFinish", !.execution = e,
                                       !.todo = rest]
  <2>3. e \in Executions /\ rest \in SUBSET Executions
    BY <1>a
  <2>4. row \in ThreadState /\ row.execution = e /\ row.pc = "afterFinish"
    BY <1>a, <2>3 DEF ThreadState
  <2>5. thread' \in [Threads -> ThreadState] /\ ThreadOK'
    <3>1. CASE thread' = [thread EXCEPT ![t] = row]
      BY <2>2, <2>3, <2>4, <3>1, ThreadMoves
    <3>2. CASE thread' = [thread EXCEPT ![t] = After(rest)]
      <4>1. After(rest) \in ThreadState /\ After(rest).pc \in {"idle", "sweep"}
        BY <1>c, <2>3
      <4> QED BY <2>2, <3>2, <4>1, ThreadMoves
    <3> QED BY <2>1, <3>1, <3>2
  <2>6. executions' \in [Executions -> WorkExecution]
    BY <2>1, <2>3, PutType DEF TypeOK
  <2> QED BY <1>3, <2>5, <2>6 DEF SweepMarks, TypeOK
<1>4. CASE AfterFinish(t)
  <2> DEFINE pc == IF commands[CommandOf(t)].way # "dynamic" THEN "settle"
                   ELSE IF executions[thread[t].execution].status = "SUCCESS"
                   THEN "cancel" ELSE "passOn"
             seen == commands[CommandOf(t)].status \in Finished
             row == [thread[t] EXCEPT !.pc = pc, !.seen = seen]
  <2>1. pc \in {"settle", "cancel", "passOn"} /\ seen \in BOOLEAN
    OBVIOUS
  <2>2. thread' = [thread EXCEPT ![t] = row] /\ answers' = answers
    BY <1>4 DEF AfterFinish
  <2>3. thread[t].execution \in Executions
    BY <1>4, <1>b DEF AfterFinish
  <2>4. row \in ThreadState /\ row.execution = thread[t].execution /\ row.pc = pc
    <3> HIDE DEF pc, seen
    <3> QED BY <1>a, <2>1 DEF ThreadState
  <2>5. thread' \in [Threads -> ThreadState] /\ ThreadOK'
    <3> HIDE DEF row
    <3> QED BY <2>1, <2>2, <2>3, <2>4, ThreadMoves
  <2> QED BY <1>4, <2>5 DEF AfterFinish, TypeOK
<1>5. CASE CancelPending(t)
  <2> DEFINE row == [thread[t] EXCEPT !.pc = "settle"]
  <2>1. row \in ThreadState /\ row.execution = thread[t].execution /\ row.pc = "settle"
    BY <1>a DEF ThreadState
  <2>2. thread' = [thread EXCEPT ![t] = row] /\ answers' = answers
        /\ thread[t].execution \in Executions
    BY <1>5, <1>b DEF CancelPending
  <2>3. thread' \in [Threads -> ThreadState] /\ ThreadOK'
    BY <2>1, <2>2, ThreadMoves
  <2>4. \A e \in Executions :
          [executions[e] EXCEPT !.status = "CANCELLED", !.deferred = FALSE,
                                !.overdue = FALSE] \in WorkExecution
    BY DEF TypeOK, WorkExecution, Finished
  <2>5. executions' \in [Executions -> WorkExecution]
    BY <1>5, <2>4 DEF CancelPending, TypeOK
  <2> QED BY <1>5, <2>3, <2>5 DEF CancelPending, TypeOK
<1>6. CASE PassOn(t)
  <2>1. thread[t].execution \in Executions /\ answers' = answers
    BY <1>6, <1>b DEF PassOn
  <2>3. \/ \E s \in Services :
             thread' = [thread EXCEPT ![t] =
                          [thread[t] EXCEPT !.pc = "addExecution", !.next = s]]
        \/ thread' = [thread EXCEPT ![t] = [thread[t] EXCEPT !.pc = "settle"]]
        \/ thread' = [thread EXCEPT ![t] = After(thread[t].todo)]
    BY <1>6 DEF PassOn
  <2>4. thread' \in [Threads -> ThreadState] /\ ThreadOK'
    <3>1. ASSUME NEW s \in Services,
                 thread' = [thread EXCEPT ![t] =
                              [thread[t] EXCEPT !.pc = "addExecution", !.next = s]]
          PROVE  thread' \in [Threads -> ThreadState] /\ ThreadOK'
      <4> DEFINE row == [thread[t] EXCEPT !.pc = "addExecution", !.next = s]
      <4>1. row \in ThreadState /\ row.execution = thread[t].execution
            /\ row.pc = "addExecution"
        BY <1>a DEF ThreadState
      <4> QED BY <2>1, <3>1, <4>1, ThreadMoves
    <3>2. CASE thread' = [thread EXCEPT ![t] = [thread[t] EXCEPT !.pc = "settle"]]
      <4> DEFINE row == [thread[t] EXCEPT !.pc = "settle"]
      <4>1. row \in ThreadState /\ row.execution = thread[t].execution
            /\ row.pc = "settle"
        BY <1>a DEF ThreadState
      <4> QED BY <2>1, <3>2, <4>1, ThreadMoves
    <3>3. CASE thread' = [thread EXCEPT ![t] = After(thread[t].todo)]
      <4>1. After(thread[t].todo) \in ThreadState
            /\ After(thread[t].todo).pc \in {"idle", "sweep"}
        BY <1>a, <1>c
      <4> QED BY <2>1, <3>3, <4>1, ThreadMoves
    <3> QED BY <2>3, <3>1, <3>2, <3>3
  <2> QED BY <1>6, <2>4 DEF PassOn, TypeOK
<1>7. CASE AddExecution(t)
  <2>1. thread[t].execution \in Executions /\ answers' = answers
        /\ thread' = [thread EXCEPT ![t] = After(thread[t].todo)]
    BY <1>7, <1>b DEF AddExecution
  <2>2. CommandOf(t) \in Commands \cup {NoOne} /\ thread[t].next \in Services \cup {NoOne}
    BY <1>a, <2>1 DEF CommandOf, TypeOK, WorkExecution, ThreadState
  <2>3. executions' \in [Executions -> WorkExecution]
    <3>1. PICK e \in Executions :
            executions' = Inserted(e, CommandOf(t), thread[t].next)
      BY <1>7 DEF AddExecution
    <3>2. executions \in [Executions -> WorkExecution]
      BY DEF TypeOK
    <3> QED BY <2>2, <3>1, <3>2, InsertedType
  <2>4. thread' \in [Threads -> ThreadState] /\ ThreadOK'
    BY <1>a, <1>c, <2>1, ThreadMoves
  <2> QED BY <1>7, <2>3, <2>4 DEF AddExecution, TypeOK
<1>8. CASE Settle(t)
  <2> DEFINE status == Settled(CommandOf(t), thread[t].seen)
             row == [thread[t] EXCEPT !.pc = "write", !.status = status]
  <2>1. status \in {"NONE", "SUCCESS", "FAILED"}
    BY DEF Settled
  <2>2. row \in ThreadState /\ row.execution = thread[t].execution /\ row.pc = "write"
    <3> HIDE DEF status
    <3> QED BY <1>a, <2>1 DEF ThreadState
  <2>3. /\ thread[t].execution \in Executions /\ answers' = answers
        /\ \/ thread' = [thread EXCEPT ![t] = After(thread[t].todo)]
           \/ thread' = [thread EXCEPT ![t] = row]
    BY <1>8, <1>b DEF Settle
  <2>4. thread' \in [Threads -> ThreadState] /\ ThreadOK'
    <3> HIDE DEF row
    <3> QED BY <1>a, <1>c, <2>2, <2>3, ThreadMoves
  <2> QED BY <1>8, <2>4 DEF Settle, TypeOK
<1>9. CASE WriteStatus(t)
  <2>1. thread[t].execution \in Executions /\ answers' = answers
        /\ thread' = [thread EXCEPT ![t] = After(thread[t].todo)]
    BY <1>9, <1>b DEF WriteStatus
  <2>2. thread' \in [Threads -> ThreadState] /\ ThreadOK'
    BY <1>a, <1>c, <2>1, ThreadMoves
  <2>3. thread[t].status \in {"NONE", "SUCCESS", "FAILED"}
    BY <1>a DEF ThreadState
  <2>4. \A c \in Commands :
          [commands[c] EXCEPT !.status = thread[t].status] \in CommandRow
    BY <2>3 DEF TypeOK, CommandRow
  <2>5. commands' \in [Commands -> CommandRow]
    BY <1>9, <2>4 DEF WriteStatus, TypeOK
  <2> QED BY <1>9, <2>2, <2>5 DEF WriteStatus, TypeOK
<1> QED BY <1>1, <1>2, <1>3, <1>4, <1>5, <1>6, <1>7, <1>8, <1>9 DEF Continue

(* Every step keeps the types. *)
LEMMA NextTypes ==
  ASSUME TypeInv, [Next]_vars
  PROVE  TypeInv'
<1>1. CASE UNCHANGED vars
  BY <1>1 DEF vars, TypeInv, TypeOK, ThreadOK
<1>2. ASSUME NEW e \in Executions, Elapse(e) PROVE TypeInv'
  <2>1. [executions[e] EXCEPT !.overdue = TRUE] \in WorkExecution
    BY DEF TypeInv, TypeOK, WorkExecution
  <2> QED BY <1>2, <2>1 DEF Elapse, TypeInv, TypeOK, ThreadOK
<1>3. CASE Crash
  <2>1. \A c \in Commands :
          [runs[c] EXCEPT !.pc = "done", !.toAdd = {}] \in RunState
    BY DEF TypeInv, TypeOK, RunState
  <2>2. runs' \in [Commands -> RunState]
    BY <1>3, <2>1 DEF Crash, TypeInv, TypeOK
  <2>3. thread' \in [Threads -> ThreadState] /\ ThreadOK'
    BY <1>3 DEF Crash, Idle, ThreadState, ThreadOK
  <2>4. crashes' \in 0..MaxCrashes
    <3>1. crashes < MaxCrashes /\ crashes' = crashes + 1
      BY <1>3 DEF Crash
    <3>2. MaxCrashes \in Nat
      BY WorkAssumption
    <3>3. crashes \in 0..MaxCrashes
      BY DEF TypeInv, TypeOK
    <3> QED BY <3>1, <3>2, <3>3
  <2>5. early' \subseteq Commands /\ outrun' \subseteq Commands
    BY <1>3 DEF Crash, TypeInv, TypeOK
  <2>6. instances' \in [Instances -> {"READY", "UNREADY", "LEAVING", "STOPPED"}]
    BY <1>3 DEF Crash, TypeInv, TypeOK
  <2> QED BY <1>3, <2>2, <2>3, <2>4, <2>5, <2>6 DEF Crash, TypeInv, TypeOK
<1>4. ASSUME NEW c \in Commands,
             Run(c) \/ \E request \in Requests : CreateCommand(c, request)
      PROVE  TypeInv'
  BY <1>4, RunTypes
<1>5. ASSUME NEW i \in Instances,
             \/ CheckIn(i) \/ Offer(i) \/ InstanceChanges(i)
             \/ \E e \in Executions : Accept(i, e) \/ Progress(i, e) \/ JobEnds(i, e)
      PROVE  TypeInv'
  BY <1>5, CopyTypes
<1>6. ASSUME NEW t \in Calls, NEW i \in Instances, NEW e \in Executions,
             \/ NotNow(t, i, e) \/ Defer(t, i, e)
             \/ \E status \in {"SUCCESS", "FAILED"} : Report(t, i, e, status)
      PROVE  TypeInv'
  BY <1>6, BeginTypes DEF Threads
<1>7. ASSUME NEW t \in Sweeps, SweepLists(t) PROVE TypeInv'
  BY <1>7, SweepTypes DEF Threads
<1>8. ASSUME NEW t \in Threads, Continue(t) PROVE TypeInv'
  BY <1>8, ContinueTypes
<1> QED BY <1>1, <1>2, <1>3, <1>4, <1>5, <1>6, <1>7, <1>8 DEF Next

(* The rows, the threads and the counters keep their types. *)
THEOREM TypeCorrect == Spec => []TypeOK
<1>1. Init => TypeInv
  BY InitTypes
<1>2. TypeInv /\ [Next]_vars => TypeInv'
  BY NextTypes
<1>3. TypeInv => TypeOK
  BY DEF TypeInv
<1> QED BY <1>1, <1>2, <1>3, PTL DEF Spec
(* The ways one row may change: it is added, offered, refused, taken or     *)
(* finished - with success only once its answer is stored - or keeps its    *)
(* status and its copy.  It stays the row of one command.                   *)
RowChange(d, row) ==
  LET old == executions[d]
  IN  \/ old.status = "NONE" /\ row.status = "PENDING" /\ row.instanceId = NoOne
      \/ /\ old.status \in {"PENDING", "WAITING"}
         /\ row.status = "WAITING" /\ row.instanceId \in Instances
         /\ row.commandId = old.commandId
      \/ /\ row.instanceId = old.instanceId /\ row.commandId = old.commandId
         /\ \/ old.status = "WAITING" /\ row.status \in {"PENDING", "FAILED", "RUNNING"}
            \/ old.status = "RUNNING" /\ row.status = "FAILED"
            \/ old.status = "RUNNING" /\ row.status = "SUCCESS" /\ d \in answers
            \/ old.status \in {"PENDING", "WAITING", "RUNNING"} /\ row.status = old.status

(* One step touches one row, or one answer, or cancels waiting rows. *)
StoreStep ==
  \/ executions' = executions /\ answers' = answers
  \/ /\ answers' = answers
     /\ \E d \in Executions : \E row \in WorkExecution :
          RowChange(d, row) /\ executions' = [executions EXCEPT ![d] = row]
  \/ /\ executions' = executions
     /\ \E d \in Executions : answers' = answers \cup {d}
  \/ /\ answers' = answers
     /\ \E some \in SUBSET {e \in Executions : executions[e].status = "PENDING"} :
          executions' = [e \in Executions |->
            IF e \in some
            THEN [executions[e] EXCEPT !.status = "CANCELLED", !.deferred = FALSE,
                                       !.overdue = FALSE]
            ELSE executions[e]]

(* What a copy comes to hold, its row names it for. *)
HoldingMove ==
  \A i \in Instances : \A e \in holding'[i] :
    \/ e \in holding[i]
    \/ executions'[e].status = "RUNNING" /\ executions'[e].instanceId = i

RowsMove == StoreStep /\ HoldingMove

(* A step that leaves the rows, the answers and the held work alone. *)
LEMMA RowsStay ==
  ASSUME executions' = executions, answers' = answers, holding' = holding
  PROVE  RowsMove
BY DEF RowsMove, StoreStep, HoldingMove

(* A step that changes one row. *)
LEMMA OneRow ==
  ASSUME NEW d \in Executions, NEW row \in WorkExecution, RowChange(d, row),
         executions' = [executions EXCEPT ![d] = row],
         answers' = answers, holding' = holding
  PROVE  RowsMove
BY DEF RowsMove, StoreStep, HoldingMove

LEMMA RowMoves ==
  ASSUME TypeInv, [Next]_vars
  PROVE  RowsMove
<1> USE DEF TypeInv
<1>a. \A e \in Executions : executions[e] \in WorkExecution
  BY DEF TypeOK
<1>1. CASE UNCHANGED vars
  BY <1>1, RowsStay DEF vars
<1>2. ASSUME NEW c \in Commands,
             Run(c) \/ \E request \in Requests : CreateCommand(c, request)
      PROVE  RowsMove
  <2>1. ASSUME NEW request \in Requests, CreateCommand(c, request) PROVE RowsMove
    BY <2>1, RowsStay DEF CreateCommand
  <2>2. CASE RunAdds(c)
    <3>1. PICK e \in Executions, s \in runs[c].toAdd :
            NextID(e) /\ executions' = Inserted(e, c, s)
      BY <2>2 DEF RunAdds
    <3> DEFINE row == [NoExecution EXCEPT !.status = "PENDING", !.commandId = c,
                                          !.serviceVersionId = s]
    <3>2. s \in Services
      BY <3>1 DEF TypeOK, RunState
    <3>3. row \in WorkExecution
      BY <3>2 DEF NoExecution, WorkExecution
    <3>4. RowChange(e, row) /\ executions' = [executions EXCEPT ![e] = row]
      BY <3>1 DEF NextID, NoExecution, Inserted, RowChange
    <3> HIDE DEF row
    <3> QED BY <2>2, <3>3, <3>4, OneRow DEF RunAdds
  <2>3. CASE RunStarts(c)
    BY <2>3, RowsStay DEF RunStarts
  <2>4. CASE RunReads(c)
    BY <2>4, RowsStay DEF RunReads
  <2>5. CASE RunRecords(c)
    BY <2>5, RowsStay DEF RunRecords
  <2> QED BY <1>2, <2>1, <2>2, <2>3, <2>4, <2>5 DEF Run
<1>3. ASSUME NEW i \in Instances, CheckIn(i) \/ Offer(i) \/ InstanceChanges(i)
      PROVE  RowsMove
  <2>1. CASE CheckIn(i)
    BY <2>1, RowsStay DEF CheckIn
  <2>2. CASE Offer(i)
    <3>1. PICK e \in Executions :
            /\ Claimable(e, ServiceOf[i])
            /\ executions' = [executions EXCEPT ![e] =
                 [executions[e] EXCEPT !.status = "WAITING", !.instanceId = i,
                                       !.deferred = FALSE, !.overdue = FALSE]]
      BY <2>2 DEF Offer
    <3> DEFINE row == [executions[e] EXCEPT !.status = "WAITING", !.instanceId = i,
                                            !.deferred = FALSE, !.overdue = FALSE]
    <3>2. /\ row \in WorkExecution /\ row.status = "WAITING" /\ row.instanceId = i
          /\ row.commandId = executions[e].commandId
      BY <1>a DEF WorkExecution
    <3>3. executions[e].status \in {"PENDING", "WAITING"}
      BY <3>1 DEF Claimable
    <3>4. executions' = [executions EXCEPT ![e] = row]
      BY <3>1
    <3> HIDE DEF row
    <3>5. RowChange(e, row)
      BY <3>2, <3>3 DEF RowChange
    <3> QED BY <2>2, <3>2, <3>4, <3>5, OneRow DEF Offer
  <2>3. CASE InstanceChanges(i)
    BY <2>3, RowsStay DEF InstanceChanges
  <2> QED BY <1>3, <2>1, <2>2, <2>3
<1>4. ASSUME NEW i \in Instances, NEW e \in Executions, Accept(i, e) \/ Progress(i, e)
      PROVE  RowsMove
  <2> DEFINE row == [executions[e] EXCEPT !.status = "RUNNING", !.overdue = FALSE]
  <2>1. /\ row \in WorkExecution
        /\ row.status = "RUNNING" /\ row.instanceId = executions[e].instanceId
        /\ row.commandId = executions[e].commandId
    BY <1>a DEF WorkExecution
  <2>2. executions' = [executions EXCEPT ![e] = row] /\ answers' = answers
    BY <1>4 DEF Accept, Progress, Put
  <2> HIDE DEF row
  <2>3. CASE Accept(i, e)
    <3>1. /\ executions[e].status = "WAITING" /\ executions[e].instanceId = i
          /\ holding' = [holding EXCEPT ![i] = holding[i] \cup {e}]
      BY <2>3 DEF Accept, Expected
    <3>2. executions'[e] = row /\ \A d \in Executions \ {e} : executions'[d] = executions[d]
      BY <2>2 DEF TypeOK
    <3>3. HoldingMove
      BY <2>1, <3>1, <3>2 DEF HoldingMove, TypeOK
    <3>4. RowChange(e, row)
      BY <2>1, <3>1 DEF RowChange
    <3> QED BY <2>1, <2>2, <3>3, <3>4 DEF RowsMove, StoreStep
  <2>4. CASE Progress(i, e)
    <3>1. RowChange(e, row) /\ holding' = holding
      BY <2>1, <2>4 DEF Progress, Expected, RowChange
    <3> QED BY <2>1, <2>2, <3>1, OneRow
  <2> QED BY <1>4, <2>3, <2>4
<1>5. ASSUME NEW t \in Calls, NEW i \in Instances, NEW e \in Executions,
             \/ NotNow(t, i, e) \/ Defer(t, i, e)
             \/ \E status \in {"SUCCESS", "FAILED"} : Report(t, i, e, status)
      PROVE  RowsMove
  <2>1. CASE NotNow(t, i, e)
    <3> DEFINE row == [executions[e] EXCEPT !.status = "FAILED", !.overdue = FALSE]
    <3>1. /\ row \in WorkExecution
          /\ row.status = "FAILED" /\ row.instanceId = executions[e].instanceId
          /\ row.commandId = executions[e].commandId
      BY <1>a DEF WorkExecution, Finished
    <3>2. executions[e].status = "WAITING" /\ executions' = [executions EXCEPT ![e] = row]
      BY <2>1 DEF NotNow, Expected, Put
    <3> HIDE DEF row
    <3>3. RowChange(e, row)
      BY <3>1, <3>2 DEF RowChange
    <3> QED BY <2>1, <3>1, <3>2, <3>3, OneRow DEF NotNow
  <2>2. CASE Defer(t, i, e)
    <3> DEFINE row == [executions[e] EXCEPT !.status = "PENDING", !.deferred = TRUE,
                                            !.overdue = FALSE]
    <3>1. /\ row \in WorkExecution
          /\ row.status = "PENDING" /\ row.instanceId = executions[e].instanceId
          /\ row.commandId = executions[e].commandId
      BY <1>a DEF WorkExecution
    <3>2. executions[e].status = "WAITING" /\ executions' = [executions EXCEPT ![e] = row]
      BY <2>2 DEF Defer, Expected
    <3> HIDE DEF row
    <3>3. RowChange(e, row)
      BY <3>1, <3>2 DEF RowChange
    <3> QED BY <2>2, <3>1, <3>2, <3>3, OneRow DEF Defer
  <2>3. ASSUME NEW status \in {"SUCCESS", "FAILED"}, Report(t, i, e, status)
        PROVE  RowsMove
    BY <2>3, RowsStay DEF Report
  <2> QED BY <1>5, <2>1, <2>2, <2>3
<1>6. ASSUME NEW t \in Sweeps, SweepLists(t) PROVE RowsMove
  BY <1>6, RowsStay DEF SweepLists
<1>7. ASSUME NEW t \in Threads, Continue(t) PROVE RowsMove
  <2>a. /\ thread[t] \in ThreadState
        /\ thread[t].pc \notin {"idle", "sweep"} => thread[t].execution \in Executions
    BY DEF TypeOK, ThreadOK
  <2>1. CASE AddAnswer(t)
    BY <2>1, <2>a DEF AddAnswer, RowsMove, StoreStep, HoldingMove
  <2>2. CASE ChangeReported(t)
    <3> DEFINE e == thread[t].execution
               row == [executions[e] EXCEPT !.status = thread[t].status, !.overdue = FALSE]
    <3>1. /\ e \in Executions
          /\ \/ thread[t].status = "FAILED"
             \/ thread[t].status = "SUCCESS" /\ e \in answers
      BY <2>2, <2>a DEF ChangeReported, ThreadOK
    <3>2. /\ row \in WorkExecution
          /\ row.status = thread[t].status /\ row.instanceId = executions[e].instanceId
          /\ row.commandId = executions[e].commandId
      BY <1>a, <3>1, RowType DEF WorkExecution
    <3>3. /\ answers' = answers /\ holding' = holding
          /\ \/ executions' = executions
             \/ executions[e].status = "RUNNING" /\ executions' = [executions EXCEPT ![e] = row]
      BY <2>2 DEF ChangeReported, Expected, Put
    <3> HIDE DEF row, e
    <3>4. executions[e].status = "RUNNING" => RowChange(e, row)
      BY <3>1, <3>2 DEF RowChange
    <3> QED BY <3>1, <3>2, <3>3, <3>4, RowsStay, OneRow
  <2>3. CASE SweepMarks(t)
    <3>1. PICK e \in thread[t].todo :
            \/ executions' = executions
            \/ /\ executions[e].status = "RUNNING"
               /\ executions' = Put(e, "FAILED")
      BY <2>3 DEF SweepMarks, Expected
    <3>2. e \in Executions /\ answers' = answers /\ holding' = holding
      BY <2>3, <2>a DEF SweepMarks, ThreadState
    <3> DEFINE row == [executions[e] EXCEPT !.status = "FAILED", !.overdue = FALSE]
    <3>3. /\ row \in WorkExecution
          /\ row.status = "FAILED" /\ row.instanceId = executions[e].instanceId
          /\ row.commandId = executions[e].commandId
      BY <1>a, <3>2 DEF WorkExecution, Finished
    <3>4. executions' = executions \/ executions' = [executions EXCEPT ![e] = row]
      BY <3>1 DEF Put
    <3> HIDE DEF row
    <3>5. executions[e].status = "RUNNING" => RowChange(e, row)
      BY <3>3 DEF RowChange
    <3> QED BY <3>1, <3>2, <3>3, <3>4, <3>5, RowsStay, OneRow
  <2>4. CASE AfterFinish(t)
    BY <2>4, RowsStay DEF AfterFinish
  <2>5. CASE CancelPending(t)
    <3> DEFINE some == {e \in Of(CommandOf(t)) : executions[e].status = "PENDING"}
    <3>1. /\ some \in SUBSET {e \in Executions : executions[e].status = "PENDING"}
          /\ executions' = [e \in Executions |->
               IF e \in some
               THEN [executions[e] EXCEPT !.status = "CANCELLED", !.deferred = FALSE,
                                          !.overdue = FALSE]
               ELSE executions[e]]
      BY <2>5 DEF CancelPending, Of
    <3> HIDE DEF some
    <3> QED BY <2>5, <3>1 DEF CancelPending, RowsMove, StoreStep, HoldingMove
  <2>6. CASE PassOn(t)
    BY <2>6, RowsStay DEF PassOn
  <2>7. CASE AddExecution(t)
    <3>1. PICK e \in Executions :
            NextID(e) /\ executions' = Inserted(e, CommandOf(t), thread[t].next)
      BY <2>7 DEF AddExecution
    <3> DEFINE row == [NoExecution EXCEPT !.status = "PENDING", !.commandId = CommandOf(t),
                                          !.serviceVersionId = thread[t].next]
    <3>2. CommandOf(t) \in Commands \cup {NoOne} /\ thread[t].next \in Services \cup {NoOne}
      BY <1>a, <2>7, <2>a DEF AddExecution, CommandOf, WorkExecution, ThreadState
    <3>3. row \in WorkExecution
      BY <3>2 DEF NoExecution, WorkExecution
    <3>4. RowChange(e, row) /\ executions' = [executions EXCEPT ![e] = row]
      BY <3>1 DEF NextID, NoExecution, Inserted, RowChange
    <3> HIDE DEF row
    <3> QED BY <2>7, <3>3, <3>4, OneRow DEF AddExecution
  <2>8. CASE Settle(t)
    BY <2>8, RowsStay DEF Settle
  <2>9. CASE WriteStatus(t)
    BY <2>9, RowsStay DEF WriteStatus
  <2> QED BY <1>7, <2>1, <2>2, <2>3, <2>4, <2>5, <2>6, <2>7, <2>8, <2>9 DEF Continue
<1>8. ASSUME NEW e \in Executions, Elapse(e) PROVE RowsMove
  <2> DEFINE row == [executions[e] EXCEPT !.overdue = TRUE]
  <2>1. /\ row \in WorkExecution
        /\ row.status = executions[e].status /\ row.instanceId = executions[e].instanceId
        /\ row.commandId = executions[e].commandId
    BY <1>a DEF WorkExecution
  <2>2. /\ executions' = [executions EXCEPT ![e] = row]
        /\ executions[e].status \in {"PENDING", "WAITING", "RUNNING"}
    BY <1>8 DEF Elapse, PutOff
  <2> HIDE DEF row
  <2>3. RowChange(e, row)
    BY <2>1, <2>2 DEF RowChange
  <2> QED BY <1>8, <2>1, <2>2, <2>3, OneRow DEF Elapse
<1>9. CASE Crash
  BY <1>9, RowsStay DEF Crash
<1>10. ASSUME NEW i \in Instances, NEW e \in Executions, JobEnds(i, e) PROVE RowsMove
  <2>1. HoldingMove
    BY <1>10 DEF JobEnds, HoldingMove, TypeOK
  <2> QED BY <1>10, <2>1 DEF JobEnds, RowsMove, StoreStep
<1> QED BY <1>1, <1>2, <1>3, <1>4, <1>5, <1>6, <1>7, <1>8, <1>9, <1>10 DEF Next

(* What that means for each row: a finished one stays; a RUNNING one keeps  *)
(* its copy, and succeeds only with its answer stored; work that is not yet *)
(* taken never succeeds; one command's row stays that command's.            *)
RowMove(e) ==
  \/ executions'[e] = executions[e]
  \/ executions[e].status = "NONE" /\ executions'[e].status = "PENDING"
  \/ /\ executions[e].status \in {"PENDING", "WAITING"}
     /\ executions'[e].status \notin {"NONE", "SUCCESS"}
     /\ executions'[e].commandId = executions[e].commandId
  \/ /\ executions[e].status = "RUNNING"
     /\ executions'[e].status \in {"RUNNING"} \cup Finished
     /\ executions'[e].status = "SUCCESS" => e \in answers
     /\ executions'[e].instanceId = executions[e].instanceId
     /\ executions'[e].commandId = executions[e].commandId

LEMMA EachRowMoves ==
  ASSUME TypeOK, StoreStep
  PROVE  (\A e \in Executions : RowMove(e)) /\ answers \subseteq answers'
<1>1. CASE executions' = executions
  BY <1>1 DEF RowMove, StoreStep
<1>2. ASSUME NEW d \in Executions, NEW row \in WorkExecution, RowChange(d, row),
             executions' = [executions EXCEPT ![d] = row]
      PROVE  \A e \in Executions : RowMove(e)
  <2>1. executions'[d] = row /\ \A e \in Executions \ {d} : executions'[e] = executions[e]
    BY <1>2 DEF TypeOK
  <2> QED BY <1>2, <2>1 DEF RowMove, RowChange, Finished
<1>3. ASSUME NEW some \in SUBSET {e \in Executions : executions[e].status = "PENDING"},
             executions' = [e \in Executions |->
               IF e \in some
               THEN [executions[e] EXCEPT !.status = "CANCELLED", !.deferred = FALSE,
                                          !.overdue = FALSE]
               ELSE executions[e]]
      PROVE  \A e \in Executions : RowMove(e)
  <2>1. ASSUME NEW e \in Executions
        PROVE  LET row == [executions[e] EXCEPT !.status = "CANCELLED",
                             !.deferred = FALSE, !.overdue = FALSE]
               IN  row.status = "CANCELLED" /\ row.commandId = executions[e].commandId
    BY DEF TypeOK, WorkExecution
  <2> QED BY <1>3, <2>1 DEF RowMove
<1> QED BY <1>1, <1>2, <1>3 DEF StoreStep

(* An execution that says SUCCESS has its answer stored, from the moment   *)
(* its row changes (report).                                               *)
THEOREM SuccessAnswered == Spec => []SuccessHasAnswer
<1>1. Init => TypeInv /\ SuccessHasAnswer
  BY InitTypes DEF Init, SuccessHasAnswer, NoExecution
<1>2. TypeInv /\ SuccessHasAnswer /\ [Next]_vars => (TypeInv /\ SuccessHasAnswer)'
  <2> SUFFICES ASSUME TypeInv, SuccessHasAnswer, [Next]_vars
               PROVE  (TypeInv /\ SuccessHasAnswer)'
    OBVIOUS
  <2>1. (\A e \in Executions : RowMove(e)) /\ answers \subseteq answers'
    BY RowMoves, EachRowMoves DEF RowsMove, TypeInv
  <2> QED BY <2>1, NextTypes DEF SuccessHasAnswer, RowMove
<1> QED BY <1>1, <1>2, PTL DEF Spec

(* Two copies never both work on one execution: whoever holds it, its row  *)
(* names, and it is never offered again (answer, takeWork).                *)
THEOREM WorkHeldByOne == Spec => []HeldByOne
<1>1. Init => TypeInv /\ HeldByOne
  BY InitTypes DEF Init, HeldByOne
<1>2. TypeInv /\ HeldByOne /\ [Next]_vars => (TypeInv /\ HeldByOne)'
  <2> SUFFICES ASSUME TypeInv, HeldByOne, [Next]_vars
               PROVE  (TypeInv /\ HeldByOne)'
    OBVIOUS
  <2>1. TypeInv' /\ HoldingMove /\ \A e \in Executions : RowMove(e)
    BY NextTypes, RowMoves, EachRowMoves DEF RowsMove, TypeInv
  <2>2. ASSUME NEW i \in Instances, NEW e \in holding'[i]
        PROVE  executions'[e].instanceId = i
               /\ executions'[e].status \in {"RUNNING"} \cup Finished
    <3>1. e \in Executions
      BY <2>1 DEF TypeInv, TypeOK
    <3> QED BY <2>1, <3>1 DEF HeldByOne, RowMove, HoldingMove, Finished
  <2> QED BY <2>1, <2>2 DEF HeldByOne
<1> QED BY <1>1, <1>2, PTL DEF Spec

(* A finished execution is never changed again, whatever reports, sweeps   *)
(* and cancellations overlap.                                              *)
THEOREM FinishedStays == Spec => FinishedIsFinal
<1>1. TypeInv /\ [Next]_vars =>
        [\A e \in Executions : executions[e].status \in Finished
           => executions'[e] = executions[e]]_vars
  BY RowMoves, EachRowMoves DEF RowsMove, RowMove, Finished, TypeInv
<1>2. Init => TypeInv
  BY InitTypes
<1>3. TypeInv /\ [Next]_vars => TypeInv'
  BY NextTypes
<1> QED BY <1>1, <1>2, <1>3, PTL DEF Spec, FinishedIsFinal
-----------------------------------------------------------------------------
(* CapabilityWork implements WorkLease.                                    *)

(* A row not yet added names no copy. *)
Unborn ==
  \A e \in Executions : executions[e].status = "NONE" => executions[e].instanceId = NoOne

LEMMA PhaseIs ==
  /\ Phase("NONE") = "none"
  /\ Phase("PENDING") = "open"
  /\ Phase("WAITING") = "offered"
  /\ Phase("RUNNING") = "held"
  /\ \A status \in Finished : Phase(status) = status
BY DEF Phase, Finished

(* A change of one row is the lease's step, or none. *)
LEMMA RowLease ==
  ASSUME TypeOK, Unborn, NEW d \in Executions, NEW row \in WorkExecution,
         RowChange(d, row), executions' = [executions EXCEPT ![d] = row],
         answers' = answers
  PROVE  [Lease!LeaseNext]_(Lease!leaseVars)
<1> DEFINE phase  == [e \in Executions |-> Phase(executions[e].status)]
           holder == [e \in Executions |-> executions[e].instanceId]
           now    == Phase(row.status)
<1>1. /\ [e \in Executions |-> Phase(executions'[e].status)] = [phase EXCEPT ![d] = now]
      /\ [e \in Executions |-> executions'[e].instanceId]
           = [holder EXCEPT ![d] = row.instanceId]
  BY DEF TypeOK
<1>2. phase[d] = Phase(executions[d].status) /\ holder[d] = executions[d].instanceId
  OBVIOUS
<1>3. ASSUME row.instanceId = executions[d].instanceId
      PROVE  [e \in Executions |-> executions'[e].instanceId] = holder
  BY <1>1, <1>2, <1>3
<1>4. CASE /\ executions[d].status = "NONE"
           /\ row.status = "PENDING" /\ row.instanceId = NoOne
  <2>1. row.instanceId = executions[d].instanceId
    BY <1>4 DEF Unborn
  <2>2. Lease!Create(d)
    BY <1>1, <1>2, <1>3, <1>4, <2>1, PhaseIs DEF Lease!Create, Lease!Move
  <2> QED BY <2>2 DEF Lease!LeaseNext
<1>5. CASE /\ executions[d].status \in {"PENDING", "WAITING"}
           /\ row.status = "WAITING" /\ row.instanceId \in Instances
  <2>1. Lease!Lend(d, row.instanceId)
    BY <1>1, <1>2, <1>5, PhaseIs DEF Lease!Lend, Lease!Move
  <2> QED BY <1>5, <2>1 DEF Lease!LeaseNext
<1>6. ASSUME row.instanceId = executions[d].instanceId,
             executions[d].status = "WAITING", row.status \in {"PENDING", "FAILED"}
      PROVE  Lease!LeaseNext
  <2>1. Lease!Refuse(d)
    BY <1>1, <1>2, <1>3, <1>6, PhaseIs DEF Lease!Refuse, Lease!Move, Finished
  <2> QED BY <2>1 DEF Lease!LeaseNext
<1>7. ASSUME row.instanceId = executions[d].instanceId,
             executions[d].status = "WAITING", row.status = "RUNNING"
      PROVE  Lease!LeaseNext
  <2>1. Lease!Take(d)
    BY <1>1, <1>2, <1>3, <1>7, PhaseIs DEF Lease!Take, Lease!Move
  <2> QED BY <2>1 DEF Lease!LeaseNext
<1>8. ASSUME row.instanceId = executions[d].instanceId,
             executions[d].status = "RUNNING",
             row.status = "FAILED" \/ (row.status = "SUCCESS" /\ d \in answers)
      PROVE  Lease!LeaseNext
  <2>1. Lease!Finish(d)
    BY <1>1, <1>2, <1>3, <1>8, PhaseIs DEF Lease!Finish, Lease!Move, Finished
  <2> QED BY <2>1 DEF Lease!LeaseNext
<1>9. ASSUME row.instanceId = executions[d].instanceId,
             row.status = executions[d].status
      PROVE  UNCHANGED Lease!leaseVars
  BY <1>1, <1>2, <1>3, <1>9 DEF Lease!leaseVars
<1> QED BY <1>4, <1>5, <1>6, <1>7, <1>8, <1>9 DEF RowChange

LEMMA LeaseStep ==
  ASSUME TypeOK, Unborn, StoreStep
  PROVE  [Lease!LeaseNext]_(Lease!leaseVars)
<1>1. CASE executions' = executions /\ answers' = answers
  BY <1>1 DEF Lease!leaseVars
<1>2. ASSUME executions' = executions, NEW d \in Executions, answers' = answers \cup {d}
      PROVE  Lease!LeaseNext
  BY <1>2 DEF Lease!LeaseNext, Lease!Store
<1>3. ASSUME answers' = answers,
             NEW some \in SUBSET {e \in Executions : executions[e].status = "PENDING"},
             executions' = [e \in Executions |->
               IF e \in some
               THEN [executions[e] EXCEPT !.status = "CANCELLED", !.deferred = FALSE,
                                          !.overdue = FALSE]
               ELSE executions[e]]
      PROVE  Lease!LeaseNext
  <2>1. \A e \in some : /\ executions'[e].status = "CANCELLED"
                        /\ executions'[e].instanceId = executions[e].instanceId
    BY <1>3 DEF TypeOK, WorkExecution
  <2>2. \A e \in Executions \ some : executions'[e] = executions[e]
    BY <1>3
  <2>3. some \in SUBSET {e \in Executions :
                           [d \in Executions |-> Phase(executions[d].status)][e] = "open"}
    BY PhaseIs
  <2>4. [e \in Executions |-> Phase(executions'[e].status)]
          = [e \in Executions |->
               IF e \in some THEN "CANCELLED"
               ELSE [d \in Executions |-> Phase(executions[d].status)][e]]
    BY <2>1, <2>2, PhaseIs DEF Finished
  <2>5. [e \in Executions |-> executions'[e].instanceId]
          = [e \in Executions |-> executions[e].instanceId]
    BY <2>1, <2>2
  <2>6. Lease!Withdraw
    BY <1>3, <2>3, <2>4, <2>5 DEF Lease!Withdraw
  <2> QED BY <2>6 DEF Lease!LeaseNext
<1> QED BY <1>1, <1>2, <1>3, RowLease DEF StoreStep

(* However requests, sweeps and crashes overlap, the rows of executions    *)
(* and answers keep the promise of WorkLease (the store's claim, change    *)
(* and cancelPending, as run, takeWork, answer, report and markSilent use  *)
(* them).                                                                  *)
THEOREM LeaseKept == Spec => KeepsLease
<1>1. Init => TypeInv /\ Unborn /\ Lease!LeaseInit
  <2> SUFFICES ASSUME Init PROVE TypeInv /\ Unborn /\ Lease!LeaseInit
    OBVIOUS
  <2>1. executions = [e \in Executions |-> NoExecution] /\ answers = {}
    BY DEF Init
  <2>2. NoExecution.status = "NONE" /\ NoExecution.instanceId = NoOne
    BY DEF NoExecution
  <2> QED BY <2>1, <2>2, InitTypes, PhaseIs DEF Unborn, Lease!LeaseInit
<1>2. TypeInv /\ Unborn /\ [Next]_vars
        => (TypeInv /\ Unborn)' /\ [Lease!LeaseNext]_(Lease!leaseVars)
  <2> SUFFICES ASSUME TypeInv, Unborn, [Next]_vars
               PROVE  (TypeInv /\ Unborn)' /\ [Lease!LeaseNext]_(Lease!leaseVars)
    OBVIOUS
  <2>1. StoreStep /\ TypeOK /\ TypeInv'
    BY NextTypes, RowMoves DEF RowsMove, TypeInv
  <2>2. Unborn'
    BY <2>1, EachRowMoves DEF RowMove, Unborn, Finished
  <2>3. [Lease!LeaseNext]_(Lease!leaseVars)
    BY <2>1, LeaseStep
  <2> QED BY <2>1, <2>2, <2>3
<1> QED BY <1>1, <1>2, PTL DEF Spec, KeepsLease, Lease!LeaseSpec
-----------------------------------------------------------------------------
(* What a command's result says stays true.                                *)

(* Entries once read agree with the rows of the executions that had        *)
(* finished by then.                                                       *)
EntriesTrue ==
  \A c \in Commands, e \in Executions :
    runs[c].entries[e] \in Finished =>
      executions[e].status = runs[c].entries[e] /\ executions[e].commandId = c

(* Entries are only ever read off the rows as they are. *)
EntriesMove ==
  \A c \in Commands :
    \/ runs'[c].entries = runs[c].entries
    \/ /\ executions' = executions
       /\ runs'[c].entries = [e \in Executions |->
            IF e \in Of(c) THEN executions[e].status ELSE "NONE"]

LEMMA EntriesMoves ==
  ASSUME TypeOK, [Next]_vars
  PROVE  EntriesMove
<1>a. \A c \in Commands : runs[c] \in RunState
  BY DEF TypeOK
<1>1. CASE runs' = runs
  BY <1>1 DEF EntriesMove
<1>2. ASSUME NEW c \in Commands, NEW row, runs' = [runs EXCEPT ![c] = row],
             row.entries = runs[c].entries
      PROVE  EntriesMove
  BY <1>2 DEF TypeOK, EntriesMove
<1>3. ASSUME NEW c \in Commands, NEW request \in Requests, CreateCommand(c, request)
      PROVE  EntriesMove
  <2>1. PICK chosen :
          runs' = [runs EXCEPT ![c] = [runs[c] EXCEPT !.pc = "adding", !.toAdd = chosen]]
    BY <1>3 DEF CreateCommand
  <2>2. [runs[c] EXCEPT !.pc = "adding", !.toAdd = chosen].entries = runs[c].entries
    BY <1>a DEF RunState
  <2> QED BY <2>1, <2>2, <1>2
<1>4. ASSUME NEW c \in Commands, RunAdds(c) PROVE EntriesMove
  <2>1. PICK s : runs' = [runs EXCEPT ![c] = [runs[c] EXCEPT !.toAdd = runs[c].toAdd \ {s}]]
    BY <1>4 DEF RunAdds
  <2>2. [runs[c] EXCEPT !.toAdd = runs[c].toAdd \ {s}].entries = runs[c].entries
    BY <1>a DEF RunState
  <2> QED BY <2>1, <2>2, <1>2
<1>5. ASSUME NEW c \in Commands, RunStarts(c) \/ RunRecords(c) PROVE EntriesMove
  <2>1. PICK pc : runs' = [runs EXCEPT ![c] = [runs[c] EXCEPT !.pc = pc]]
    BY <1>5 DEF RunStarts, RunRecords
  <2>2. [runs[c] EXCEPT !.pc = pc].entries = runs[c].entries
    BY <1>a DEF RunState
  <2> QED BY <2>1, <2>2, <1>2
<1>6. ASSUME NEW c \in Commands, RunReads(c) PROVE EntriesMove
  <2> DEFINE entries == [e \in Executions |->
                           IF e \in Of(c) THEN executions[e].status ELSE "NONE"]
             row == [runs[c] EXCEPT !.pc = "read", !.entries = entries]
  <2>1. runs' = [runs EXCEPT ![c] = row] /\ executions' = executions
    BY <1>6 DEF RunReads
  <2>2. row.entries = entries
    BY <1>a DEF RunState
  <2>3. runs'[c] = row /\ \A d \in Commands \ {c} : runs'[d] = runs[d]
    BY <2>1 DEF TypeOK
  <2> HIDE DEF row
  <2> QED BY <2>1, <2>2, <2>3 DEF EntriesMove
<1>7. CASE Crash
  <2>1. \A c \in Commands : [runs[c] EXCEPT !.pc = "done", !.toAdd = {}].entries
                              = runs[c].entries
    BY <1>a DEF RunState
  <2> QED BY <1>7, <2>1 DEF Crash, EntriesMove
<1>8. ASSUME NEW t \in Threads, Continue(t) PROVE runs' = runs
  BY <1>8 DEF Continue, AddAnswer, ChangeReported, SweepMarks, AfterFinish,
     CancelPending, PassOn, AddExecution, Settle, WriteStatus
<1>9. ASSUME NEW t \in Calls, NEW i \in Instances, NEW e \in Executions,
             \/ NotNow(t, i, e) \/ Defer(t, i, e)
             \/ \E status \in {"SUCCESS", "FAILED"} : Report(t, i, e, status)
      PROVE  runs' = runs
  BY <1>9 DEF NotNow, Defer, Report
<1>10. ASSUME NEW i \in Instances,
              \/ CheckIn(i) \/ Offer(i) \/ InstanceChanges(i)
              \/ \E e \in Executions : Accept(i, e) \/ Progress(i, e) \/ JobEnds(i, e)
       PROVE  runs' = runs
  BY <1>10 DEF CheckIn, Offer, InstanceChanges, Accept, Progress, JobEnds
<1>11. ASSUME NEW t \in Sweeps, SweepLists(t) PROVE runs' = runs
  BY <1>11 DEF SweepLists
<1>12. ASSUME NEW e \in Executions, Elapse(e) PROVE runs' = runs
  BY <1>12 DEF Elapse
<1>13. CASE UNCHANGED vars
  BY <1>1, <1>13 DEF vars
<1> QED BY <1>1, <1>3, <1>4, <1>5, <1>6, <1>7, <1>8, <1>9, <1>10, <1>11, <1>12, <1>13
       DEF Next, Run

(* The one result of a command, which is never written again (run,         *)
(* addResult), says of each finished execution what its row says for good, *)
(* with the answer of each success stored.                                 *)
THEOREM ResultStaysTrue == Spec => []ResultIsTrue
<1> DEFINE Inv == TypeInv /\ SuccessHasAnswer /\ EntriesTrue
<1>1. Init => Inv
  <2> SUFFICES ASSUME Init PROVE Inv
    OBVIOUS
  <2>1. SuccessHasAnswer
    BY DEF Init, SuccessHasAnswer, NoExecution
  <2>2. EntriesTrue
    BY DEF Init, EntriesTrue, Finished
  <2> QED BY <2>1, <2>2, InitTypes
<1>2. Inv /\ [Next]_vars => Inv'
  <2> SUFFICES ASSUME Inv, [Next]_vars PROVE Inv'
    OBVIOUS
  <2>1. TypeInv'
    BY NextTypes
  <2>2. (\A e \in Executions : RowMove(e)) /\ answers \subseteq answers'
    BY RowMoves, EachRowMoves DEF RowsMove, TypeInv
  <2>3. SuccessHasAnswer'
    BY <2>2 DEF SuccessHasAnswer, RowMove
  <2>4. ASSUME NEW c \in Commands, NEW e \in Executions, runs'[c].entries[e] \in Finished
        PROVE  /\ executions'[e].status = runs'[c].entries[e]
               /\ executions'[e].commandId = c
    <3>1. CASE runs'[c].entries = runs[c].entries
      <4>1. executions[e].status = runs[c].entries[e] /\ executions[e].commandId = c
        BY <2>4, <3>1 DEF EntriesTrue
      <4>2. executions'[e] = executions[e]
        BY <2>2, <2>4, <3>1, <4>1 DEF RowMove, Finished
      <4> QED BY <3>1, <4>1, <4>2
    <3>2. CASE /\ executions' = executions
               /\ runs'[c].entries = [d \in Executions |->
                    IF d \in Of(c) THEN executions[d].status ELSE "NONE"]
      BY <2>4, <3>2 DEF Of, Finished
    <3> QED BY <3>1, <3>2, EntriesMoves DEF EntriesMove, TypeInv
  <2>5. EntriesTrue'
    BY <2>4 DEF EntriesTrue
  <2> QED BY <2>1, <2>3, <2>5
<1>3. Inv => ResultIsTrue
  BY DEF TypeInv, TypeOK, EntriesTrue, SuccessHasAnswer, ResultIsTrue
<1> QED BY <1>1, <1>2, <1>3, PTL DEF Spec

-----------------------------------------------------------------------------
(* A command's status: it is decided on lists that may be old when it is    *)
(* written, by requests of which several may be at work for one command.   *)

Issued == {e \in Executions : executions[e].status # "NONE"}

(* A command that may say SUCCESS: its status was decided on lists that     *)
(* may be old by now, but what they said of it stays so.                    *)
Earned(c) ==
  /\ Succeeded(c) # {}
  /\ commands[c].way # "dynamic" /\ c \notin outrun =>
       \/ AllFinished(c)
       \/ commands[c].enough \in 1..Cardinality(Succeeded(c))

(* Every execution is one of a command whose run has begun. *)
RowsKnown ==
  /\ IsFiniteSet(Issued)
  /\ \A e \in Executions \ Issued : executions[e].commandId = NoOne
  /\ \A e \in Issued : /\ executions[e].commandId \in Commands
                       /\ runs[executions[e].commandId].pc # "idle"

(* What a request is about, and what it is about to do. *)
Fine(t) ==
  /\ thread[t].todo \subseteq Issued
  /\ thread[t].pc \notin {"idle", "sweep"} => thread[t].execution \in Issued
  /\ thread[t].pc = "addExecution" => commands[CommandOf(t)].way = "dynamic"
  /\ thread[t].pc = "write" =>
       \/ thread[t].status = "FAILED"
       \/ thread[t].status = "SUCCESS" /\ Earned(CommandOf(t))

(* A run that has added all has added some. *)
AddedSome(c) == runs[c].pc = "adding" /\ runs[c].toAdd = {} => Of(c) # {}

(* A request that is bound to see to the command's status, or to add an     *)
(* execution.                                                               *)
SeesTo(t, c) ==
  /\ thread[t].pc \in {"afterFinish", "cancel", "passOn", "addExecution", "settle", "write"}
  /\ thread[t].execution \in Of(c)

SetGoing(c) ==
  runs[c].pc \in {"waiting", "read", "done"} /\ crashes = 0 /\ c \notin early

Noticed(c) ==
  SetGoing(c) /\ AllFinished(c) =>
    \/ commands[c].status \in Finished
    \/ \E t \in Threads : SeesTo(t, c)

Known ==
  /\ RowsKnown
  /\ \A t \in Threads : Fine(t)
  /\ \A c \in Commands : /\ commands[c].status = "SUCCESS" => Earned(c)
                         /\ AddedSome(c)
                         /\ Noticed(c)

(* All that is known from the start, *)
LEMMA InitKnown == ASSUME Init PROVE Known
<1>1. executions = [e \in Executions |-> NoExecution] /\ NoExecution.status = "NONE"
      /\ NoExecution.commandId = NoOne
  BY DEF Init, NoExecution
<1>2. Issued = {}
  BY <1>1 DEF Issued
<1>3. RowsKnown
  BY <1>1, <1>2, FS_EmptySet DEF RowsKnown
<1>4. \A t \in Threads : Fine(t)
  BY DEF Init, Idle, Fine
<1>5. \A c \in Commands : commands[c].status = "NONE" /\ runs[c].pc = "idle"
  BY DEF Init
<1> QED BY <1>3, <1>4, <1>5 DEF Known, AddedSome, Noticed, SetGoing

-----------------------------------------------------------------------------
(* What a step does to a command's run, *)
RunMove(c) ==
  \/ runs'[c].pc = runs[c].pc /\ runs'[c].toAdd = runs[c].toAdd
  \/ runs[c].pc = "idle" /\ runs'[c].pc = "adding" /\ runs'[c].toAdd # {}
  \/ runs[c].pc = "adding" /\ runs'[c].pc = "adding" /\ Of(c)' # {}
  \/ /\ runs[c].pc = "adding" /\ runs[c].toAdd = {} /\ runs'[c].pc = "waiting"
     /\ executions' = executions /\ (FinishedEarly(c) => c \in early')
  \/ runs[c].pc \in {"waiting", "read"} /\ runs'[c].pc \in {"read", "done"}
  \/ /\ runs[c].pc # "idle" /\ runs'[c].pc = "done" /\ crashes' # 0
     /\ executions' = executions /\ (FinishedEarly(c) => c \in early')

(* to its row, *)
CommandMove(c) ==
  \/ commands'[c] = commands[c]
  \/ runs[c].pc = "idle" /\ commands'[c].status = "PENDING"
  \/ /\ commands'[c].way = commands[c].way /\ commands'[c].enough = commands[c].enough
     /\ \/ runs[c].pc = "adding" /\ commands'[c].status = "RUNNING"
        \/ \E t \in Threads : /\ thread[t].pc = "write" /\ CommandOf(t) = c
                              /\ commands'[c].status = thread[t].status

(* and which executions it adds, for whom: the run while it adds, which     *)
(* notes whether it was outrun, or a request that passes a command on to    *)
(* the next service.                                                        *)
RowsAdded ==
  \/ Issued' \subseteq Issued
  \/ \E e \in Executions \ Issued, c \in Commands :
       /\ Issued' \subseteq Issued \cup {e}
       /\ executions'[e].commandId = c /\ executions'[e].status = "PENDING"
       /\ \/ /\ runs[c].pc = "adding" /\ runs'[c].pc = "adding"
             /\ FinishedEarly(c) => c \in outrun'
          \/ runs[c].pc # "idle" /\ commands[c].way = "dynamic"

StepMove ==
  /\ early \subseteq early' /\ outrun \subseteq outrun'
  /\ crashes' = 0 => crashes = 0
  /\ RowsAdded
  /\ \A c \in Commands : RunMove(c) /\ CommandMove(c)

(* A step that leaves the commands and their runs alone. *)
LEMMA RunsStay ==
  ASSUME commands' = commands, runs' = runs, early' = early, outrun' = outrun,
         crashes' = crashes, RowsAdded
  PROVE  StepMove
BY DEF StepMove, RunMove, CommandMove

(* A step that changes one row there is already, or none. *)
LEMMA OldRow ==
  ASSUME TypeOK,
         \/ executions' = executions
         \/ \E d \in Issued : \E row \in WorkExecution : executions' = [executions EXCEPT ![d] = row]
  PROVE  RowsAdded
<1>1. \A e \in Executions \ Issued : executions'[e] = executions[e]
  BY DEF TypeOK
<1> QED BY <1>1 DEF RowsAdded, Issued

LEMMA NewRow ==
  ASSUME TypeOK, NEW e \in Executions, NEW c \in Commands, NEW s \in Services \cup {NoOne}, NextID(e),
         executions' = Inserted(e, c, s)
  PROVE  /\ e \notin Issued /\ Issued' \subseteq Issued \cup {e}
         /\ executions'[e].commandId = c /\ executions'[e].status = "PENDING"
<1> DEFINE row == [NoExecution EXCEPT !.status = "PENDING", !.commandId = c,
                                      !.serviceVersionId = s]
<1>1. row.commandId = c /\ row.status = "PENDING"
  BY DEF NoExecution
<1>2. executions' = [executions EXCEPT ![e] = row]
  BY DEF Inserted
<1> HIDE DEF row
<1>3. executions'[e] = row /\ \A d \in Executions \ {e} : executions'[d] = executions[d]
  BY <1>2 DEF TypeOK
<1> QED BY <1>1, <1>3 DEF NextID, Issued

LEMMA RunStepMoves ==
  ASSUME TypeInv, NEW c \in Commands,
         Run(c) \/ \E request \in Requests : CreateCommand(c, request)
  PROVE  StepMove
<1> USE DEF TypeInv
<1>a. /\ TypeOK /\ runs[c] \in RunState /\ commands[c] \in CommandRow
      /\ runs \in [Commands -> RunState] /\ commands \in [Commands -> CommandRow]
  BY DEF TypeOK
<1>1. ASSUME NEW request \in Requests, CreateCommand(c, request) PROVE StepMove
  <2>1. PICK chosen : chosen # {} /\ runs' = [runs EXCEPT ![c].pc = "adding", ![c].toAdd = chosen]
    BY <1>1 DEF CreateCommand
  <2>2. runs'[c].pc = "adding" /\ runs'[c].toAdd = chosen
    BY <2>1, <1>a DEF RunState
  <2>3. \A d \in Commands \ {c} : runs'[d] = runs[d] /\ commands'[d] = commands[d]
    BY <2>1, <1>a, <1>1 DEF CreateCommand
  <2>4. runs[c].pc = "idle" /\ commands'[c].status = "PENDING"
    BY <1>1, <1>a DEF CreateCommand
  <2>5. RowsAdded /\ early' = early /\ outrun' = outrun /\ crashes' = crashes
    BY <1>1, <1>a, OldRow DEF CreateCommand
  <2> QED BY <2>1, <2>2, <2>3, <2>4, <2>5 DEF StepMove, RunMove, CommandMove
<1>2. CASE RunAdds(c)
  <2>1. PICK e \in Executions, s \in runs[c].toAdd :
          /\ NextID(e) /\ executions' = Inserted(e, c, s)
          /\ runs' = [runs EXCEPT ![c].toAdd = runs[c].toAdd \ {s}]
    BY <1>2 DEF RunAdds
  <2>2. s \in Services
    BY <2>1, <1>a DEF RunState
  <2>3. /\ e \notin Issued /\ Issued' \subseteq Issued \cup {e}
        /\ executions'[e].commandId = c /\ executions'[e].status = "PENDING"
    BY <2>1, <2>2, <1>a, NewRow
  <2>4. runs[c].pc = "adding" /\ runs'[c].pc = "adding"
    BY <1>2, <2>1, <1>a DEF RunAdds, RunState
  <2>5. \A d \in Commands \ {c} : runs'[d] = runs[d]
    BY <2>1, <1>a
  <2>6. Of(c)' # {}
    BY <2>3 DEF Of
  <2>7. (FinishedEarly(c) => c \in outrun') /\ outrun \subseteq outrun'
    BY <1>2 DEF RunAdds
  <2>8. RowsAdded
    BY <2>3, <2>4, <2>7 DEF RowsAdded
  <2> QED BY <1>2, <2>4, <2>5, <2>6, <2>7, <2>8 DEF RunAdds, StepMove, RunMove, CommandMove
<1>3. CASE RunStarts(c)
  <2>1. /\ runs[c].pc = "adding" /\ runs[c].toAdd = {} /\ runs'[c].pc = "waiting"
        /\ \A d \in Commands \ {c} : runs'[d] = runs[d] /\ commands'[d] = commands[d]
    BY <1>3, <1>a DEF RunStarts, RunState
  <2>2. /\ commands'[c].way = commands[c].way /\ commands'[c].enough = commands[c].enough
        /\ commands'[c].status = "RUNNING"
    BY <1>3, <1>a DEF RunStarts, CommandRow
  <2>3. /\ early \subseteq early' /\ (FinishedEarly(c) => c \in early') /\ crashes' = crashes
        /\ executions' = executions /\ outrun' = outrun
    BY <1>3 DEF RunStarts
  <2>4. RowsAdded
    BY <2>3, <1>a, OldRow
  <2> QED BY <2>1, <2>2, <2>3, <2>4 DEF StepMove, RunMove, CommandMove
<1>4. CASE RunReads(c) \/ RunRecords(c)
  <2>1. /\ runs[c].pc \in {"waiting", "read"} /\ runs'[c].pc \in {"read", "done"}
        /\ \A d \in Commands \ {c} : runs'[d] = runs[d]
    BY <1>4, <1>a DEF RunReads, RunRecords, RunState
  <2>2. RowsAdded
    BY <1>4, <1>a, OldRow DEF RunReads, RunRecords
  <2> QED BY <1>4, <2>1, <2>2 DEF RunReads, RunRecords, StepMove, RunMove, CommandMove
<1> QED BY <1>1, <1>2, <1>3, <1>4 DEF Run

LEMMA StepMoves ==
  ASSUME TypeInv, Known, [Next]_vars
  PROVE  StepMove
<1> USE DEF TypeInv
<1>a. TypeOK /\ \A e \in Executions : executions[e] \in WorkExecution
  BY DEF TypeOK
<1>1. CASE UNCHANGED vars
  BY <1>1, <1>a, OldRow, RunsStay DEF vars
<1>2. ASSUME NEW c \in Commands,
             Run(c) \/ \E request \in Requests : CreateCommand(c, request)
      PROVE  StepMove
  BY <1>2, RunStepMoves
<1>3. ASSUME NEW i \in Instances, CheckIn(i) \/ Offer(i) \/ InstanceChanges(i)
      PROVE  StepMove
  <2>1. CASE CheckIn(i) \/ InstanceChanges(i)
    BY <2>1, <1>a, OldRow, RunsStay DEF CheckIn, InstanceChanges
  <2>2. CASE Offer(i)
    <3>1. PICK e \in Executions :
            /\ Claimable(e, ServiceOf[i])
            /\ executions' = [executions EXCEPT ![e] =
                 [executions[e] EXCEPT !.status = "WAITING", !.instanceId = i,
                                       !.deferred = FALSE, !.overdue = FALSE]]
      BY <2>2 DEF Offer
    <3>2. [executions[e] EXCEPT !.status = "WAITING", !.instanceId = i,
                                !.deferred = FALSE, !.overdue = FALSE] \in WorkExecution
      BY <1>a DEF WorkExecution
    <3>3. e \in Issued
      BY <3>1 DEF Claimable, Issued
    <3>4. RowsAdded
      BY <1>a, <3>1, <3>2, <3>3, OldRow
    <3> QED BY <2>2, <3>4, RunsStay DEF Offer
  <2> QED BY <1>3, <2>1, <2>2
<1>4. ASSUME NEW e \in Executions, NEW status \in {"RUNNING", "SUCCESS", "FAILED"},
             e \in Issued, executions' = Put(e, status)
      PROVE  RowsAdded
  BY <1>4, <1>a, RowType, OldRow DEF Put
<1>5. ASSUME NEW i \in Instances, NEW e \in Executions, Accept(i, e) \/ Progress(i, e)
      PROVE  StepMove
  <2>1. e \in Issued /\ executions' = Put(e, "RUNNING")
    BY <1>5 DEF Accept, Progress, Expected, Issued
  <2> QED BY <1>4, <1>5, <2>1, RunsStay DEF Accept, Progress
<1>6. ASSUME NEW t \in Calls, NEW i \in Instances, NEW e \in Executions,
             \/ NotNow(t, i, e) \/ Defer(t, i, e)
             \/ \E status \in {"SUCCESS", "FAILED"} : Report(t, i, e, status)
      PROVE  StepMove
  <2>1. CASE NotNow(t, i, e)
    <3>1. e \in Issued /\ executions' = Put(e, "FAILED")
      BY <2>1 DEF NotNow, Expected, Issued
    <3> QED BY <1>4, <2>1, <3>1, RunsStay DEF NotNow
  <2>2. CASE Defer(t, i, e)
    <3>1. [executions[e] EXCEPT !.status = "PENDING", !.deferred = TRUE,
                                !.overdue = FALSE] \in WorkExecution
      BY <1>a DEF WorkExecution
    <3>2. e \in Issued
      BY <2>2 DEF Defer, Expected, Issued
    <3>3. RowsAdded
      BY <1>a, <2>2, <3>1, <3>2, OldRow DEF Defer
    <3> QED BY <2>2, <3>3, RunsStay DEF Defer
  <2>3. ASSUME NEW status \in {"SUCCESS", "FAILED"}, Report(t, i, e, status)
        PROVE  StepMove
    BY <2>3, <1>a, OldRow, RunsStay DEF Report
  <2> QED BY <1>6, <2>1, <2>2, <2>3
<1>7. ASSUME NEW t \in Sweeps, SweepLists(t) PROVE StepMove
  BY <1>7, <1>a, OldRow, RunsStay DEF SweepLists
<1>8. ASSUME NEW t \in Threads, Continue(t) PROVE StepMove
  <2>a. /\ thread[t].pc \notin {"idle", "sweep"} => thread[t].execution \in Issued
        /\ thread[t].todo \subseteq Issued
        /\ thread[t] \in ThreadState
    BY DEF Known, Fine, TypeOK
  <2>1. CASE AddAnswer(t) \/ AfterFinish(t) \/ PassOn(t) \/ Settle(t)
    BY <2>1, <1>a, OldRow, RunsStay DEF AddAnswer, AfterFinish, PassOn, Settle
  <2>2. CASE ChangeReported(t)
    <3> DEFINE e == thread[t].execution
    <3>1. /\ thread[t].status \in {"SUCCESS", "FAILED"} /\ e \in Issued
          /\ executions' = executions \/ executions' = Put(e, thread[t].status)
      BY <2>2, <2>a DEF ChangeReported, ThreadOK
    <3>2. RowsAdded
      BY <1>a, <1>4, <3>1, OldRow DEF Issued
    <3> QED BY <2>2, <3>2, RunsStay DEF ChangeReported
  <2>3. CASE SweepMarks(t)
    <3>1. PICK e \in thread[t].todo : executions' = executions \/ executions' = Put(e, "FAILED")
      BY <2>3 DEF SweepMarks
    <3>2. RowsAdded
      BY <1>a, <1>4, <2>a, <3>1, OldRow DEF Issued
    <3> QED BY <2>3, <3>2, RunsStay DEF SweepMarks
  <2>4. CASE CancelPending(t)
    <3>1. \A e \in Executions \ Issued : executions'[e] = executions[e]
      BY <2>4 DEF CancelPending, Issued
    <3>2. RowsAdded
      BY <3>1 DEF RowsAdded, Issued
    <3> QED BY <2>4, <3>2, RunsStay DEF CancelPending
  <2>5. CASE AddExecution(t)
    <3> DEFINE c == CommandOf(t)
    <3>1. /\ c \in Commands /\ runs[c].pc # "idle" /\ commands[c].way = "dynamic"
      BY <2>5, <2>a DEF AddExecution, Known, RowsKnown, Fine, CommandOf
    <3>2. thread[t].next \in Services \cup {NoOne}
      BY <2>a DEF ThreadState
    <3>3. PICK e \in Executions : NextID(e) /\ executions' = Inserted(e, c, thread[t].next)
      BY <2>5 DEF AddExecution
    <3> HIDE DEF c
    <3>4. /\ e \notin Issued /\ Issued' \subseteq Issued \cup {e}
          /\ executions'[e].commandId = c /\ executions'[e].status = "PENDING"
      BY <1>a, <3>1, <3>2, <3>3, NewRow
    <3>5. RowsAdded
      BY <3>1, <3>4 DEF RowsAdded
    <3> QED BY <2>5, <3>5, RunsStay DEF AddExecution
  <2>6. CASE WriteStatus(t)
    <3>1. /\ RowsAdded /\ runs' = runs /\ early' = early /\ outrun' = outrun
          /\ crashes' = crashes
      BY <2>6, <1>a, OldRow DEF WriteStatus
    <3>2. commands' = [commands EXCEPT ![CommandOf(t)].status = thread[t].status]
          /\ thread[t].pc = "write"
      BY <2>6 DEF WriteStatus
    <3>3. ASSUME NEW c \in Commands PROVE CommandMove(c)
      <4>1. commands[c] \in CommandRow /\ commands \in [Commands -> CommandRow]
        BY <1>a DEF TypeOK
      <4>2. CASE CommandOf(t) = c
        <5>1. commands'[c] = [commands[c] EXCEPT !.status = thread[t].status]
          BY <3>2, <4>1, <4>2
        <5> QED BY <3>2, <4>1, <4>2, <5>1 DEF CommandMove, CommandRow
      <4>3. CASE CommandOf(t) # c
        BY <3>2, <4>1, <4>3 DEF CommandMove
      <4> QED BY <4>2, <4>3
    <3> QED BY <3>1, <3>3 DEF StepMove, RunMove
  <2> QED BY <1>8, <2>1, <2>2, <2>3, <2>4, <2>5, <2>6 DEF Continue
<1>9. ASSUME NEW e \in Executions, Elapse(e) PROVE StepMove
  <2>1. [executions[e] EXCEPT !.overdue = TRUE] \in WorkExecution /\ e \in Issued
    BY <1>9, <1>a DEF Elapse, PutOff, WorkExecution, Issued
  <2>2. executions' = [executions EXCEPT ![e] = [executions[e] EXCEPT !.overdue = TRUE]]
    BY <1>9 DEF Elapse
  <2>3. RowsAdded
    BY <1>a, <2>1, <2>2, OldRow
  <2> QED BY <1>9, <2>3, RunsStay DEF Elapse
<1>10. CASE Crash
  <2>1. /\ RowsAdded /\ early \subseteq early' /\ outrun' = outrun /\ executions' = executions
        /\ \A c \in Commands : CommandMove(c) /\ (FinishedEarly(c) => c \in early')
    BY <1>10, <1>a, OldRow DEF Crash, CommandMove
  <2>2. crashes' # 0
    <3>1. crashes \in 0 .. MaxCrashes /\ crashes' = crashes + 1 /\ MaxCrashes \in Nat
      BY <1>10, WorkAssumption DEF Crash, TypeOK
    <3> QED BY <3>1
  <2>3. \A c \in Commands :
          \/ runs'[c] = runs[c]
          \/ runs[c].pc # "idle" /\ runs'[c].pc = "done"
    <3>1. \A c \in Commands : runs[c] \in RunState
      BY <1>a DEF TypeOK
    <3> QED BY <1>10, <3>1 DEF Crash, RunState
  <2> QED BY <2>1, <2>2, <2>3 DEF StepMove, RunMove
<1>11. ASSUME NEW i \in Instances, NEW e \in Executions, JobEnds(i, e) PROVE StepMove
  BY <1>11, <1>a, OldRow, RunsStay DEF JobEnds
<1> QED BY <1>1, <1>2, <1>3, <1>5, <1>6, <1>7, <1>8, <1>9, <1>10, <1>11 DEF Next

(* What a step never takes back. *)
LEMMA Kept ==
  ASSUME TypeInv, Known, [Next]_vars
  PROVE  /\ \A e \in Issued : /\ e \in Issued'
                              /\ executions'[e].commandId = executions[e].commandId
                              /\ executions[e].status \in Finished => executions'[e] = executions[e]
         /\ \A c \in Commands : runs[c].pc # "idle" =>
              /\ runs'[c].pc # "idle"
              /\ commands'[c].way = commands[c].way /\ commands'[c].enough = commands[c].enough
         /\ RowsKnown'
         /\ \A c \in Commands : Of(c) \subseteq Of(c)' /\ Succeeded(c) \subseteq Succeeded(c)'
<1>a. StepMove /\ RowsKnown /\ NoOne \notin Commands
  BY StepMoves, WorkAssumption DEF Known
<1>b. \A e \in Executions : RowMove(e)
  BY RowMoves, EachRowMoves DEF RowsMove, TypeInv
<1>1. \A e \in Issued : /\ e \in Issued'
                        /\ executions'[e].commandId = executions[e].commandId
                        /\ executions[e].status \in Finished => executions'[e] = executions[e]
  BY <1>b DEF Issued, RowMove, Finished
<1>2. \A c \in Commands : runs[c].pc # "idle" =>
        /\ runs'[c].pc # "idle"
        /\ commands'[c].way = commands[c].way /\ commands'[c].enough = commands[c].enough
  BY <1>a DEF StepMove, RunMove, CommandMove
<1>3. IsFiniteSet(Issued')
  <2>1. CASE Issued' \subseteq Issued
    BY <1>a, <2>1, FS_Subset DEF RowsKnown
  <2>2. ASSUME NEW e \in Executions, Issued' \subseteq Issued \cup {e} PROVE IsFiniteSet(Issued')
    <3>1. IsFiniteSet(Issued \cup {e})
      BY <1>a, FS_AddElement DEF RowsKnown
    <3> QED BY <2>2, <3>1, FS_Subset
  <2> QED BY <1>a, <2>1, <2>2 DEF StepMove, RowsAdded
<1>4. \A e \in Executions \ Issued' : executions'[e].commandId = NoOne
  <2> TAKE e \in Executions \ Issued'
  <2>1. executions'[e].status = "NONE" /\ e \notin Issued
    BY <1>1 DEF Issued
  <2>2. executions'[e] = executions[e]
    BY <1>b, <2>1 DEF RowMove, Issued
  <2> QED BY <1>a, <2>1, <2>2 DEF RowsKnown
<1>5. \A e \in Issued' : /\ executions'[e].commandId \in Commands
                         /\ runs'[executions'[e].commandId].pc # "idle"
  <2> TAKE e \in Issued'
  <2>1. CASE e \in Issued
    BY <1>a, <1>1, <1>2, <2>1 DEF RowsKnown
  <2>2. CASE e \notin Issued
    BY <1>a, <1>2, <2>2 DEF StepMove, RowsAdded
  <2> QED BY <2>1, <2>2
<1>6. RowsKnown'
  BY <1>3, <1>4, <1>5 DEF RowsKnown
<1>7. ASSUME NEW c \in Commands PROVE Of(c) \subseteq Of(c)' /\ Succeeded(c) \subseteq Succeeded(c)'
  <2>1. Of(c) \subseteq Issued
    BY <1>a DEF Of, RowsKnown
  <2>2. Of(c) \subseteq Of(c)'
    BY <1>1, <2>1 DEF Of
  <2>3. ASSUME NEW e \in Succeeded(c) PROVE e \in Succeeded(c)'
    <3>1. e \in Of(c) /\ executions[e].status = "SUCCESS"
      BY DEF Succeeded
    <3>2. executions'[e] = executions[e] /\ e \in Of(c)'
      BY <1>1, <2>1, <2>2, <3>1 DEF Finished
    <3> QED BY <3>1, <3>2 DEF Succeeded
  <2> QED BY <2>2, <2>3
<1> QED BY <1>1, <1>2, <1>6, <1>7

(* A status that is earned stays so, however long it waits to be written. *)
LEMMA EarnedKept ==
  ASSUME TypeInv, Known, [Next]_vars, NEW c \in Commands, Earned(c)
  PROVE  Earned(c)'
<1>a. /\ StepMove /\ RowsKnown /\ RowsKnown' /\ NoOne \notin Commands
      /\ Of(c) \subseteq Of(c)' /\ Succeeded(c) \subseteq Succeeded(c)'
  BY StepMoves, Kept, WorkAssumption DEF Known
<1>1. PICK s \in Of(c) : executions[s].status = "SUCCESS"
  BY DEF Earned, Succeeded
<1>2. Of(c) \subseteq Issued /\ Of(c)' \subseteq Issued'
  BY <1>a DEF Of, RowsKnown
<1>3. runs[c].pc # "idle"
  BY <1>a, <1>1, <1>2 DEF Of, RowsKnown
<1>4. commands'[c].way = commands[c].way /\ commands'[c].enough = commands[c].enough
  BY <1>3, Kept
<1>5. Succeeded(c)' # {}
  BY <1>a DEF Earned
<1>6. ASSUME commands'[c].way # "dynamic", c \notin outrun'
      PROVE  AllFinished(c)' \/ commands'[c].enough \in 1..Cardinality(Succeeded(c)')
  <2>1. commands[c].way # "dynamic" /\ c \notin outrun
    BY <1>4, <1>6, <1>a DEF StepMove
  <2>2. runs[c].pc = "adding" => FinishedEarly(c)
    BY <1>1 DEF FinishedEarly, Finished
  <2>3. CASE AllFinished(c)
    <3>1. ASSUME NEW e \in Of(c)' PROVE e \in Of(c)
      <4>1. CASE e \in Issued
        BY <3>1, <4>1, Kept DEF Of
      <4>2. CASE e \notin Issued
        <5>1. PICK d \in Executions \ Issued, b \in Commands :
                /\ Issued' \subseteq Issued \cup {d} /\ executions'[d].commandId = b
                /\ \/ runs[b].pc = "adding" /\ (FinishedEarly(b) => b \in outrun')
                   \/ commands[b].way = "dynamic"
          BY <1>2, <1>a, <3>1, <4>2 DEF StepMove, RowsAdded
        <5>2. e = d /\ executions'[e].commandId = c
          BY <1>2, <3>1, <4>2, <5>1 DEF Of
        <5> QED BY <1>6, <2>1, <2>2, <5>1, <5>2
      <4> QED BY <4>1, <4>2
    <3>2. \A e \in Of(c)' : executions'[e].status \in Finished
      BY <1>2, <2>3, <3>1, Kept DEF AllFinished
    <3> QED BY <3>2 DEF AllFinished
  <2>4. CASE commands[c].enough \in 1..Cardinality(Succeeded(c))
    <3>1. IsFiniteSet(Succeeded(c)')
      <4>1. Succeeded(c)' \subseteq Issued' /\ IsFiniteSet(Issued')
        BY <1>a, <1>2 DEF Succeeded, RowsKnown
      <4> QED BY <4>1, FS_Subset
    <3>2. /\ IsFiniteSet(Succeeded(c))
          /\ Cardinality(Succeeded(c)) <= Cardinality(Succeeded(c)')
      BY <1>a, <3>1, FS_Subset
    <3>3. Cardinality(Succeeded(c)) \in Nat /\ Cardinality(Succeeded(c)') \in Nat
      BY <3>1, <3>2, FS_CardinalityType
    <3> QED BY <1>4, <2>4, <3>2, <3>3
  <2> QED BY <2>1, <2>2, <2>3, <2>4 DEF Earned
<1>7. Cardinality(Succeeded(c)') = Cardinality(Succeeded(c))'
  OBVIOUS
<1> QED BY <1>5, <1>6 DEF Earned

-----------------------------------------------------------------------------
(* How a request moves on.                                                 *)

Stages == {"afterFinish", "cancel", "passOn", "addExecution", "settle", "write"}

(* It begins, or comes to an execution; *)
Begins(t) ==
  /\ thread[t].pc \notin Stages
  /\ thread'[t].todo \subseteq Issued
  /\ \/ thread'[t].pc \in {"idle", "sweep"}
     \/ /\ thread'[t].pc \in {"addAnswer", "change", "afterFinish", "passOnDeferred"}
        /\ thread'[t].execution \in Issued

(* goes on with it; *)
GoesOn(t) ==
  /\ thread[t].pc \in Stages \cup {"passOnDeferred"}
  /\ thread'[t].todo = thread[t].todo /\ thread'[t].execution = thread[t].execution
  /\ \/ thread'[t].pc \in {"cancel", "passOn", "settle"}
     \/ thread'[t].pc = "addExecution" /\ commands[CommandOf(t)].way = "dynamic"
     \/ /\ thread'[t].pc = "write" /\ Settle(t)
        /\ thread'[t].status = Settled(CommandOf(t), thread[t].seen)
        /\ thread'[t].status # "NONE"

(* has done with it. *)
Ends(t) ==
  /\ thread'[t].todo \subseteq thread[t].todo /\ thread'[t].pc \in {"idle", "sweep"}
  /\ \/ AddExecution(t) \/ WriteStatus(t)
     \/ Settle(t) /\ Settled(CommandOf(t), thread[t].seen) = "NONE"

ThreadMove(t) ==
  \/ thread'[t] = thread[t]
  \/ crashes' # 0 /\ thread'[t] = Idle
  \/ Begins(t) \/ GoesOn(t) \/ Ends(t)

LEMMA OneThread ==
  ASSUME TypeOK, NEW t \in Threads, NEW row, thread' = [thread EXCEPT ![t] = row]
  PROVE  thread'[t] = row /\ \A u \in Threads \ {t} : ThreadMove(u)
BY DEF TypeOK, ThreadMove

LEMMA AfterIs ==
  ASSUME NEW todo
  PROVE  After(todo).todo = todo /\ After(todo).pc \in {"idle", "sweep"}
BY DEF After, Idle

LEMMA ContinueMoves ==
  ASSUME TypeInv, Known, NEW t \in Threads, Continue(t)
  PROVE  \A u \in Threads : ThreadMove(u)
<1>a. /\ TypeOK /\ ThreadOK
      /\ thread[t] \in ThreadState
      /\ thread[t].pc \notin {"idle", "sweep"} => thread[t].execution \in Issued
      /\ thread[t].todo \subseteq Issued
  BY DEF Known, Fine, TypeOK, TypeInv
<1>b. SUFFICES ASSUME NEW row, thread' = [thread EXCEPT ![t] = row]
               PROVE  ThreadMove(t)
  <2>1. \E row : thread' = [thread EXCEPT ![t] = row]
    BY DEF Continue, AddAnswer, ChangeReported, SweepMarks, AfterFinish, CancelPending,
           PassOn, AddExecution, Settle, WriteStatus
  <2> QED BY <1>a, <2>1, OneThread
<1>1. CASE AddAnswer(t)
  <2>1. thread' = [thread EXCEPT ![t] = [thread[t] EXCEPT !.pc = "change"]]
        /\ thread[t].pc = "addAnswer"
    BY <1>1 DEF AddAnswer
  <2>2. thread'[t] = [thread[t] EXCEPT !.pc = "change"]
    BY <1>a, <2>1, OneThread
  <2> QED BY <1>a, <2>1, <2>2 DEF ThreadMove, Begins, Stages, ThreadState
<1>2. CASE ChangeReported(t)
  <2>1. thread' = [thread EXCEPT ![t] = [thread[t] EXCEPT !.pc = "afterFinish", !.status = "NONE"]]
        /\ thread[t].pc = "change"
    BY <1>2 DEF ChangeReported
  <2>2. thread'[t] = [thread[t] EXCEPT !.pc = "afterFinish", !.status = "NONE"]
    BY <1>a, <2>1, OneThread
  <2> QED BY <1>a, <2>1, <2>2 DEF ThreadMove, Begins, Stages, ThreadState
<1>3. CASE SweepMarks(t)
  <2>1. PICK e \in thread[t].todo :
          \/ thread' = [thread EXCEPT ![t] = [thread[t] EXCEPT !.pc = "afterFinish",
                          !.execution = e, !.todo = thread[t].todo \ {e}]]
          \/ thread' = [thread EXCEPT ![t] = After(thread[t].todo \ {e})]
    BY <1>3 DEF SweepMarks
  <2>2. \/ thread'[t] = [thread[t] EXCEPT !.pc = "afterFinish",
                          !.execution = e, !.todo = thread[t].todo \ {e}]
        \/ thread'[t] = After(thread[t].todo \ {e})
    BY <1>a, <2>1, OneThread
  <2>3. CASE thread'[t] = After(thread[t].todo \ {e})
    BY <1>3, <1>a, <2>3, AfterIs DEF SweepMarks, ThreadMove, Begins, Stages
  <2>4. CASE thread'[t] = [thread[t] EXCEPT !.pc = "afterFinish",
                          !.execution = e, !.todo = thread[t].todo \ {e}]
    BY <1>3, <1>a, <2>4 DEF SweepMarks, ThreadMove, Begins, Stages, ThreadState
  <2> QED BY <2>2, <2>3, <2>4
<1>4. CASE AfterFinish(t) \/ CancelPending(t)
  <2>1. PICK pc \in {"settle", "cancel", "passOn"}, seen \in BOOLEAN :
          thread' = [thread EXCEPT ![t] = [thread[t] EXCEPT !.pc = pc, !.seen = seen]]
    <3>1. CASE AfterFinish(t)
      <4> DEFINE next == IF commands[CommandOf(t)].way # "dynamic" THEN "settle"
                         ELSE IF executions[thread[t].execution].status = "SUCCESS"
                         THEN "cancel" ELSE "passOn"
                 finished == commands[CommandOf(t)].status \in Finished
      <4>1. next \in {"settle", "cancel", "passOn"} /\ finished \in BOOLEAN
        OBVIOUS
      <4>2. thread' = [thread EXCEPT ![t] = [thread[t] EXCEPT !.pc = next, !.seen = finished]]
        BY <3>1 DEF AfterFinish
      <4> HIDE DEF next, finished
      <4> QED BY <4>1, <4>2
    <3>2. CASE CancelPending(t)
      <4>1. thread' = [thread EXCEPT ![t] = [thread[t] EXCEPT !.pc = "settle"]]
        BY <3>2 DEF CancelPending
      <4>2. [thread[t] EXCEPT !.pc = "settle"]
              = [thread[t] EXCEPT !.pc = "settle", !.seen = thread[t].seen]
        BY <1>a DEF ThreadState
      <4> QED BY <1>a, <4>1, <4>2 DEF ThreadState
    <3> QED BY <1>4, <3>1, <3>2
  <2>2. thread'[t] = [thread[t] EXCEPT !.pc = pc, !.seen = seen]
    BY <1>a, <2>1, OneThread
  <2>3. thread[t].pc \in Stages
    BY <1>4 DEF AfterFinish, CancelPending, Stages
  <2>4. /\ thread'[t].pc = pc /\ thread'[t].todo = thread[t].todo
        /\ thread'[t].execution = thread[t].execution
    BY <1>a, <2>2 DEF ThreadState
  <2> QED BY <2>3, <2>4 DEF ThreadMove, GoesOn
<1>5. CASE PassOn(t)
  <2>1. \/ /\ commands[CommandOf(t)].way = "dynamic"
           /\ \E s \in Services : thread' = [thread EXCEPT ![t] =
                [thread[t] EXCEPT !.pc = "addExecution", !.next = s]]
        \/ thread' = [thread EXCEPT ![t] = [thread[t] EXCEPT !.pc = "settle"]]
        \/ /\ thread[t].pc = "passOnDeferred"
           /\ thread' = [thread EXCEPT ![t] = After(thread[t].todo)]
    BY <1>5 DEF PassOn
  <2>2. thread[t].pc \in {"passOn", "passOnDeferred"}
    BY <1>5 DEF PassOn
  <2>3. ASSUME NEW s \in Services, commands[CommandOf(t)].way = "dynamic",
               thread' = [thread EXCEPT ![t] =
                 [thread[t] EXCEPT !.pc = "addExecution", !.next = s]]
        PROVE  ThreadMove(t)
    <3>1. thread'[t] = [thread[t] EXCEPT !.pc = "addExecution", !.next = s]
      BY <1>a, <2>3, OneThread
    <3>2. /\ thread'[t].pc = "addExecution" /\ thread'[t].todo = thread[t].todo
          /\ thread'[t].execution = thread[t].execution
      BY <1>a, <3>1 DEF ThreadState
    <3> QED BY <2>2, <2>3, <3>2 DEF ThreadMove, GoesOn, Stages
  <2>4. CASE thread' = [thread EXCEPT ![t] = [thread[t] EXCEPT !.pc = "settle"]]
    <3>1. thread'[t] = [thread[t] EXCEPT !.pc = "settle"]
      BY <1>a, <2>4, OneThread
    <3>2. /\ thread'[t].pc = "settle" /\ thread'[t].todo = thread[t].todo
          /\ thread'[t].execution = thread[t].execution
      BY <1>a, <3>1 DEF ThreadState
    <3> QED BY <2>2, <3>2 DEF ThreadMove, GoesOn, Stages
  <2>5. CASE thread[t].pc = "passOnDeferred" /\ thread' = [thread EXCEPT ![t] = After(thread[t].todo)]
    <3>1. thread'[t] = After(thread[t].todo)
      BY <1>a, <2>5, OneThread
    <3> QED BY <1>a, <2>5, <3>1, AfterIs DEF ThreadMove, Begins, Stages
  <2> QED BY <2>1, <2>3, <2>4, <2>5
<1>6. CASE AddExecution(t) \/ WriteStatus(t)
  <2>1. thread' = [thread EXCEPT ![t] = After(thread[t].todo)]
    BY <1>6 DEF AddExecution, WriteStatus
  <2>2. thread'[t] = After(thread[t].todo)
    BY <1>a, <2>1, OneThread
  <2> QED BY <1>6, <2>2, AfterIs DEF ThreadMove, Ends
<1>7. CASE Settle(t)
  <2> DEFINE status == Settled(CommandOf(t), thread[t].seen)
  <2>1. CASE status = "NONE"
    <3>1. thread' = [thread EXCEPT ![t] = After(thread[t].todo)]
      BY <1>7, <2>1 DEF Settle
    <3>2. thread'[t] = After(thread[t].todo)
      BY <1>a, <3>1, OneThread
    <3> QED BY <1>7, <2>1, <3>2, AfterIs DEF ThreadMove, Ends
  <2>2. CASE status # "NONE"
    <3>1. /\ thread' = [thread EXCEPT ![t] = [thread[t] EXCEPT !.pc = "write", !.status = status]]
          /\ thread[t].pc = "settle"
      BY <1>7, <2>2 DEF Settle
    <3>2. thread'[t] = [thread[t] EXCEPT !.pc = "write", !.status = status]
      BY <1>a, <3>1, OneThread
    <3> HIDE DEF status
    <3>3. /\ thread'[t].pc = "write" /\ thread'[t].todo = thread[t].todo
          /\ thread'[t].execution = thread[t].execution /\ thread'[t].status = status
      BY <1>a, <3>2 DEF ThreadState
    <3> QED BY <1>7, <2>2, <3>1, <3>3 DEF ThreadMove, GoesOn, Stages, status
  <2> QED BY <2>1, <2>2
<1> QED BY <1>1, <1>2, <1>3, <1>4, <1>5, <1>6, <1>7 DEF Continue

(* Every request moves so, at every step. *)
LEMMA EachThreadMoves ==
  ASSUME TypeInv, Known, [Next]_vars
  PROVE  \A u \in Threads : ThreadMove(u)
<1>a. TypeOK
  BY DEF TypeInv
<1>1. CASE thread' = thread
  BY <1>1 DEF ThreadMove
<1>2. ASSUME NEW t \in Calls, NEW i \in Instances, NEW e \in Executions,
             \/ NotNow(t, i, e) \/ Defer(t, i, e)
             \/ \E status \in {"SUCCESS", "FAILED"} : Report(t, i, e, status)
      PROVE  \A u \in Threads : ThreadMove(u)
  <2>1. e \in Issued /\ thread[t] = Idle /\ t \in Threads
    BY <1>2 DEF NotNow, Defer, Report, Expected, Issued, Threads
  <2>a. /\ thread[t] \in ThreadState
        /\ thread[t].todo = {}
    <3>1. Idle.todo = {}
      BY DEF Idle
    <3> QED BY <1>a, <2>1, <3>1 DEF TypeOK
  <2>2. PICK row :
          /\ thread' = [thread EXCEPT ![t] = row]
          /\ row.pc \in {"addAnswer", "change", "afterFinish", "passOnDeferred"}
          /\ row.execution = e /\ row.todo = {}
    <3>1. \A pc, status :
            LET row == [thread[t] EXCEPT !.pc = pc, !.execution = e, !.status = status]
            IN  row.pc = pc /\ row.execution = e /\ row.todo = {}
      BY <2>1, <2>a DEF ThreadState
    <3>2. \A pc :
            LET row == [thread[t] EXCEPT !.pc = pc, !.execution = e]
            IN  row.pc = pc /\ row.execution = e /\ row.todo = {}
      BY <2>1, <2>a DEF ThreadState
    <3>3. CASE NotNow(t, i, e) \/ Defer(t, i, e)
      <4>1. \E pc \in {"afterFinish", "passOnDeferred"} :
              thread' = [thread EXCEPT ![t] = [thread[t] EXCEPT !.pc = pc, !.execution = e]]
        BY <3>3 DEF NotNow, Defer
      <4> QED BY <3>2, <4>1
    <3>4. CASE \E status \in {"SUCCESS", "FAILED"} : Report(t, i, e, status)
      <4>1. PICK pc \in {"addAnswer", "change"}, status \in {"SUCCESS", "FAILED"} :
              thread' = [thread EXCEPT ![t] =
                          [thread[t] EXCEPT !.pc = pc, !.execution = e, !.status = status]]
        BY <3>4 DEF Report
      <4> DEFINE row == [thread[t] EXCEPT !.pc = pc, !.execution = e, !.status = status]
      <4>2. row.pc = pc /\ row.execution = e /\ row.todo = {}
        BY <3>1
      <4> HIDE DEF row
      <4>3. thread' = [thread EXCEPT ![t] = row]
        BY <4>1 DEF row
      <4> QED BY <4>2, <4>3
    <3> QED BY <1>2, <3>3, <3>4
  <2>3. thread'[t] = row /\ \A u \in Threads \ {t} : ThreadMove(u)
    BY <1>a, <2>1, <2>2, OneThread
  <2>4. /\ thread'[t].pc \in {"addAnswer", "change", "afterFinish", "passOnDeferred"}
        /\ thread'[t].execution = e /\ thread'[t].todo = {}
    BY <2>2, <2>3
  <2>5. thread[t].pc = "idle"
    BY <2>1 DEF Idle
  <2>6. ThreadMove(t)
    BY <2>1, <2>4, <2>5 DEF ThreadMove, Begins, Stages
  <2> QED BY <2>3, <2>6
<1>3. ASSUME NEW t \in Sweeps, SweepLists(t) PROVE \A u \in Threads : ThreadMove(u)
  <2>1. PICK silent \in SUBSET Issued :
          thread' = [thread EXCEPT ![t] = [thread[t] EXCEPT !.pc = "sweep", !.todo = silent]]
    BY <1>3 DEF SweepLists, Issued
  <2>2. t \in Threads /\ thread[t] = Idle
    BY <1>3 DEF SweepLists, Threads
  <2>3. thread'[t] = [Idle EXCEPT !.pc = "sweep", !.todo = silent]
        /\ \A u \in Threads \ {t} : ThreadMove(u)
    BY <1>a, <2>1, <2>2, OneThread
  <2>4. ThreadMove(t)
    BY <2>2, <2>3 DEF ThreadMove, Begins, Stages, Idle
  <2> QED BY <2>3, <2>4
<1>4. ASSUME NEW t \in Threads, Continue(t) PROVE \A u \in Threads : ThreadMove(u)
  BY <1>4, ContinueMoves
<1>5. CASE Crash
  <2>1. crashes \in 0 .. MaxCrashes /\ crashes' = crashes + 1 /\ MaxCrashes \in Nat
    BY <1>5, <1>a, WorkAssumption DEF Crash, TypeOK
  <2>2. crashes' # 0
    BY <2>1
  <2> QED BY <1>5, <2>2 DEF Crash, ThreadMove
<1>6. ASSUME NEW c \in Commands,
             Run(c) \/ \E request \in Requests : CreateCommand(c, request)
      PROVE  thread' = thread
  BY <1>6 DEF Run, CreateCommand, RunAdds, RunStarts, RunReads, RunRecords
<1>7. ASSUME NEW i \in Instances,
             \/ CheckIn(i) \/ Offer(i) \/ InstanceChanges(i)
             \/ \E e \in Executions : Accept(i, e) \/ Progress(i, e) \/ JobEnds(i, e)
      PROVE  thread' = thread
  BY <1>7 DEF CheckIn, Offer, InstanceChanges, Accept, Progress, JobEnds
<1>8. ASSUME NEW e \in Executions, Elapse(e) PROVE thread' = thread
  BY <1>8 DEF Elapse
<1>9. CASE UNCHANGED vars
  BY <1>1, <1>9 DEF vars
<1> QED BY <1>1, <1>2, <1>3, <1>4, <1>5, <1>6, <1>7, <1>8, <1>9 DEF Next

-----------------------------------------------------------------------------
(* An execution that finishes is seen to, by the request that finished it. *)
LEMMA FinishedIsSeenTo ==
  ASSUME TypeInv, Known, [Next]_vars, NEW c \in Commands,
         NEW e \in Issued, executions[e].commandId = c,
         executions[e].status \notin Finished, executions'[e].status \in Finished
  PROVE  \E t \in Threads : SeesTo(t, c)'
<1>a. /\ TypeOK /\ ThreadOK /\ e \in Executions
      /\ executions[e] \in WorkExecution /\ executions \in [Executions -> WorkExecution]
      /\ \A t \in Threads : thread[t] \in ThreadState
  BY DEF TypeOK, TypeInv, Issued
<1>b. /\ executions'[e].commandId = c
      /\ \A d \in Issued : executions'[d].commandId = executions[d].commandId
  BY Kept
<1>c. ASSUME NEW t \in Threads, NEW d \in Issued, executions[d].commandId = c,
             thread'[t].execution = d,
             thread'[t].pc \in {"afterFinish", "settle"}
      PROVE  SeesTo(t, c)'
  BY <1>b, <1>c DEF SeesTo, Of, Issued
<1>d. ASSUME NEW d \in Executions, NEW row, executions' = [executions EXCEPT ![d] = row],
             row.status \notin Finished
      PROVE  FALSE
  BY <1>a, <1>d
<1>e. ASSUME NEW d \in Executions, NEW status, executions' = Put(d, status)
      PROVE  d = e /\ status \in Finished
  <2>1. d = e
    BY <1>a, <1>e DEF Put
  <2>2. [executions[e] EXCEPT !.status = status, !.overdue = FALSE].status = status
    BY <1>a DEF WorkExecution
  <2> QED BY <1>a, <1>e, <2>1, <2>2 DEF Put
<1>1. executions' # executions
  OBVIOUS
<1>2. ASSUME NEW b \in Commands,
             Run(b) \/ \E request \in Requests : CreateCommand(b, request)
      PROVE  FALSE
  <2>1. PICK d \in Executions, s \in runs[b].toAdd : executions' = Inserted(d, b, s)
    BY <1>1, <1>2 DEF Run, CreateCommand, RunAdds, RunStarts, RunReads, RunRecords
  <2>2. [NoExecution EXCEPT !.status = "PENDING", !.commandId = b,
                            !.serviceVersionId = s].status = "PENDING"
    BY DEF NoExecution
  <2> QED BY <1>d, <2>1, <2>2 DEF Inserted, Finished
<1>3. ASSUME NEW i \in Instances,
             \/ CheckIn(i) \/ Offer(i) \/ InstanceChanges(i)
             \/ \E d \in Executions : Accept(i, d) \/ Progress(i, d) \/ JobEnds(i, d)
      PROVE  FALSE
  <2>1. CASE Offer(i)
    <3>1. PICK d \in Executions :
            executions' = [executions EXCEPT ![d] =
              [executions[d] EXCEPT !.status = "WAITING", !.instanceId = i,
                                    !.deferred = FALSE, !.overdue = FALSE]]
      BY <2>1 DEF Offer
    <3>2. [executions[d] EXCEPT !.status = "WAITING", !.instanceId = i,
                                !.deferred = FALSE, !.overdue = FALSE].status = "WAITING"
      BY <1>a DEF WorkExecution
    <3> QED BY <1>d, <3>1, <3>2 DEF Finished
  <2>2. ASSUME NEW d \in Executions, Accept(i, d) \/ Progress(i, d) PROVE FALSE
    BY <1>e, <2>2 DEF Accept, Progress, Finished
  <2> QED BY <1>1, <1>3, <2>1, <2>2 DEF CheckIn, InstanceChanges, JobEnds
<1>4. ASSUME NEW t \in Calls, NEW i \in Instances, NEW d \in Executions,
             \/ NotNow(t, i, d) \/ Defer(t, i, d)
             \/ \E status \in {"SUCCESS", "FAILED"} : Report(t, i, d, status)
      PROVE  \E u \in Threads : SeesTo(u, c)'
  <2>1. CASE NotNow(t, i, d)
    <3>1. /\ d = e /\ t \in Threads
          /\ thread' = [thread EXCEPT ![t] = [thread[t] EXCEPT !.pc = "afterFinish", !.execution = d]]
      BY <1>e, <2>1 DEF NotNow, Threads
    <3>2. thread'[t] = [thread[t] EXCEPT !.pc = "afterFinish", !.execution = d]
      BY <1>a, <3>1, OneThread
    <3>3. thread'[t].pc = "afterFinish" /\ thread'[t].execution = e
      BY <1>a, <3>1, <3>2 DEF ThreadState
    <3> QED BY <1>c, <3>1, <3>3
  <2>2. CASE Defer(t, i, d)
    <3>1. [executions[d] EXCEPT !.status = "PENDING", !.deferred = TRUE,
                                !.overdue = FALSE].status = "PENDING"
      BY <1>a DEF TypeOK, WorkExecution
    <3> QED BY <1>d, <2>2, <3>1 DEF Defer, Finished
  <2> QED BY <1>1, <1>4, <2>1, <2>2 DEF Report
<1>5. ASSUME NEW t \in Threads, Continue(t)
      PROVE  \E u \in Threads : SeesTo(u, c)'
  <2>1. CASE ChangeReported(t)
    <3>1. /\ executions' = Put(thread[t].execution, thread[t].status)
          /\ thread' = [thread EXCEPT ![t] = [thread[t] EXCEPT !.pc = "afterFinish", !.status = "NONE"]]
          /\ thread[t].execution \in Executions
      BY <1>1, <1>a, <2>1 DEF ChangeReported, ThreadOK
    <3>2. thread[t].execution = e
      BY <1>e, <3>1
    <3>3. thread'[t] = [thread[t] EXCEPT !.pc = "afterFinish", !.status = "NONE"]
      BY <1>a, <3>1, OneThread
    <3>4. thread'[t].pc = "afterFinish" /\ thread'[t].execution = e
      BY <1>a, <3>2, <3>3 DEF ThreadState
    <3> QED BY <1>c, <3>4
  <2>2. CASE SweepMarks(t)
    <3>1. PICK d \in thread[t].todo :
            /\ executions' = Put(d, "FAILED")
            /\ thread' = [thread EXCEPT ![t] =
                 [thread[t] EXCEPT !.pc = "afterFinish", !.execution = d,
                                   !.todo = thread[t].todo \ {d}]]
      BY <1>1, <2>2 DEF SweepMarks
    <3>2. d = e
      BY <1>a, <1>e, <3>1 DEF ThreadState
    <3>3. thread'[t] = [thread[t] EXCEPT !.pc = "afterFinish", !.execution = d,
                                         !.todo = thread[t].todo \ {d}]
      BY <1>a, <3>1, OneThread
    <3>4. thread'[t].pc = "afterFinish" /\ thread'[t].execution = e
      BY <1>a, <3>2, <3>3 DEF ThreadState
    <3> QED BY <1>c, <3>4
  <2>3. CASE CancelPending(t)
    <3>1. /\ thread[t].execution \in Issued
          /\ thread' = [thread EXCEPT ![t] = [thread[t] EXCEPT !.pc = "settle"]]
      BY <2>3 DEF CancelPending, Known, Fine
    <3>2. e \in Of(CommandOf(t))
      BY <1>a, <2>3 DEF CancelPending
    <3>3. thread'[t] = [thread[t] EXCEPT !.pc = "settle"]
      BY <1>a, <3>1, OneThread
    <3>4. thread'[t].pc = "settle" /\ thread'[t].execution = thread[t].execution
      BY <1>a, <3>3 DEF ThreadState
    <3>5. executions[thread[t].execution].commandId = c
      BY <3>2 DEF Of, CommandOf
    <3> QED BY <1>c, <3>1, <3>4, <3>5
  <2>4. CASE AddExecution(t)
    <3>1. PICK d \in Executions : executions' = Inserted(d, CommandOf(t), thread[t].next)
      BY <2>4 DEF AddExecution
    <3>2. [NoExecution EXCEPT !.status = "PENDING", !.commandId = CommandOf(t),
                              !.serviceVersionId = thread[t].next].status = "PENDING"
      BY DEF NoExecution
    <3> QED BY <1>d, <3>1, <3>2 DEF Inserted, Finished
  <2> QED BY <1>1, <1>5, <2>1, <2>2, <2>3, <2>4
         DEF Continue, AddAnswer, AfterFinish, PassOn, Settle, WriteStatus
<1>6. ASSUME NEW t \in Sweeps, SweepLists(t) PROVE FALSE
  BY <1>1, <1>6 DEF SweepLists
<1>7. ASSUME NEW d \in Executions, Elapse(d) PROVE FALSE
  <2>1. executions' = [executions EXCEPT ![d] = [executions[d] EXCEPT !.overdue = TRUE]]
    BY <1>7 DEF Elapse
  <2>2. [executions[d] EXCEPT !.overdue = TRUE].status = executions[d].status
    BY <1>a DEF WorkExecution
  <2>3. d = e
    BY <1>a, <2>1
  <2> QED BY <1>d, <2>1, <2>2, <2>3
<1>8. CASE Crash \/ UNCHANGED vars
  BY <1>1, <1>8 DEF Crash, vars
<1> QED BY <1>2, <1>3, <1>4, <1>5, <1>6, <1>7, <1>8 DEF Next

(* What it is decided on is true when it is decided. *)
LEMMA SettledIs ==
  ASSUME TypeOK, RowsKnown, NEW c \in Commands, NEW seen
  PROVE  /\ Settled(c, seen) \in {"NONE", "SUCCESS", "FAILED"}
         /\ Settled(c, seen) = "SUCCESS" => Earned(c)
         /\ AllFinished(c) => Settled(c, seen) # "NONE"
<1>1. IsFiniteSet(Succeeded(c))
  <2>1. Succeeded(c) \subseteq Issued
    BY DEF Succeeded, Of, Issued
  <2> QED BY <2>1, FS_Subset DEF RowsKnown
<1>2. /\ Cardinality(Succeeded(c)) \in Nat
      /\ Cardinality(Succeeded(c)) > 0 => Succeeded(c) # {}
  BY <1>1, FS_CardinalityType, FS_EmptySet
<1>3. commands[c].enough \in Nat
  BY DEF TypeOK, CommandRow
<1>4. ASSUME commands[c].enough > 0, Cardinality(Succeeded(c)) >= commands[c].enough
      PROVE  Succeeded(c) # {} /\ commands[c].enough \in 1..Cardinality(Succeeded(c))
  BY <1>2, <1>3, <1>4
<1> QED BY <1>4 DEF Settled, Earned

(* What is known of a request stays known. *)
LEMMA FineKept ==
  ASSUME TypeInv, Known, [Next]_vars, NEW t \in Threads
  PROVE  Fine(t)'
<1>a. /\ ThreadMove(t) /\ Fine(t) /\ RowsKnown /\ TypeOK
      /\ \A e \in Issued : e \in Issued' /\ executions'[e].commandId = executions[e].commandId
  BY EachThreadMoves, Kept DEF Known, TypeInv
<1>1. CASE thread'[t].todo \subseteq Issued /\ thread'[t].pc \in {"idle", "sweep"}
  BY <1>1, <1>a DEF Fine
<1>2. CASE /\ thread'[t].todo \subseteq Issued /\ thread'[t].execution \in Issued
           /\ thread'[t].pc \in {"addAnswer", "change", "afterFinish", "cancel", "passOn",
                                 "passOnDeferred", "settle"}
  BY <1>2, <1>a DEF Fine
<1>b. ASSUME thread[t].pc \notin {"idle", "sweep"}
      PROVE  /\ thread[t].execution \in Issued
             /\ CommandOf(t) \in Commands
             /\ commands'[CommandOf(t)].way = commands[CommandOf(t)].way
             /\ executions'[thread[t].execution].commandId = CommandOf(t)
  <2>1. thread[t].execution \in Issued
    BY <1>a, <1>b DEF Fine
  <2>2. CommandOf(t) \in Commands /\ runs[CommandOf(t)].pc # "idle"
    BY <1>a, <2>1 DEF RowsKnown, CommandOf
  <2>3. executions'[thread[t].execution].commandId = CommandOf(t)
    BY <1>a, <2>1 DEF CommandOf
  <2> QED BY <2>1, <2>2, <2>3, Kept
<1>3. ASSUME thread'[t].pc \notin {"idle", "sweep"}, thread[t].pc \notin {"idle", "sweep"},
             thread'[t].todo = thread[t].todo, thread'[t].execution = thread[t].execution,
             thread'[t].pc = "addExecution" => commands[CommandOf(t)].way = "dynamic",
             thread'[t].pc = "write" =>
               \/ thread'[t].status = "FAILED"
               \/ thread'[t].status = "SUCCESS" /\ Earned(CommandOf(t))
      PROVE  Fine(t)'
  <2>1. CommandOf(t)' = CommandOf(t)
    BY <1>3, <1>b DEF CommandOf
  <2>2. thread'[t].execution \in Issued' /\ thread'[t].todo \subseteq Issued'
    BY <1>3, <1>a, <1>b DEF Fine
  <2>3. thread'[t].pc = "addExecution" => commands'[CommandOf(t)'].way = "dynamic"
    BY <1>3, <1>b, <2>1
  <2>4. Earned(CommandOf(t)) => Earned(CommandOf(t))'
    <3>1. ASSUME NEW d \in Commands, d = CommandOf(t), Earned(d) PROVE Earned(CommandOf(t))'
      <4>1. Earned(d)'
        BY <3>1, EarnedKept
      <4>2. d = CommandOf(t)'
        BY <2>1, <3>1
      <4> QED BY <4>1, <4>2 DEF Earned, Succeeded, AllFinished, Of
    <3> QED BY <1>3, <1>b, <3>1
  <2> QED BY <1>3, <2>2, <2>3, <2>4 DEF Fine
<1>4. CASE thread'[t] = thread[t]
  <2>1. CASE thread[t].pc \in {"idle", "sweep"}
    BY <1>1, <1>4, <1>a, <2>1 DEF Fine
  <2>2. CASE thread[t].pc \notin {"idle", "sweep"}
    BY <1>3, <1>4, <1>a, <2>2 DEF Fine
  <2> QED BY <2>1, <2>2
<1>5. CASE thread'[t] = Idle
  BY <1>1, <1>5 DEF Idle
<1>6. CASE Begins(t)
  BY <1>1, <1>2, <1>6 DEF Begins
<1>7. CASE GoesOn(t)
  <2>1. thread[t].pc \notin {"idle", "sweep"}
    BY <1>7 DEF GoesOn, Stages
  <2>2. ASSUME thread'[t].pc = "write", Settle(t),
               thread'[t].status = Settled(CommandOf(t), thread[t].seen),
               thread'[t].status # "NONE"
        PROVE  \/ thread'[t].status = "FAILED"
               \/ thread'[t].status = "SUCCESS" /\ Earned(CommandOf(t))
    BY <1>a, <1>b, <2>1, <2>2, SettledIs
  <2> QED BY <1>3, <1>7, <2>1, <2>2 DEF GoesOn
<1>8. CASE Ends(t)
  BY <1>1, <1>8, <1>a DEF Ends, Fine
<1> QED BY <1>a, <1>4, <1>5, <1>6, <1>7, <1>8 DEF ThreadMove

(* Whoever sees to a command that has finished goes on seeing to it, or has *)
(* written its status.                                                      *)
LEMMA SeenToOn ==
  ASSUME TypeInv, Known, [Next]_vars, NEW t \in Threads, NEW c \in Commands, SeesTo(t, c),
         AllFinished(c), AllFinished(c)', crashes' = 0
  PROVE  SeesTo(t, c)' \/ commands'[c].status \in Finished
<1>a. /\ ThreadMove(t) /\ Fine(t) /\ RowsKnown /\ TypeOK /\ ThreadOK
      /\ Of(c) \subseteq Of(c)'
      /\ thread[t].execution \in Of(c) /\ thread[t].pc \in Stages
      /\ CommandOf(t) = c
  BY EachThreadMoves, Kept DEF Known, TypeInv, SeesTo, Of, CommandOf, Stages
<1>1. CASE thread'[t] = thread[t]
  BY <1>1, <1>a DEF SeesTo, Stages
<1>2. CASE Begins(t)
  BY <1>2, <1>a DEF Begins
<1>3. CASE GoesOn(t)
  BY <1>3, <1>a DEF GoesOn, SeesTo
<1>4. CASE AddExecution(t)
  <2>1. PICK e \in Executions : NextID(e) /\ executions' = Inserted(e, c, thread[t].next)
    BY <1>4, <1>a DEF AddExecution
  <2>2. thread[t].next \in Services \cup {NoOne}
    BY <1>a DEF TypeOK, ThreadState
  <2>3. executions'[e].commandId = c /\ executions'[e].status = "PENDING"
    BY <1>a, <2>1, <2>2, NewRow
  <2> QED BY <2>3 DEF AllFinished, Of, Finished
<1>5. CASE WriteStatus(t)
  <2>1. thread[t].pc = "write" /\ commands' = [commands EXCEPT ![c].status = thread[t].status]
    BY <1>5, <1>a DEF WriteStatus
  <2>2. thread[t].status \in {"SUCCESS", "FAILED"}
    BY <1>a, <2>1 DEF Fine
  <2>3. commands'[c].status = thread[t].status
    BY <1>a, <2>1 DEF TypeOK, CommandRow
  <2> QED BY <2>2, <2>3 DEF Finished
<1>6. CASE Settled(CommandOf(t), thread[t].seen) = "NONE"
  BY <1>a, <1>6, SettledIs
<1> QED BY <1>a, <1>1, <1>2, <1>3, <1>4, <1>5, <1>6 DEF ThreadMove, Ends

(* A command set going whose executions have all finished says so, or is    *)
(* about to.                                                                *)
LEMMA NoticedKept ==
  ASSUME TypeInv, Known, [Next]_vars, NEW c \in Commands
  PROVE  Noticed(c)'
<1> SUFFICES ASSUME SetGoing(c)', AllFinished(c)'
             PROVE  commands'[c].status \in Finished \/ \E t \in Threads : SeesTo(t, c)'
  BY DEF Noticed
<1>a. /\ StepMove /\ RunMove(c) /\ CommandMove(c) /\ AddedSome(c) /\ Noticed(c) /\ RowsKnown
      /\ Of(c) \subseteq Of(c)' /\ NoOne \notin Commands
  BY StepMoves, Kept, WorkAssumption DEF Known, StepMove
<1>1. /\ crashes = 0 /\ crashes' = 0 /\ c \notin early /\ c \notin early'
      /\ runs'[c].pc \in {"waiting", "read", "done"}
  BY <1>a DEF SetGoing, StepMove
<1>2. runs[c].pc \in {"waiting", "read", "done"}
  <2>1. CASE /\ runs[c].pc = "adding" /\ runs[c].toAdd = {} /\ executions' = executions
             /\ (FinishedEarly(c) => c \in early')
    <3>1. Of(c) # {} /\ Of(c)' = Of(c)
      BY <1>a, <2>1 DEF AddedSome, Of
    <3>2. FinishedEarly(c)
      BY <2>1, <3>1 DEF AllFinished, FinishedEarly
    <3> QED BY <1>1, <2>1, <3>2
  <2> QED BY <1>a, <1>1, <2>1 DEF RunMove
<1>3. CASE ~AllFinished(c)
  <2>1. PICK e \in Of(c) : executions[e].status \notin Finished
    BY <1>3 DEF AllFinished
  <2>2. e \in Issued /\ executions[e].commandId = c
    BY <1>a, <2>1 DEF RowsKnown, Of
  <2>3. executions'[e].status \in Finished
    BY <1>a, <2>1 DEF AllFinished
  <2> QED BY <2>1, <2>2, <2>3, FinishedIsSeenTo
<1>4. CASE AllFinished(c) /\ commands[c].status \in Finished
  <2>1. \A t \in Threads : thread[t].pc = "write" => thread[t].status \in Finished
    BY DEF Known, Fine, Finished
  <2> QED BY <1>a, <1>2, <1>4, <2>1 DEF CommandMove
<1>5. ASSUME AllFinished(c), NEW t \in Threads, SeesTo(t, c)
      PROVE  commands'[c].status \in Finished \/ SeesTo(t, c)'
  BY <1>1, <1>5, SeenToOn
<1> QED BY <1>a, <1>1, <1>2, <1>3, <1>4, <1>5 DEF Noticed, SetGoing

(* and stays known. *)
LEMMA KnownKept == ASSUME TypeInv, Known, [Next]_vars PROVE Known'
<1>1. RowsKnown'
  BY Kept
<1>2. \A t \in Threads : Fine(t)'
  BY FineKept
<1>3. ASSUME NEW c \in Commands, commands'[c].status = "SUCCESS" PROVE Earned(c)'
  <2>1. CommandMove(c)
    BY StepMoves DEF StepMove
  <2>2. Earned(c)
    <3>1. CASE commands[c].status = "SUCCESS"
      BY <3>1 DEF Known
    <3>2. ASSUME NEW t \in Threads, thread[t].pc = "write", CommandOf(t) = c,
                 thread[t].status = "SUCCESS"
          PROVE  Earned(c)
      BY <3>2 DEF Known, Fine
    <3> QED BY <1>3, <2>1, <3>1, <3>2 DEF CommandMove
  <2> QED BY <2>2, EarnedKept
<1>4. ASSUME NEW c \in Commands PROVE AddedSome(c)'
  <2>1. RunMove(c) /\ AddedSome(c) /\ Of(c) \subseteq Of(c)'
    BY StepMoves, Kept DEF StepMove, Known
  <2> QED BY <2>1 DEF RunMove, AddedSome
<1>5. \A c \in Commands : Noticed(c)'
  BY NoticedKept
<1> QED BY <1>1, <1>2, <1>3, <1>4, <1>5 DEF Known

LEMMA KnownHolds == Spec => [](TypeInv /\ Known)
<1>1. Init => TypeInv /\ Known
  BY InitTypes, InitKnown
<1>2. TypeInv /\ Known /\ [Next]_vars => (TypeInv /\ Known)'
  BY NextTypes, KnownKept
<1> QED BY <1>1, <1>2, PTL DEF Spec

(* However old the lists a status was decided on are when it is written    *)
(* (afterFinish reads, then updates), a command says SUCCESS only if an    *)
(* execution of it succeeded.  Where one or all services are asked, and    *)
(* none finished before run had added them all, moreover as many succeeded *)
(* as are enough, or all have finished, were it with fewer successes.      *)
THEOREM SuccessEarned == Spec => []SuccessIsEarned
<1>1. Known => SuccessIsEarned
  BY DEF Known, Earned, SuccessIsEarned
<1> QED BY <1>1, KnownHolds, PTL

(* When the last executions of a command finish, in whatever overlap, the  *)
(* command's status says so or a request is at work that will see to it    *)
(* (afterFinish, passOn), unless Core crashed or a service was quicker     *)
(* than run.                                                               *)
THEOREM FinishNoticed == Spec => []FinishIsNoticed
<1>1. Known => FinishIsNoticed
  <2>1. \A t \in Threads : thread[t] = Idle => thread[t].pc = "idle"
    BY DEF Idle
  <2> QED BY <2>1 DEF Known, Noticed, SetGoing, SeesTo, FinishIsNoticed, Exhausted, Quiet
<1> QED BY <1>1, KnownHolds, PTL
=============================================================================
