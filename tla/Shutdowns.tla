------------------------------ MODULE Shutdowns ------------------------------
(***************************************************************************)
(* Suspending and resuming nodes (src/topology/conversations.ts,           *)
(* src/topology/local-nodes.ts, src/topology/prisma-local-node-store.ts).  *)
(*                                                                         *)
(* An order to suspend a node marks its parent's entry for it and locks    *)
(* the node itself; either may fail and the other stand.  Everything below *)
(* locks too: told at once by a notice passed down the lists, or at its    *)
(* next check-in by its parent's answer.  A node keeps why it is locked:   *)
(* by an order of its own, or learnt from its parent, which a later answer *)
(* corrects.  A check-in, a notice and an order each read a node's lock    *)
(* and write it in a later call, with anything in between.                 *)
(*                                                                         *)
(* The tree stands still here (ChildLists moves it) and each list holds    *)
(* the node's children.  An order's number is its time.                    *)
(***************************************************************************)
EXTENDS Naturals, FiniteSets

CONSTANTS
  Branch,       \* the nodes, a branch of the tree
  Up,           \* each one's parent
  Nobody,       \* no node
  Orderer,      \* who gives orders, each one at a time
  MaxSuspends,  \* bound: orders to suspend
  MaxResumes,   \* bound: orders to resume
  MaxUnheard    \* bound: calls that fail

ASSUME ShutdownsAssumption ==
  /\ Nobody \notin Branch
  /\ Orderer \cap Branch = {}
  /\ Up \in [Branch -> Branch \cup {Nobody}]
  /\ {MaxSuspends, MaxResumes, MaxUnheard} \subseteq Nat

VARIABLES
  lock,         \* what each node's own record says
  mark,         \* the order marked on its parent's entry for it, 0 if none
  order,        \* each operator's order under way
  checkin,      \* check-ins: each node's own, and those a resume order makes
  notices,      \* nodes a notice has still to visit
  suspends, resumes, unheard,  \* how many of each so far
  given         \* history: the orders to suspend (no action reads it)

shutdownVars == <<lock, mark, order, checkin, notices, suspends, resumes, unheard, given>>

Time == 0 .. MaxSuspends
Cause == [by : Branch \cup {Nobody}, at : Time]
Nothing == [by |-> Nobody, at |-> 0]

LockRecord == [cause : Cause, via : {"ORDER", "PARENT", "NONE"}]
Unlocked == [cause |-> Nothing, via |-> "NONE"]
Learnt(cause) == [cause |-> cause, via |-> "PARENT"]

NoOrder == [pc |-> "idle", node |-> Nobody, at |-> 0, seen |-> Unlocked, reached |-> TRUE]
NoCheckIn == [pc |-> "idle", node |-> Nobody, seen |-> Unlocked, reported |-> Nothing]

ShutdownsInit ==
  /\ lock = [n \in Branch |-> Unlocked]
  /\ mark = [n \in Branch |-> 0]
  /\ order = [o \in Orderer |-> NoOrder]
  /\ checkin = [w \in Branch \cup Orderer |-> NoCheckIn]
  /\ notices = {}
  /\ suspends = 0
  /\ resumes = 0
  /\ unheard = 0
  /\ given = {}

Children(n) == {c \in Branch : Up[c] = n}

(* A call fails: its machine does not answer, or the answer is lost. *)
Cut == unheard < MaxUnheard /\ unheard' = unheard + 1

-----------------------------------------------------------------------------
(* A check-in (checkIn, applyParentShutdown).                              *)

Ask(w, n) ==
  /\ checkin[w].pc = "idle"
  /\ Up[n] # Nobody
  /\ checkin' = [checkin EXCEPT ![w] = [NoCheckIn EXCEPT !.pc = "asked", !.node = n, !.seen = lock[n]]]

OwnCheckIn(n) ==
  /\ Ask(n, n)
  /\ UNCHANGED <<lock, mark, order, notices, suspends, resumes, unheard, given>>

(* Fault: the parent's name is given for the child's. *)
ReportedParent(n) ==
  IF mark[n] # 0 THEN [by |-> Up[n], at |-> mark[n]] ELSE lock[Up[n]].cause

(* Fault: a parent that is locked itself does not say so. *)
ReportedOwnMark(n) == IF mark[n] # 0 THEN [by |-> n, at |-> mark[n]] ELSE Nothing

(* The parent reports the child's own suspension, or its own lock. *)
Reported(n) ==
  IF mark[n] # 0 THEN [by |-> n, at |-> mark[n]] ELSE lock[Up[n]].cause

ParentAnswers(w) ==
  /\ checkin[w].pc = "asked"
  /\ checkin' = [checkin EXCEPT ![w].pc = "answered", ![w].reported = Reported(checkin[w].node)]
  /\ UNCHANGED <<lock, mark, order, notices, suspends, resumes, unheard, given>>

(* Fault: a lock learnt from the parent is not cleared when it falls silent. *)
AppliedAlways(n, seen, reported) ==
  IF seen.via = "ORDER" \/ reported = Nothing THEN lock[n] ELSE Learnt(reported)

(* Fault: an answer that names no order is learnt like one that does. *)
AppliedNothing(n, seen, reported) ==
  IF seen.via = "ORDER" \/ seen.cause = reported THEN lock[n] ELSE Learnt(reported)

(* What the answer makes of the lock, by the lock as it was before asking. *)
Applied(n, seen, reported) ==
  IF seen.via = "ORDER" \/ seen.cause = reported THEN lock[n]
  ELSE IF reported = Nothing THEN Unlocked
  ELSE Learnt(reported)

Visits(root, n, cause) ==
  [root : {root}, node : Children(n), cause : {cause}, pc : {"look"}]

(* What a resume order passes on: the lock that still comes from above. *)
StillAbove(seen, reported) == IF seen.via = "ORDER" THEN seen.cause ELSE reported

Apply(w) ==
  LET c == checkin[w]
  IN /\ c.pc = "answered"
     /\ lock' = [lock EXCEPT ![c.node] = Applied(c.node, c.seen, c.reported)]
     /\ checkin' = [checkin EXCEPT ![w] = NoCheckIn]
     /\ IF w \in Orderer
        THEN /\ order' = [order EXCEPT ![w] = NoOrder]
             /\ notices' = notices \cup Visits(c.node, c.node, StillAbove(c.seen, c.reported))
        ELSE UNCHANGED <<order, notices>>
     /\ UNCHANGED <<mark, suspends, resumes, unheard, given>>

(* A resume order that gets no answer takes it that nothing is above. *)
CheckInFails(w) ==
  /\ checkin[w].pc # "idle"
  /\ Cut
  /\ checkin' = [checkin EXCEPT ![w] = NoCheckIn]
  /\ IF w \in Orderer
     THEN /\ order' = [order EXCEPT ![w] = NoOrder]
          /\ notices' = notices \cup Visits(checkin[w].node, checkin[w].node, Nothing)
     ELSE UNCHANGED <<order, notices>>
  /\ UNCHANGED <<lock, mark, suspends, resumes, given>>

-----------------------------------------------------------------------------
(* A notice (noticeDown): look at a node, then write its lock, then go on  *)
(* to its children.  With no cause it tells them the root was resumed.     *)

NoticeLooks(v) ==
  LET current == lock[v.node]
  IN /\ v \in notices
     /\ v.pc = "look"
     /\ notices' = (notices \ {v}) \cup
          (IF current.via = "ORDER" THEN {}
           ELSE IF v.cause = Nothing
             THEN IF current.cause.by = v.root THEN {[v EXCEPT !.pc = "write"]} ELSE {}
           ELSE IF current.cause = v.cause THEN Visits(v.root, v.node, v.cause)
           ELSE {[v EXCEPT !.pc = "write"]})
     /\ UNCHANGED <<lock, mark, order, checkin, suspends, resumes, unheard, given>>

NoticeWrites(v) ==
  /\ v \in notices
  /\ v.pc = "write"
  /\ lock' = [lock EXCEPT ![v.node] = IF v.cause = Nothing THEN Unlocked ELSE Learnt(v.cause)]
  /\ notices' = (notices \ {v}) \cup Visits(v.root, v.node, v.cause)
  /\ UNCHANGED <<mark, order, checkin, suspends, resumes, unheard, given>>

NoticeMisses(v) ==
  /\ v \in notices
  /\ Cut
  /\ notices' = notices \ {v}
  /\ UNCHANGED <<lock, mark, order, checkin, suspends, resumes, given>>

-----------------------------------------------------------------------------
(* Orders.                                                                 *)

(* A node that does not answer is suspended on its parent's list only. *)
Suspend(o, n) ==
  /\ order[o].pc = "idle"
  /\ suspends < MaxSuspends
  /\ suspends' = suspends + 1
  /\ given' = given \cup {[by |-> n, at |-> suspends + 1]}
  /\ \E reached \in BOOLEAN :
       /\ IF reached THEN UNCHANGED unheard ELSE Cut /\ Up[n] # Nobody
       /\ order' = [order EXCEPT ![o] =
            [NoOrder EXCEPT !.pc = IF Up[n] = Nobody THEN "lock" ELSE "mark",
                         !.node = n, !.at = suspends + 1, !.reached = reached]]
  /\ UNCHANGED <<lock, mark, checkin, notices, resumes>>

AfterMark(s) == IF s.reached THEN [s EXCEPT !.pc = "lock"] ELSE NoOrder

MarkEntry(o) ==
  /\ order[o].pc = "mark"
  /\ mark' = [mark EXCEPT ![order[o].node] = order[o].at]
  /\ order' = [order EXCEPT ![o] = AfterMark(@)]
  /\ UNCHANGED <<lock, checkin, notices, suspends, resumes, unheard, given>>

(* The parent is not found, and the order goes on without; or the call     *)
(* fails, and ends it.                                                     *)
MarkFails(o) ==
  /\ order[o].pc = "mark"
  /\ Cut
  /\ \E next \in {AfterMark(order[o]), NoOrder} : order' = [order EXCEPT ![o] = next]
  /\ UNCHANGED <<lock, mark, checkin, notices, suspends, resumes, given>>

LockNode(o) ==
  LET n == order[o].node
      cause == [by |-> n, at |-> order[o].at]
  IN /\ order[o].pc = "lock"
     /\ lock' = [lock EXCEPT ![n] = [cause |-> cause, via |-> "ORDER"]]
     /\ notices' = notices \cup Visits(n, n, cause)
     /\ order' = [order EXCEPT ![o] = NoOrder]
     /\ UNCHANGED <<mark, checkin, suspends, resumes, unheard, given>>

Resume(o, n) ==
  /\ order[o].pc = "idle"
  /\ resumes < MaxResumes
  /\ resumes' = resumes + 1
  /\ \E reached \in BOOLEAN :
       /\ IF reached THEN UNCHANGED unheard ELSE Cut /\ Up[n] # Nobody
       /\ order' = [order EXCEPT ![o] =
            [NoOrder EXCEPT !.pc = "unmark", !.node = n, !.seen = lock[n], !.reached = reached]]
  /\ UNCHANGED <<lock, mark, checkin, notices, suspends, given>>

(* Next: a lock of the node's own is cleared, one from above is left. *)
AfterUnmark(s) ==
  IF ~s.reached \/ s.seen.cause.by \notin {Nobody, s.node} THEN NoOrder
  ELSE [s EXCEPT !.pc = IF s.seen = Unlocked THEN "ask" ELSE "unlock"]

Unmark(o) ==
  /\ order[o].pc = "unmark"
  /\ \/ mark' = [mark EXCEPT ![order[o].node] = 0] /\ UNCHANGED unheard
     \/ Cut /\ UNCHANGED mark
  /\ order' = [order EXCEPT ![o] = AfterUnmark(@)]
  /\ UNCHANGED <<lock, checkin, notices, suspends, resumes, given>>

UnlockNode(o) ==
  /\ order[o].pc = "unlock"
  /\ lock' = [lock EXCEPT ![order[o].node] = Unlocked]
  /\ order' = [order EXCEPT ![o].pc = "ask"]
  /\ UNCHANGED <<mark, checkin, notices, suspends, resumes, unheard, given>>

(* The node checks in at once; a top node has nobody to ask. *)
AskAbove(o) ==
  LET n == order[o].node
  IN /\ order[o].pc = "ask"
     /\ IF Up[n] = Nobody
        THEN /\ order' = [order EXCEPT ![o] = NoOrder]
             /\ notices' = notices \cup Visits(n, n, Nothing)
             /\ UNCHANGED checkin
        ELSE /\ Ask(o, n)
             /\ order' = [order EXCEPT ![o].pc = "asking"]
             /\ UNCHANGED notices
     /\ UNCHANGED <<lock, mark, suspends, resumes, unheard, given>>

OrderFails(o) ==
  /\ order[o].pc \in {"lock", "unmark", "unlock"}
  /\ Cut
  /\ order' = [order EXCEPT ![o] = NoOrder]
  /\ UNCHANGED <<lock, mark, checkin, notices, suspends, resumes, given>>

-----------------------------------------------------------------------------

Orders(o) ==
  MarkEntry(o) \/ LockNode(o) \/ Unmark(o) \/ UnlockNode(o) \/ AskAbove(o)
CheckIns(w) == ParentAnswers(w) \/ Apply(w)
NoticeSteps == \E v \in notices : NoticeLooks(v) \/ NoticeWrites(v)

ShutdownsNext ==
  \/ \E n \in Branch : OwnCheckIn(n)
  \/ \E w \in Branch \cup Orderer : CheckIns(w) \/ CheckInFails(w)
  \/ NoticeSteps
  \/ \E v \in notices : NoticeMisses(v)
  \/ \E o \in Orderer, n \in Branch : Suspend(o, n) \/ Resume(o, n)
  \/ \E o \in Orderer : Orders(o) \/ MarkFails(o) \/ OrderFails(o)

(* Every node checks in again and again; calls made are answered. *)
ShutdownsFairness ==
  /\ \A n \in Branch : WF_shutdownVars(OwnCheckIn(n))
  /\ \A w \in Branch \cup Orderer : WF_shutdownVars(CheckIns(w))
  /\ \A o \in Orderer : WF_shutdownVars(Orders(o))
  /\ WF_shutdownVars(NoticeSteps)

ShutdownsSpec == ShutdownsInit /\ [][ShutdownsNext]_shutdownVars /\ ShutdownsFairness

-----------------------------------------------------------------------------

(* The records are of the right types; a lock and its cause go together. *)
ShutdownsTypeOK ==
  /\ lock \in [Branch -> LockRecord]
  /\ \A n \in Branch : lock[n].via = "NONE" <=> lock[n].cause = Nothing
  /\ mark \in [Branch -> Time]
  /\ suspends \in 0 .. MaxSuspends
  /\ resumes \in 0 .. MaxResumes
  /\ unheard \in 0 .. MaxUnheard

(* A node and the nodes above it: every set that holds one of these and,   *)
(* with a node, its children, holds n.                                     *)
Closed == {S \in SUBSET Branch : \A c \in Branch : Up[c] \in S => c \in S}
SelfAndAbove(n) == {a \in Branch : \A S \in Closed : a \in S => n \in S}

(* A lock names an order that was given, to the node or to one above it;   *)
(* a lock by an order of the node's own names the node.                    *)
LockHasCause ==
  \A n \in Branch : lock[n] # Unlocked =>
    /\ lock[n].cause \in given
    /\ lock[n].cause.by \in SelfAndAbove(n)
    /\ lock[n].via = "ORDER" => lock[n].cause.by = n

Suspended(n) == mark[n] # 0 \/ lock[n].via = "ORDER"

(* A suspension that stands reaches every node below, whatever notices are *)
(* missed and whatever check-ins it overtakes.                             *)
LocksSpread ==
  \A n \in Branch :
    <>[](\E a \in SelfAndAbove(n) : Suspended(a)) => <>[](lock[n] # Unlocked)

(* When none stands any more, every node is free again. *)
LocksLift ==
  <>[](\A a \in Branch : ~Suspended(a)) => <>[](\A n \in Branch : lock[n] = Unlocked)
=============================================================================
