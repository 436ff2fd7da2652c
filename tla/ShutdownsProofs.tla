---------------------------- MODULE ShutdownsProofs ----------------------------
(***************************************************************************)
(* Proofs about Shutdowns, for any branch, any operators and any number of *)
(* orders and failed calls: no node locks without an order that was given  *)
(* to it or to a node above it, whatever checks in, notices and orders     *)
(* read and write in between.                                              *)
(***************************************************************************)
EXTENDS Shutdowns, TLAPS

OrderRecord ==
  [pc : {"idle", "mark", "lock", "unmark", "unlock", "ask", "asking"},
   node : Branch \cup {Nobody}, at : Time, seen : LockRecord, reached : BOOLEAN]

CheckInRecord ==
  [pc : {"idle", "asked", "answered"}, node : Branch \cup {Nobody},
   seen : LockRecord, reported : Cause]

Notice == [root : Branch, node : Branch, cause : Cause, pc : {"look", "write"}]

(* A cause that may lock a node: an order given to it or above it. *)
Genuine(n, cause) == cause = Nothing \/ (cause \in given /\ cause.by \in SelfAndAbove(n))

CountsOK ==
  /\ suspends \in 0 .. MaxSuspends
  /\ resumes \in 0 .. MaxResumes
  /\ unheard \in 0 .. MaxUnheard
  /\ given \subseteq [by : Branch, at : Time \ {0}]

LocksOK ==
  /\ lock \in [Branch -> LockRecord]
  /\ \A n \in Branch :
       /\ lock[n].via = "NONE" <=> lock[n].cause = Nothing
       /\ lock[n].via = "ORDER" => lock[n].cause.by = n
       /\ Genuine(n, lock[n].cause)

MarksOK ==
  /\ mark \in [Branch -> Time]
  /\ \A n \in Branch : mark[n] # 0 => [by |-> n, at |-> mark[n]] \in given

OrdersOK ==
  /\ order \in [Orderer -> OrderRecord]
  /\ \A o \in Orderer :
       /\ order[o].pc # "idle" => order[o].node \in Branch
       /\ order[o].pc \in {"mark", "lock"} => [by |-> order[o].node, at |-> order[o].at] \in given

(* What a check-in read and what it was told may both lock its node. *)
CheckInsOK ==
  /\ checkin \in [Branch \cup Orderer -> CheckInRecord]
  /\ \A w \in Branch \cup Orderer : checkin[w].pc # "idle" =>
       /\ checkin[w].node \in Branch
       /\ Up[checkin[w].node] \in Branch
       /\ Genuine(checkin[w].node, checkin[w].seen.cause)
       /\ Genuine(checkin[w].node, checkin[w].reported)

NoticesOK ==
  /\ notices \subseteq Notice
  /\ \A v \in notices : Genuine(v.node, v.cause)

ShutdownsInv == CountsOK /\ LocksOK /\ MarksOK /\ OrdersOK /\ CheckInsOK /\ NoticesOK

-----------------------------------------------------------------------------
(* Up and down the branch.                                                 *)

LEMMA IsItsOwnAncestor == ASSUME NEW n \in Branch PROVE n \in SelfAndAbove(n)
BY DEF SelfAndAbove

LEMMA InheritsAbove ==
  ASSUME NEW n \in Branch, Up[n] \in Branch, NEW a \in SelfAndAbove(Up[n])
  PROVE  a \in SelfAndAbove(n)
BY DEF SelfAndAbove, Closed

(* What may lock a node may lock its children. *)
LEMMA PassedDown ==
  ASSUME NEW n \in Branch, Up[n] \in Branch, NEW cause, Genuine(Up[n], cause)
  PROVE  Genuine(n, cause)
BY InheritsAbove DEF Genuine

LEMMA VisitsAreNotices ==
  ASSUME NEW root \in Branch, NEW n \in Branch, NEW cause \in Cause, Genuine(n, cause)
  PROVE  /\ Visits(root, n, cause) \subseteq Notice
         /\ \A v \in Visits(root, n, cause) : Genuine(v.node, v.cause)
<1>1. SUFFICES ASSUME NEW v \in Visits(root, n, cause)
               PROVE  v \in Notice /\ Genuine(v.node, v.cause)
  OBVIOUS
<1>2. /\ v \in [root : {root}, node : Children(n), cause : {cause}, pc : {"look"}]
      /\ v.node \in Branch /\ Up[v.node] = n /\ v.cause = cause
  BY <1>1 DEF Visits, Children
<1>3. v \in Notice
  BY <1>2 DEF Notice, Children
<1> QED BY <1>2, <1>3, PassedDown

LEMMA NothingIsGenuine ==
  /\ Nothing \in Cause
  /\ \A n \in Branch : Genuine(n, Nothing)
BY ShutdownsAssumption DEF Nothing, Cause, Time, Genuine

(* An order recorded may lock the node it was given to. *)
LEMMA OwnOrderIsGenuine ==
  ASSUME NEW n \in Branch, NEW at \in Time, [by |-> n, at |-> at] \in given
  PROVE  /\ [by |-> n, at |-> at] \in Cause
         /\ Genuine(n, [by |-> n, at |-> at])
         /\ [by |-> n, at |-> at] # Nothing
BY IsItsOwnAncestor, ShutdownsAssumption DEF Genuine, Cause, Nothing

LEMMA BlankRecords ==
  /\ Unlocked \in LockRecord /\ NoOrder \in OrderRecord /\ NoCheckIn \in CheckInRecord
  /\ NoOrder.pc = "idle" /\ NoCheckIn.pc = "idle"
  /\ Unlocked.cause = Nothing /\ Unlocked.via = "NONE"
BY NothingIsGenuine, ShutdownsAssumption
   DEF Unlocked, LockRecord, NoOrder, OrderRecord, NoCheckIn, CheckInRecord, Time

-----------------------------------------------------------------------------

LEMMA InitShutdowns == ASSUME ShutdownsInit PROVE ShutdownsInv
BY BlankRecords, NothingIsGenuine, ShutdownsAssumption
   DEF ShutdownsInit, ShutdownsInv, CountsOK, LocksOK, MarksOK, OrdersOK, CheckInsOK, NoticesOK,
       Time

(* What a check-in is answered may lock its node. *)
LEMMA ReportedIsGenuine ==
  ASSUME ShutdownsInv, NEW n \in Branch, Up[n] \in Branch
  PROVE  Reported(n) \in Cause /\ Genuine(n, Reported(n))
<1>1. CASE mark[n] # 0
  BY <1>1, OwnOrderIsGenuine DEF ShutdownsInv, MarksOK, Reported
<1>2. CASE mark[n] = 0
  <2>1. lock[Up[n]].cause \in Cause /\ Genuine(Up[n], lock[Up[n]].cause)
    BY DEF ShutdownsInv, LocksOK, LockRecord
  <2> QED BY <1>2, <2>1, PassedDown DEF Reported
<1> QED BY <1>1, <1>2

(* A node's lock written as the invariant wants it. *)
LEMMA LockWritten ==
  ASSUME ShutdownsInv, NEW n \in Branch, NEW l \in LockRecord,
         l.via = "NONE" <=> l.cause = Nothing,
         l.via = "ORDER" => l.cause.by = n,
         Genuine(n, l.cause),
         lock' = [lock EXCEPT ![n] = l], given' = given
  PROVE  LocksOK'
BY DEF ShutdownsInv, LocksOK, Genuine

LEMMA NoticesSent ==
  ASSUME ShutdownsInv, given' = given, NEW root \in Branch, NEW n \in Branch, NEW cause \in Cause,
         Genuine(n, cause), NEW kept \in SUBSET notices,
         notices' = kept \cup Visits(root, n, cause)
  PROVE  NoticesOK'
BY VisitsAreNotices DEF ShutdownsInv, NoticesOK, Genuine

-----------------------------------------------------------------------------
(* Check-ins.                                                              *)

LEMMA AskKeeps ==
  ASSUME ShutdownsInv, given' = given, NEW w \in Branch \cup Orderer, NEW n \in Branch, Ask(w, n)
  PROVE  CheckInsOK'
<1> DEFINE c == [NoCheckIn EXCEPT !.pc = "asked", !.node = n, !.seen = lock[n]]
<1>1. /\ lock[n] \in LockRecord /\ Genuine(n, lock[n].cause)
      /\ Up[n] \in Branch
  BY ShutdownsAssumption DEF ShutdownsInv, LocksOK, Ask
<1>2. c \in CheckInRecord /\ c.node = n /\ c.seen = lock[n] /\ c.reported = Nothing
  BY <1>1, NothingIsGenuine DEF NoCheckIn, CheckInRecord
<1>3. checkin' = [checkin EXCEPT ![w] = c]
  BY DEF Ask
<1> HIDE DEF c
<1> QED BY <1>1, <1>2, <1>3, NothingIsGenuine DEF ShutdownsInv, CheckInsOK, Genuine

LEMMA AnswerKeeps ==
  ASSUME ShutdownsInv, NEW w \in Branch \cup Orderer, ParentAnswers(w)
  PROVE  ShutdownsInv'
<1> DEFINE n == checkin[w].node
<1>1. n \in Branch /\ Up[n] \in Branch
  BY DEF ShutdownsInv, CheckInsOK, ParentAnswers
<1>2. Reported(n) \in Cause /\ Genuine(n, Reported(n))
  BY <1>1, ReportedIsGenuine
<1>3. CheckInsOK'
  BY <1>1, <1>2 DEF ShutdownsInv, CheckInsOK, CheckInRecord, ParentAnswers, Genuine
<1>4. CountsOK' /\ LocksOK' /\ MarksOK' /\ OrdersOK' /\ NoticesOK'
  BY DEF ShutdownsInv, CountsOK, LocksOK, MarksOK, OrdersOK, NoticesOK, ParentAnswers, Genuine
<1> QED BY <1>3, <1>4 DEF ShutdownsInv

LEMMA ApplyKeeps ==
  ASSUME ShutdownsInv, NEW w \in Branch \cup Orderer, Apply(w)
  PROVE  ShutdownsInv'
<1> DEFINE c == checkin[w]
           n == checkin[w].node
           l == Applied(n, c.seen, c.reported)
<1>1. /\ c \in CheckInRecord /\ n \in Branch
      /\ Genuine(n, c.seen.cause) /\ Genuine(n, c.reported)
  BY DEF ShutdownsInv, CheckInsOK, Apply
<1>2. /\ l \in LockRecord
      /\ l.via = "NONE" <=> l.cause = Nothing
      /\ l.via = "ORDER" => l.cause.by = n
      /\ Genuine(n, l.cause)
  BY <1>1, BlankRecords, NothingIsGenuine
     DEF ShutdownsInv, LocksOK, Applied, Learnt, LockRecord, CheckInRecord
<1>3. LocksOK'
  <2> HIDE DEF l, n
  <2>1. lock' = [lock EXCEPT ![n] = l] /\ given' = given
    BY DEF Apply, l, n
  <2> QED BY <1>1, <1>2, <2>1, LockWritten
<1>4. CheckInsOK'
  BY BlankRecords DEF ShutdownsInv, CheckInsOK, Apply, Genuine
<1>5. OrdersOK'
  BY BlankRecords DEF ShutdownsInv, OrdersOK, Apply
<1>6. NoticesOK'
  <2>1. CASE w \in Orderer
    <3> DEFINE cause == StillAbove(c.seen, c.reported)
    <3>1. cause \in Cause /\ Genuine(n, cause)
      BY <1>1 DEF StillAbove, CheckInRecord, LockRecord
    <3> QED BY <1>1, <2>1, <3>1, NoticesSent DEF Apply
  <2>2. CASE w \notin Orderer
    BY <2>2 DEF ShutdownsInv, NoticesOK, Apply, Genuine
  <2> QED BY <2>1, <2>2
<1>7. CountsOK' /\ MarksOK'
  BY DEF ShutdownsInv, CountsOK, MarksOK, Apply
<1> QED BY <1>3, <1>4, <1>5, <1>6, <1>7 DEF ShutdownsInv

LEMMA CheckInFailsKeeps ==
  ASSUME ShutdownsInv, NEW w \in Branch \cup Orderer, CheckInFails(w)
  PROVE  ShutdownsInv'
<1> DEFINE n == checkin[w].node
<1>1. n \in Branch
  BY DEF ShutdownsInv, CheckInsOK, CheckInFails
<1>2. CheckInsOK'
  BY BlankRecords DEF ShutdownsInv, CheckInsOK, CheckInFails, Genuine
<1>3. OrdersOK'
  BY BlankRecords DEF ShutdownsInv, OrdersOK, CheckInFails
<1>4. NoticesOK'
  <2>1. CASE w \in Orderer
    BY <1>1, <2>1, NothingIsGenuine, NoticesSent DEF CheckInFails
  <2>2. CASE w \notin Orderer
    BY <2>2 DEF ShutdownsInv, NoticesOK, CheckInFails, Genuine
  <2> QED BY <2>1, <2>2
<1>5. CountsOK' /\ LocksOK' /\ MarksOK'
  BY ShutdownsAssumption
     DEF ShutdownsInv, CountsOK, LocksOK, MarksOK, CheckInFails, Cut, Genuine
<1> QED BY <1>2, <1>3, <1>4, <1>5 DEF ShutdownsInv

-----------------------------------------------------------------------------
(* Notices.                                                                *)

LEMMA NoticeKeeps ==
  ASSUME ShutdownsInv, NEW v \in notices, NoticeLooks(v) \/ NoticeWrites(v) \/ NoticeMisses(v)
  PROVE  ShutdownsInv'
<1>1. v \in Notice /\ v.node \in Branch /\ v.root \in Branch /\ v.cause \in Cause
      /\ Genuine(v.node, v.cause)
  BY DEF ShutdownsInv, NoticesOK, Notice
<1>2. CASE NoticeLooks(v)
  <2> DEFINE w == [v EXCEPT !.pc = "write"]
  <2>1. w \in Notice /\ w.node = v.node /\ w.cause = v.cause
    BY <1>1 DEF Notice
  <2>2. \/ notices' \subseteq notices
        \/ notices' = (notices \ {v}) \cup {w}
        \/ notices' = (notices \ {v}) \cup Visits(v.root, v.node, v.cause)
    BY <1>2 DEF NoticeLooks
  <2>3. given' = given
    BY <1>2 DEF NoticeLooks
  <2>4. NoticesOK'
    <3> HIDE DEF w
    <3>1. CASE notices' \subseteq notices
      BY <2>3, <3>1 DEF ShutdownsInv, NoticesOK, Genuine
    <3>2. CASE notices' = (notices \ {v}) \cup {w}
      BY <1>1, <2>1, <2>3, <3>2 DEF ShutdownsInv, NoticesOK, Genuine
    <3>3. CASE notices' = (notices \ {v}) \cup Visits(v.root, v.node, v.cause)
      BY <1>1, <2>3, <3>3, NoticesSent
    <3> QED BY <2>2, <3>1, <3>2, <3>3
  <2> QED BY <1>2, <2>4
        DEF ShutdownsInv, CountsOK, LocksOK, MarksOK, OrdersOK, CheckInsOK, NoticeLooks, Genuine
<1>3. CASE NoticeWrites(v)
  <2> DEFINE l == IF v.cause = Nothing THEN Unlocked ELSE Learnt(v.cause)
  <2>1. /\ l \in LockRecord
        /\ l.via = "NONE" <=> l.cause = Nothing
        /\ l.via = "ORDER" => l.cause.by = v.node
        /\ Genuine(v.node, l.cause)
    BY <1>1, BlankRecords, NothingIsGenuine DEF Learnt, LockRecord
  <2>2. lock' = [lock EXCEPT ![v.node] = l] /\ given' = given
    BY <1>3 DEF NoticeWrites
  <2>3. LocksOK'
    <3> HIDE DEF l
    <3> QED BY <1>1, <2>1, <2>2, LockWritten
  <2>4. NoticesOK'
    <3>1. notices' = (notices \ {v}) \cup Visits(v.root, v.node, v.cause)
      BY <1>3 DEF NoticeWrites
    <3> HIDE DEF l
    <3> QED BY <1>1, <2>2, <3>1, NoticesSent
  <2> QED BY <1>3, <2>3, <2>4
        DEF ShutdownsInv, CountsOK, MarksOK, OrdersOK, CheckInsOK, NoticeWrites, Genuine
<1>4. CASE NoticeMisses(v)
  BY <1>4, ShutdownsAssumption
     DEF ShutdownsInv, CountsOK, LocksOK, MarksOK, OrdersOK, CheckInsOK, NoticesOK, NoticeMisses,
         Cut, Genuine
<1> QED BY <1>2, <1>3, <1>4

-----------------------------------------------------------------------------
(* Orders.                                                                 *)

(* An order to suspend is recorded as given before anything is done by it. *)
LEMMA SuspendKeeps ==
  ASSUME ShutdownsInv, NEW o \in Orderer, NEW n \in Branch, Suspend(o, n)
  PROVE  ShutdownsInv'
<1> DEFINE at == suspends + 1
           cause == [by |-> n, at |-> at]
<1>1. /\ at \in Time \ {0} /\ at \in 0 .. MaxSuspends
      /\ suspends' = at /\ given' = given \cup {cause}
  BY ShutdownsAssumption DEF ShutdownsInv, CountsOK, Suspend, Time
<1>2. \A m \in Branch : \A c : Genuine(m, c) => Genuine(m, c)'
  BY <1>1 DEF Genuine
<1>3. PICK reached \in BOOLEAN :
        /\ IF reached THEN UNCHANGED unheard ELSE Cut /\ Up[n] # Nobody
        /\ order' = [order EXCEPT ![o] =
             [NoOrder EXCEPT !.pc = IF Up[n] = Nobody THEN "lock" ELSE "mark",
                         !.node = n, !.at = suspends + 1, !.reached = reached]]
  BY DEF Suspend
<1>4. CountsOK'
  BY <1>1, <1>3, ShutdownsAssumption DEF ShutdownsInv, CountsOK, Suspend, Cut, Time
<1>5. OrdersOK'
  <2> DEFINE new == [NoOrder EXCEPT !.pc = IF Up[n] = Nobody THEN "lock" ELSE "mark",
                            !.node = n, !.at = suspends + 1, !.reached = reached]
  <2>1. new \in OrderRecord /\ new.node = n /\ new.at = at
    BY <1>1, BlankRecords DEF NoOrder, OrderRecord
  <2>2. order' = [order EXCEPT ![o] = new]
    BY <1>3
  <2> HIDE DEF new
  <2> QED BY <1>1, <2>1, <2>2 DEF ShutdownsInv, OrdersOK
<1>6. LocksOK' /\ CheckInsOK' /\ NoticesOK'
  <2>1. lock' = lock /\ checkin' = checkin /\ notices' = notices
    BY DEF Suspend
  <2>2. \A v \in notices : v.node \in Branch
    BY DEF ShutdownsInv, NoticesOK, Notice
  <2> QED BY <1>2, <2>1, <2>2 DEF ShutdownsInv, LocksOK, CheckInsOK, NoticesOK
<1>7. MarksOK'
  BY <1>1 DEF ShutdownsInv, MarksOK, Suspend
<1> QED BY <1>4, <1>5, <1>6, <1>7 DEF ShutdownsInv

(* The steps of an order that touch neither a lock nor a notice. *)
LEMMA OrderGoesOn ==
  ASSUME ShutdownsInv, NEW o \in Orderer,
         \/ MarkEntry(o) \/ MarkFails(o) \/ Unmark(o) \/ OrderFails(o)
         \/ \E n \in Branch : Resume(o, n)
  PROVE  ShutdownsInv'
<1>1. given' = given /\ lock' = lock /\ checkin' = checkin /\ notices' = notices
  BY DEF MarkEntry, MarkFails, Unmark, OrderFails, Resume
<1>2. LocksOK' /\ CheckInsOK' /\ NoticesOK'
  BY <1>1 DEF ShutdownsInv, LocksOK, CheckInsOK, NoticesOK, Genuine
<1>3. CountsOK'
  <2>1. unheard' = unheard \/ Cut
    BY DEF MarkEntry, MarkFails, Unmark, OrderFails, Resume
  <2>2. suspends' = suspends
    BY DEF MarkEntry, MarkFails, Unmark, OrderFails, Resume
  <2>3. resumes' = resumes \/ (resumes < MaxResumes /\ resumes' = resumes + 1)
    BY DEF MarkEntry, MarkFails, Unmark, OrderFails, Resume
  <2> QED BY <1>1, <2>1, <2>2, <2>3, ShutdownsAssumption DEF ShutdownsInv, CountsOK, Cut
<1>4. MarksOK'
  <2>1. CASE MarkEntry(o)
    <3>1. /\ [by |-> order[o].node, at |-> order[o].at] \in given
          /\ order[o].node \in Branch /\ order[o].at \in Time
      BY <2>1 DEF ShutdownsInv, OrdersOK, OrderRecord, MarkEntry
    <3> QED BY <1>1, <2>1, <3>1 DEF ShutdownsInv, MarksOK, MarkEntry
  <2>2. CASE Unmark(o)
    BY <1>1, <2>2, ShutdownsAssumption DEF ShutdownsInv, MarksOK, Unmark, Time
  <2>3. CASE mark' = mark
    BY <1>1, <2>3 DEF ShutdownsInv, MarksOK
  <2> QED BY <2>1, <2>2, <2>3 DEF MarkFails, OrderFails, Resume
<1>5. OrdersOK'
  <2> DEFINE s == order[o]
  <2>1. PICK new : order' = [order EXCEPT ![o] = new] /\
          \/ new = NoOrder
          \/ s.pc = "mark" /\ new = [s EXCEPT !.pc = "lock"]
          \/ s.pc = "unmark" /\ new = [s EXCEPT !.pc = "ask"]
          \/ s.pc = "unmark" /\ new = [s EXCEPT !.pc = "unlock"]
          \/ \E n \in Branch, reached \in BOOLEAN :
               new = [NoOrder EXCEPT !.pc = "unmark", !.node = n, !.seen = lock[n],
                                     !.reached = reached]
    <3>1. CASE MarkEntry(o) \/ MarkFails(o)
      BY <3>1 DEF MarkEntry, MarkFails, AfterMark
    <3>2. CASE Unmark(o)
      BY <3>2 DEF Unmark, AfterUnmark
    <3>3. CASE OrderFails(o)
      BY <3>3 DEF OrderFails
    <3>4. CASE \E n \in Branch : Resume(o, n)
      BY <3>4 DEF Resume
    <3> QED BY <3>1, <3>2, <3>3, <3>4
  <2>2. s \in OrderRecord /\ (s.pc # "idle" => s.node \in Branch)
        /\ (s.pc \in {"mark", "lock"} => [by |-> s.node, at |-> s.at] \in given)
    BY DEF ShutdownsInv, OrdersOK
  <2>3. \A n \in Branch : lock[n] \in LockRecord
    BY DEF ShutdownsInv, LocksOK
  <2>4. /\ new \in OrderRecord
        /\ new.pc # "idle" => new.node \in Branch
        /\ new.pc \in {"mark", "lock"} => [by |-> new.node, at |-> new.at] \in given
    <3>1. CASE new = NoOrder
      BY <3>1, BlankRecords
    <3>2. CASE \/ s.pc = "mark" /\ new = [s EXCEPT !.pc = "lock"]
               \/ s.pc = "unmark" /\ new = [s EXCEPT !.pc = "ask"]
               \/ s.pc = "unmark" /\ new = [s EXCEPT !.pc = "unlock"]
      BY <2>2, <3>2 DEF OrderRecord
    <3>3. CASE \E n \in Branch, reached \in BOOLEAN :
                 new = [NoOrder EXCEPT !.pc = "unmark", !.node = n, !.seen = lock[n],
                                       !.reached = reached]
      BY <2>3, <3>3, BlankRecords DEF NoOrder, OrderRecord
    <3> QED BY <2>1, <3>1, <3>2, <3>3
  <2> QED BY <1>1, <2>1, <2>4 DEF ShutdownsInv, OrdersOK
<1> QED BY <1>2, <1>3, <1>4, <1>5 DEF ShutdownsInv

LEMMA LockNodeKeeps ==
  ASSUME ShutdownsInv, NEW o \in Orderer, LockNode(o)
  PROVE  ShutdownsInv'
<1> DEFINE n == order[o].node
           cause == [by |-> n, at |-> order[o].at]
           l == [cause |-> cause, via |-> "ORDER"]
<1>1. n \in Branch /\ order[o].at \in Time /\ cause \in given
  BY DEF ShutdownsInv, OrdersOK, OrderRecord, LockNode
<1>2. cause \in Cause /\ Genuine(n, cause) /\ cause # Nothing /\ cause.by = n
  BY <1>1, OwnOrderIsGenuine
<1>3. /\ lock' = [lock EXCEPT ![n] = l] /\ given' = given
      /\ notices' = notices \cup Visits(n, n, cause)
  BY DEF LockNode
<1>4. l \in LockRecord /\ l.via = "ORDER" /\ l.cause = cause
  BY <1>2 DEF LockRecord
<1>5. LocksOK' /\ NoticesOK'
  <2> HIDE DEF l, cause, n
  <2> QED BY <1>1, <1>2, <1>3, <1>4, LockWritten, NoticesSent
<1>6. CountsOK' /\ MarksOK' /\ OrdersOK' /\ CheckInsOK'
  BY BlankRecords DEF ShutdownsInv, CountsOK, MarksOK, OrdersOK, CheckInsOK, LockNode, Genuine
<1> QED BY <1>5, <1>6 DEF ShutdownsInv

LEMMA UnlockNodeKeeps ==
  ASSUME ShutdownsInv, NEW o \in Orderer, UnlockNode(o)
  PROVE  ShutdownsInv'
<1>1. order[o] \in OrderRecord /\ order[o].node \in Branch
  BY DEF ShutdownsInv, OrdersOK, UnlockNode
<1>2. LocksOK'
  BY <1>1, BlankRecords, NothingIsGenuine, LockWritten DEF UnlockNode
<1>3. OrdersOK'
  BY <1>1 DEF ShutdownsInv, OrdersOK, OrderRecord, UnlockNode
<1>4. CountsOK' /\ MarksOK' /\ CheckInsOK' /\ NoticesOK'
  BY DEF ShutdownsInv, CountsOK, MarksOK, CheckInsOK, NoticesOK, UnlockNode, Genuine
<1> QED BY <1>2, <1>3, <1>4 DEF ShutdownsInv

LEMMA AskAboveKeeps ==
  ASSUME ShutdownsInv, NEW o \in Orderer, AskAbove(o)
  PROVE  ShutdownsInv'
<1>1. order[o] \in OrderRecord /\ order[o].node \in Branch /\ given' = given
  BY DEF ShutdownsInv, OrdersOK, AskAbove
<1>2. CASE Up[order[o].node] = Nobody
  <2>1. NoticesOK'
    BY <1>1, <1>2, NothingIsGenuine, NoticesSent DEF AskAbove
  <2>2. OrdersOK'
    BY <1>1, <1>2, BlankRecords DEF ShutdownsInv, OrdersOK, AskAbove
  <2> QED BY <1>2, <2>1, <2>2
        DEF ShutdownsInv, CountsOK, LocksOK, MarksOK, CheckInsOK, AskAbove, Genuine
<1>3. CASE Up[order[o].node] # Nobody
  <2>1. CheckInsOK'
    BY <1>1, <1>3, AskKeeps DEF AskAbove
  <2>2. OrdersOK'
    BY <1>1, <1>3 DEF ShutdownsInv, OrdersOK, OrderRecord, AskAbove
  <2> QED BY <1>3, <2>1, <2>2
        DEF ShutdownsInv, CountsOK, LocksOK, MarksOK, NoticesOK, AskAbove, Genuine
<1> QED BY <1>2, <1>3

-----------------------------------------------------------------------------

LEMMA StepShutdowns ==
  ASSUME ShutdownsInv, [ShutdownsNext]_shutdownVars PROVE ShutdownsInv'
<1>1. ASSUME NEW n \in Branch, OwnCheckIn(n) PROVE ShutdownsInv'
  <2>1. CheckInsOK'
    BY <1>1, AskKeeps DEF OwnCheckIn
  <2> QED BY <1>1, <2>1
        DEF ShutdownsInv, CountsOK, LocksOK, MarksOK, OrdersOK, NoticesOK, OwnCheckIn, Genuine
<1>2. ASSUME NEW w \in Branch \cup Orderer, CheckIns(w) \/ CheckInFails(w) PROVE ShutdownsInv'
  BY <1>2, AnswerKeeps, ApplyKeeps, CheckInFailsKeeps DEF CheckIns
<1>3. CASE NoticeSteps \/ \E v \in notices : NoticeMisses(v)
  BY <1>3, NoticeKeeps DEF NoticeSteps
<1>4. ASSUME NEW o \in Orderer, NEW n \in Branch, Suspend(o, n) \/ Resume(o, n)
      PROVE  ShutdownsInv'
  BY <1>4, SuspendKeeps, OrderGoesOn
<1>5. ASSUME NEW o \in Orderer, Orders(o) \/ MarkFails(o) \/ OrderFails(o)
      PROVE  ShutdownsInv'
  BY <1>5, OrderGoesOn, LockNodeKeeps, UnlockNodeKeeps, AskAboveKeeps DEF Orders
<1>6. CASE UNCHANGED shutdownVars
  BY <1>6 DEF shutdownVars, ShutdownsInv, CountsOK, LocksOK, MarksOK, OrdersOK, CheckInsOK,
              NoticesOK, Genuine
<1> QED BY <1>1, <1>2, <1>3, <1>4, <1>5, <1>6 DEF ShutdownsNext

LEMMA ShutdownsInvHolds == ShutdownsSpec => []ShutdownsInv
<1>1. ShutdownsInit => ShutdownsInv
  BY InitShutdowns
<1>2. ShutdownsInv /\ [ShutdownsNext]_shutdownVars => ShutdownsInv'
  BY StepShutdowns
<1> QED BY <1>1, <1>2, PTL DEF ShutdownsSpec

(* Locks, marks and counts are of the right types, and a node is locked    *)
(* exactly when its record names a cause.                                  *)
THEOREM ShutdownsTypesHold == ShutdownsSpec => []ShutdownsTypeOK
<1>1. ShutdownsInv => ShutdownsTypeOK
  BY DEF ShutdownsInv, CountsOK, LocksOK, MarksOK, ShutdownsTypeOK
<1> QED BY <1>1, ShutdownsInvHolds, PTL

(* No node locks by itself: every lock names an order that was given to    *)
(* the node or to one above it, although check-ins, notices and orders     *)
(* write what they read some time before (conversations.ts, checkIn,       *)
(* noticeDown, suspend, resume).                                           *)
THEOREM LocksHaveCauses == ShutdownsSpec => []LockHasCause
<1>1. ASSUME ShutdownsInv PROVE LockHasCause
  <2>1. SUFFICES ASSUME NEW n \in Branch, lock[n] # Unlocked
                 PROVE  /\ lock[n].cause \in given
                        /\ lock[n].cause.by \in SelfAndAbove(n)
                        /\ lock[n].via = "ORDER" => lock[n].cause.by = n
    BY DEF LockHasCause
  <2>2. lock[n] \in LockRecord /\ (lock[n].via = "NONE" <=> lock[n].cause = Nothing)
        /\ (lock[n].via = "ORDER" => lock[n].cause.by = n) /\ Genuine(n, lock[n].cause)
    BY <1>1 DEF ShutdownsInv, LocksOK
  <2>3. lock[n].cause # Nothing
    BY <2>1, <2>2 DEF LockRecord, Unlocked
  <2> QED BY <2>2, <2>3 DEF Genuine
<1> QED BY <1>1, ShutdownsInvHolds, PTL
=============================================================================
