--------------------------- MODULE ChildListsProofs ---------------------------
(***************************************************************************)
(* Proofs about ChildLists, for any nodes, any operators and any number of *)
(* conversations and lost calls: every call goes to a node, no list ever   *)
(* names a child its node may not hold, and no list names too few.         *)
(*                                                                         *)
(* Each operation compares the types itself but one: retireChild takes     *)
(* a child whose type has a seat, whatever its own node's type.  It is     *)
(* asked only of a node that lists the child, which is remembered here for *)
(* every call still to be made or still to come.                           *)
(*                                                                         *)
(* That no list names too few rests on the order of the calls: a parent    *)
(* lists a child before the child points to it, and drops it only after    *)
(* the child points elsewhere; a list is handed on before its node         *)
(* retires.  Between two calls every node acts by itself, so each call is  *)
(* shown to stay fit whatever the nodes do meanwhile (Drifts), and to make *)
(* fit the calls after it that relied on it (Discharged).                  *)
(***************************************************************************)
EXTENDS ChildLists, SequenceTheorems, TLAPS

Operation ==
  {"add", "drop", "sweep", "undo", "point", "hand", "retire", "complete", "open", "issue",
   "basis", "accept", "place", "acceptRetired", "retireChild", "checkIn", "repair"}

CallRecord == [do : Operation, at : Node, kids : SUBSET Node, to : Node \cup {None}]

FitsOwn(k) == \A c \in k.kids : MayHold(Type[k.at], Type[c])
FitCall ==
  {k \in CallRecord : /\ k.do = "retireChild" => FitsOwn(k)
                      /\ k.do = "checkIn" => k.to \in Node}

RecordsOK ==
  /\ node \in [Node -> Record]
  /\ fresh \subseteq Node
  /\ strayed \subseteq Node
  /\ overlapped \in BOOLEAN
  /\ talks \in 0 .. MaxTalks
  /\ cuts \in 0 .. MaxCuts

CallsOK ==
  /\ todo \in [Talker -> Seq(FitCall)]
  /\ late \subseteq FitCall

ListsInv == RecordsOK /\ CallsOK /\ KindsFit

-----------------------------------------------------------------------------

LEMMA Calls ==
  ASSUME NEW n \in Node, NEW m \in Node, NEW kids \in SUBSET Node, NEW to \in Node \cup {None}
  PROVE  /\ AddChildren(n, kids) \in FitCall
         /\ RemoveChild(n, m) \in FitCall
         /\ SweepChild(n, m) \in FitCall
         /\ UndoChild(n, m) \in FitCall
         /\ SetParent(n, to) \in FitCall
         /\ HandTo(n, to) \in FitCall
         /\ Retire(n) \in FitCall
         /\ MarkList(n, TRUE) \in FitCall
         /\ MarkList(n, FALSE) \in FitCall
         /\ IssueChildId(n, m) \in FitCall
         /\ IssueBasis(n) \in FitCall
         /\ Accept(n, to) \in FitCall
         /\ Place(n, to) \in FitCall
         /\ AcceptRetired(n, to) \in FitCall
         /\ AskParent(m, n) \in FitCall
         /\ Repair(n) \in FitCall
BY DEF AddChildren, RemoveChild, SweepChild, UndoChild, SetParent, HandTo, Retire, MarkList,
       IssueChildId, IssueBasis, Accept, Place, AcceptRetired, AskParent, Repair,
       Call, FitCall, CallRecord, Operation

LEMMA Lines ==
  ASSUME NEW a \in FitCall, NEW b \in FitCall
  PROVE  <<>> \in Seq(FitCall) /\ <<a>> \in Seq(FitCall) /\ <<a, b>> \in Seq(FitCall)
OBVIOUS

LEMMA Empty == <<>> \in Seq(FitCall)
OBVIOUS

LEMMA FirstCall ==
  ASSUME CallsOK, NEW t \in Talker, todo[t] # <<>>
  PROVE  Head(todo[t]) \in FitCall /\ Tail(todo[t]) \in Seq(FitCall)
BY HeadTailProperties DEF CallsOK

LEMMA InitLists == ASSUME Init PROVE ListsInv
<1>1. RecordsOK
  <2>1. ASSUME NEW n \in Node
        PROVE  node[n] \in Record /\ node[n].list \subseteq DOMAIN Start
    BY ChildListsAssumption DEF Init, Record, Recorded
  <2>2. node \in [Node -> Record]
    BY <2>1 DEF Init
  <2>3. 0 \in 0 .. MaxTalks /\ 0 \in 0 .. MaxCuts
    <3>1. MaxTalks \in Nat /\ MaxCuts \in Nat
      BY ChildListsAssumption
    <3> QED BY <3>1
  <2>4. Fresh \subseteq Node
    BY ChildListsAssumption
  <2> QED BY <2>2, <2>3, <2>4 DEF Init, RecordsOK
<1>2. CallsOK
  BY DEF Init, CallsOK
<1>3. KindsFit
  <2>1. SUFFICES ASSUME NEW n \in Node, NEW c \in node[n].list PROVE MayHold(Type[n], Type[c])
    BY DEF KindsFit
  <2>2. n \in DOMAIN Start /\ c \in DOMAIN Start /\ Start[c] = n
    BY <2>1 DEF Init, Recorded
  <2> QED BY <2>2, ChildListsAssumption
<1> QED BY <1>1, <1>2, <1>3 DEF ListsInv

-----------------------------------------------------------------------------
(* What a node's Core does with a call.                                    *)

LEMMA DoKeeps ==
  ASSUME ListsInv, NEW k \in FitCall, Accepts(k), Do(k)
  PROVE  node' \in [Node -> Record] /\ strayed' \subseteq Node /\ KindsFit'
<1>1. k \in CallRecord /\ k.at \in Node /\ k.kids \subseteq Node /\ k.to \in Node \cup {None}
      /\ (k.do = "retireChild" => FitsOwn(k)) /\ k.do \in Operation
  BY DEF FitCall, CallRecord
<1> DEFINE r == node[k.at]
<1>2. r \in Record
  BY <1>1 DEF ListsInv, RecordsOK
<1>3. After(k) \in Record
  <2>1. CASE k.do \in {"add", "issue", "retireChild"} \cup Removals
    BY <1>1, <1>2, <2>1 DEF After, Record, Removals
  <2>2. CASE k.do = "checkIn"
    BY <1>1, <1>2, <2>2 DEF After, Record, CheckedIn, Removals
  <2>3. CASE k.do \in {"point", "hand", "retire"}
    BY <1>1, <1>2, <2>3 DEF After, Record, Removals
  <2>4. CASE k.do \in {"complete", "open"}
    BY <1>1, <1>2, <2>4 DEF After, Record, Removals
  <2>5. CASE k.do \in {"accept", "place", "acceptRetired"}
    BY <1>1, <2>5 DEF After, Record, Recorded, Removals
  <2>6. CASE k.do \in {"basis", "repair"}
    BY <1>2, <2>6 DEF After, Removals
  <2> QED BY <1>1, <2>1, <2>2, <2>3, <2>4, <2>5, <2>6 DEF Operation, Removals
<1>4. \A c \in After(k).list : c \in r.list \/ MayHold(Type[k.at], Type[c])
  <2>1. CASE k.do \in {"add", "issue"}
    BY <1>2, <2>1 DEF After, Accepts, MayGain, Record
  <2>2. CASE k.do = "checkIn"
    BY <1>2, <2>2 DEF After, Accepts, MayGain, CheckedIn, Record, Active
  <2>3. CASE k.do = "retireChild"
    BY <1>1, <1>2, <2>3 DEF After, FitsOwn, Record, Removals
  <2>4. CASE k.do \notin {"add", "issue", "checkIn", "retireChild"}
    BY <1>1, <1>2, <2>4 DEF After, Record, Recorded, Removals, Operation
  <2> QED BY <2>1, <2>2, <2>3, <2>4
<1>5. node' = [node EXCEPT ![k.at] = After(k)]
  BY DEF Do
<1>6. node' \in [Node -> Record]
  BY <1>1, <1>3, <1>5 DEF ListsInv, RecordsOK
<1>7. KindsFit'
  <2>1. ASSUME NEW n \in Node, NEW c \in node'[n].list PROVE MayHold(Type[n], Type[c])
    <3>1. CASE n = k.at
      BY <1>1, <1>4, <1>5, <2>1, <3>1 DEF ListsInv, RecordsOK, KindsFit
    <3>2. CASE n # k.at
      BY <1>5, <2>1, <3>2 DEF ListsInv, RecordsOK, KindsFit
    <3> QED BY <3>1, <3>2
  <2> QED BY <2>1 DEF KindsFit
<1>8. strayed' \subseteq Node
  <2>1. Strays(k) \subseteq Node
    BY <1>1 DEF Strays
  <2>2. strayed' \subseteq strayed \cup Strays(k)
    BY DEF Do
  <2> QED BY <2>1, <2>2 DEF ListsInv, RecordsOK
<1> QED BY <1>6, <1>7, <1>8

LEMMA FollowingCalls ==
  ASSUME ListsInv, NEW k \in FitCall
  PROVE  Follow(k) \in Seq(FitCall)
<1>1. k.at \in Node /\ k.to \in Node \cup {None}
  BY DEF FitCall, CallRecord
<1>2. CASE k.do = "checkIn"
  <2>1. k.to \in Node
    BY <1>2 DEF FitCall
  <2>2. Repair(k.to) \in FitCall /\ Retire(k.to) \in FitCall
    BY <2>1, Calls
  <2> QED BY <1>2, <2>2 DEF Follow, HeedAnswer
<1>3. CASE k.do = "repair"
  <2> DEFINE c == k.at
  <2>1. CASE Heir(c) \in Node
    <3>1. AddChildren(Heir(c), {c}) \in FitCall /\ SetParent(c, Heir(c)) \in FitCall
      BY <1>1, <2>1, Calls
    <3> QED BY <1>3, <3>1 DEF Follow, RepairParent
  <2>2. CASE Heir(c) \notin Node
    BY <1>3, <2>2 DEF Follow, RepairParent
  <2> QED BY <2>1, <2>2
<1>4. CASE k.do \notin {"checkIn", "repair"}
  BY <1>4 DEF Follow
<1> QED BY <1>2, <1>3, <1>4

LEMMA UndoingCalls ==
  ASSUME ListsInv, NEW k \in FitCall, NEW rest \in Undone(k)
  PROVE  rest \in Seq(FitCall)
<1>1. k.at \in Node /\ k.to \in Node \cup {None}
  BY DEF FitCall, CallRecord
<1>2. CASE k.to \in Node
  <2>1. UndoChild(k.to, k.at) \in FitCall
    BY <1>1, <1>2, Calls
  <2>2. rest \in {<<>>, <<UndoChild(k.to, k.at)>>}
    BY DEF Undone
  <2> QED BY <2>1, <2>2, Lines
<1>3. CASE k.to = None
  BY <1>3, Empty DEF Undone
<1> QED BY <1>1, <1>2, <1>3

LEMMA AnsweringKeeps ==
  ASSUME ListsInv, NEW t \in Talker, Answered(t) \/ Refused(t)
  PROVE  ListsInv'
<1> DEFINE k == Head(todo[t])
<1>1. k \in FitCall /\ Tail(todo[t]) \in Seq(FitCall)
  BY FirstCall DEF ListsInv, Answered, Refused
<1>2. CASE Answered(t)
  <2>1. Follow(k) \o Tail(todo[t]) \in Seq(FitCall)
    <3>1. Follow(k) \in Seq(FitCall)
      BY <1>1, FollowingCalls
    <3> QED BY <1>1, <3>1, ConcatProperties
  <2>2. /\ todo' = [todo EXCEPT ![t] = Follow(k) \o Tail(todo[t])]
        /\ overlapped' = (overlapped \/ Collides(t, k))
        /\ UNCHANGED <<fresh, late, talks, cuts>>
    BY <1>2 DEF Answered
  <2>3. CallsOK'
    <3> HIDE DEF k
    <3> QED BY <2>1, <2>2 DEF ListsInv, CallsOK
  <2>4. node' \in [Node -> Record] /\ strayed' \subseteq Node /\ KindsFit'
    BY <1>1, <1>2, DoKeeps DEF Answered
  <2>5. overlapped' \in BOOLEAN
    BY <2>2
  <2> QED BY <2>2, <2>3, <2>4, <2>5 DEF ListsInv, RecordsOK
<1>3. CASE Refused(t)
  <2>1. PICK rest \in Undone(k) : todo' = [todo EXCEPT ![t] = rest]
    BY <1>3 DEF Refused
  <2>2. rest \in Seq(FitCall)
    BY <1>1, UndoingCalls
  <2> QED BY <1>3, <2>1, <2>2 DEF Refused, ListsInv, RecordsOK, CallsOK, KindsFit
<1> QED BY <1>2, <1>3

LEMMA CutOffKeeps == ASSUME ListsInv, NEW t \in Talker, CutOff(t) PROVE ListsInv'
<1> DEFINE k == Head(todo[t])
<1>1. k \in FitCall
  BY FirstCall DEF ListsInv, CutOff
<1>2. /\ cuts < MaxCuts /\ cuts' = cuts + 1
      /\ UNCHANGED <<fresh, talks>>
  BY DEF CutOff
<1>3. cuts' \in 0 .. MaxCuts
  BY <1>2, ChildListsAssumption DEF ListsInv, RecordsOK
<1>4. CASE /\ late' \in {late, late \cup {k}}
           /\ \E rest \in Undone(k) : todo' = [todo EXCEPT ![t] = rest]
           /\ UNCHANGED <<node, strayed, overlapped>>
  <2>1. PICK rest \in Undone(k) : todo' = [todo EXCEPT ![t] = rest]
    BY <1>4
  <2>2. rest \in Seq(FitCall)
    BY <1>1, UndoingCalls
  <2>3. CallsOK'
    <3> HIDE DEF k
    <3> QED BY <1>1, <1>4, <2>1, <2>2 DEF ListsInv, CallsOK
  <2> QED BY <1>2, <1>3, <1>4, <2>3 DEF ListsInv, RecordsOK, KindsFit
<1>5. CASE /\ Accepts(k) /\ Do(k)
           /\ todo' = [todo EXCEPT ![t] = <<>>]
           /\ overlapped' = (overlapped \/ Collides(t, k))
           /\ UNCHANGED late
  <2>1. node' \in [Node -> Record] /\ strayed' \subseteq Node /\ KindsFit'
    BY <1>1, <1>5, DoKeeps
  <2>2. CallsOK'
    BY <1>5 DEF ListsInv, CallsOK
  <2>3. overlapped' \in BOOLEAN
    BY <1>5
  <2> QED BY <1>2, <1>3, <2>1, <2>2, <2>3 DEF ListsInv, RecordsOK
<1> QED BY <1>4, <1>5 DEF CutOff

LEMMA LateCallKeeps == ASSUME ListsInv, NEW k \in late, LateCall(k) PROVE ListsInv'
<1>1. k \in FitCall /\ late' \subseteq FitCall /\ todo' = todo /\ overlapped' = TRUE
      /\ UNCHANGED <<fresh, talks, cuts>>
  BY DEF ListsInv, CallsOK, LateCall
<1>2. CASE Accepts(k)
  <2>1. node' \in [Node -> Record] /\ strayed' \subseteq Node /\ KindsFit'
    BY <1>1, <1>2, DoKeeps DEF LateCall
  <2> QED BY <1>1, <2>1 DEF ListsInv, RecordsOK, CallsOK
<1>3. CASE ~Accepts(k)
  BY <1>1, <1>3 DEF LateCall, ListsInv, RecordsOK, CallsOK, KindsFit
<1> QED BY <1>2, <1>3

-----------------------------------------------------------------------------
(* Conversations.                                                          *)

LEMMA BeginKeeps ==
  ASSUME ListsInv, NEW o \in Operator, NEW calls \in Seq(FitCall), Begin(o, calls),
         fresh' \subseteq Node, cuts' \in 0 .. MaxCuts
  PROVE  ListsInv'
<1>1. /\ talks < MaxTalks /\ talks' = talks + 1
      /\ todo' = [todo EXCEPT ![o] = calls]
      /\ overlapped' \in BOOLEAN
      /\ strayed' \subseteq strayed
      /\ UNCHANGED <<node, late>>
  BY DEF Begin, Ready, ListsInv, RecordsOK
<1>2. talks' \in 0 .. MaxTalks
  BY <1>1, ChildListsAssumption DEF ListsInv, RecordsOK
<1> QED BY <1>1, <1>2 DEF ListsInv, RecordsOK, CallsOK, KindsFit, Talker

(* Nodes are made, placed and put between others. *)
LEMMA PlacingKeeps ==
  ASSUME ListsInv, NEW o \in Operator, NEW p \in Node \cup {None}, NEW n \in Node, NEW c \in Node,
         \/ p \in Node /\ CreateNode(o, p, n)
         \/ PlaceIssued(o, p, n)
         \/ InsertAbove(o, c, n)
         \/ p \in Node /\ AddParentAbove(o, c, n, p)
  PROVE  ListsInv'
<1>1. fresh \subseteq Node /\ cuts \in 0 .. MaxCuts
      /\ Parent(c) \in Node \cup {None}
  BY DEF ListsInv, RecordsOK, Parent, Record
<1>2. CASE p \in Node /\ CreateNode(o, p, n)
  <2>1. IssueChildId(p, n) \in FitCall /\ Place(n, p) \in FitCall
    BY <1>2, Calls
  <2>2. Begin(o, <<IssueChildId(p, n), Place(n, p)>>) /\ fresh' \subseteq Node /\ cuts' = cuts
    BY <1>1, <1>2 DEF CreateNode
  <2>3. <<IssueChildId(p, n), Place(n, p)>> \in Seq(FitCall)
    BY <2>1, Lines
  <2> QED BY <1>1, <2>2, <2>3, BeginKeeps
<1>3. CASE PlaceIssued(o, p, n)
  <2>1. fresh' = fresh /\ cuts' = cuts
    BY <1>3 DEF PlaceIssued
  <2>2. CASE p = None
    <3>1. Place(n, None) \in FitCall
      BY Calls
    <3>2. Begin(o, <<Place(n, None)>>)
      BY <1>3, <2>2 DEF PlaceIssued
    <3>3. <<Place(n, None)>> \in Seq(FitCall)
      BY <3>1, Lines
    <3> QED BY <1>1, <2>1, <3>2, <3>3, BeginKeeps
  <2>3. CASE p # None
    <3>1. AddChildren(p, {n}) \in FitCall /\ Place(n, p) \in FitCall
      BY <2>3, Calls
    <3>2. Begin(o, <<AddChildren(p, {n}), Place(n, p)>>)
      BY <1>3, <2>3 DEF PlaceIssued
    <3>3. <<AddChildren(p, {n}), Place(n, p)>> \in Seq(FitCall)
      BY <3>1, Lines
    <3> QED BY <1>1, <2>1, <3>2, <3>3, BeginKeeps
  <2> QED BY <2>2, <2>3
<1>4. CASE InsertAbove(o, c, n)
  <2> DEFINE q == Parent(c)
  <2>1. q \in Node /\ fresh' \subseteq Node /\ cuts' = cuts
        /\ Begin(o, <<IssueChildId(q, n), Accept(n, q), AddChildren(n, {c}),
                      SetParent(c, n), RemoveChild(q, c)>>)
    BY <1>1, <1>4 DEF InsertAbove
  <2>2. IssueChildId(q, n) \in FitCall /\ Accept(n, q) \in FitCall /\ AddChildren(n, {c}) \in FitCall
        /\ SetParent(c, n) \in FitCall /\ RemoveChild(q, c) \in FitCall
    BY <2>1, Calls
  <2> HIDE DEF q
  <2>3. <<IssueChildId(q, n), Accept(n, q), AddChildren(n, {c}), SetParent(c, n),
          RemoveChild(q, c)>> \in Seq(FitCall)
    BY <2>2
  <2> QED BY <1>1, <2>1, <2>3, BeginKeeps
<1>5. CASE p \in Node /\ AddParentAbove(o, c, n, p)
  <2>1. fresh' \subseteq Node /\ cuts' = cuts
        /\ Begin(o, <<IssueBasis(p), Accept(n, None), AddChildren(n, {c}), SetParent(c, n)>>)
    BY <1>1, <1>5 DEF AddParentAbove
  <2>2. IssueBasis(p) \in FitCall /\ Accept(n, None) \in FitCall /\ AddChildren(n, {c}) \in FitCall
        /\ SetParent(c, n) \in FitCall
    BY <1>5, Calls
  <2>3. <<IssueBasis(p), Accept(n, None), AddChildren(n, {c}), SetParent(c, n)>> \in Seq(FitCall)
    BY <2>2
  <2> QED BY <1>1, <2>1, <2>3, BeginKeeps
<1> QED BY <1>2, <1>3, <1>4, <1>5

(* Nodes are moved, and a node that was lost is replaced. *)
LEMMA MovingKeeps ==
  ASSUME ListsInv, NEW o \in Operator, NEW n \in Node, NEW q \in Node, NEW p \in Node \cup {None},
         NEW override \in BOOLEAN,
         ReplaceLost(o, n, q, p) \/ Rehome(o, n, q, override)
  PROVE  ListsInv'
<1>1. fresh \subseteq Node /\ cuts \in 0 .. MaxCuts
      /\ Parent(n) \in Node \cup {None}
  BY DEF ListsInv, RecordsOK, Parent, Record
<1>2. CASE ReplaceLost(o, n, q, p)
  <2> DEFINE rest == IF p = None THEN <<>> ELSE <<RemoveChild(p, n)>>
             first == <<MarkList(q, FALSE), AcceptRetired(n, q)>>
  <2>1. first \in Seq(FitCall) /\ rest \in Seq(FitCall)
    <3>1. MarkList(q, FALSE) \in FitCall /\ AcceptRetired(n, q) \in FitCall
      BY Calls
    <3>2. p # None => RemoveChild(p, n) \in FitCall
      BY Calls
    <3>3. first \in Seq(FitCall)
      BY <3>1, Lines
    <3>4. rest \in Seq(FitCall)
      BY <3>2, Lines, Empty
    <3> QED BY <3>3, <3>4
  <2>2. Begin(o, first \o rest) /\ fresh' = fresh /\ cuts' = cuts
    BY <1>2 DEF ReplaceLost
  <2>3. first \o rest \in Seq(FitCall)
    <3> HIDE DEF first, rest
    <3> QED BY <2>1, ConcatProperties
  <2> HIDE DEF first, rest
  <2> QED BY <1>1, <2>2, <2>3, BeginKeeps
<1>3. CASE Rehome(o, n, q, override)
  <2> DEFINE old == Parent(n)
             rest == IF old # None /\ Held(old) THEN <<RemoveChild(old, n)>> ELSE <<>>
             first == <<AddChildren(q, {n}), SetParent(n, q)>>
  <2>1. first \in Seq(FitCall) /\ rest \in Seq(FitCall)
    <3>1. AddChildren(q, {n}) \in FitCall /\ SetParent(n, q) \in FitCall
      BY Calls
    <3>2. old # None => RemoveChild(old, n) \in FitCall
      BY <1>1, Calls
    <3>3. first \in Seq(FitCall)
      BY <3>1, Lines
    <3>4. rest \in Seq(FitCall)
      BY <3>2, Lines, Empty
    <3> QED BY <3>3, <3>4
  <2>2. Begin(o, first \o rest) /\ fresh' = fresh /\ cuts' = cuts
    BY <1>3 DEF Rehome
  <2>3. first \o rest \in Seq(FitCall)
    <3> HIDE DEF first, rest
    <3> QED BY <2>1, ConcatProperties
  <2> HIDE DEF first, rest
  <2> QED BY <1>1, <2>2, <2>3, BeginKeeps
<1> QED BY <1>2, <1>3

LEMMA HandingOver ==
  ASSUME ListsInv, NEW n \in Node, NEW heir \in Node, NEW last \in Seq(FitCall)
  PROVE  Handing(n, heir) \o Opening(n, heir) \o last \in Seq(FitCall)
<1>1. node[n].list \subseteq Node
  BY DEF ListsInv, RecordsOK, Record
<1>2. Handing(n, heir) \in Seq(FitCall)
  <2>1. AddChildren(heir, node[n].list \ {heir}) \in FitCall
    BY <1>1, Calls
  <2> QED BY <2>1, Lines, Empty DEF Handing
<1>3. Opening(n, heir) \in Seq(FitCall)
  <2>1. MarkList(heir, FALSE) \in FitCall
    BY Calls
  <2> QED BY <2>1, Lines, Empty DEF Opening
<1>4. Handing(n, heir) \o Opening(n, heir) \in Seq(FitCall)
  BY <1>2, <1>3, ConcatProperties
<1> QED BY <1>4, ConcatProperties

(* Nodes are removed, retired while away, and taken off a list. *)
LEMMA RemovingKeeps ==
  ASSUME ListsInv, NEW o \in Operator, NEW n \in Node, NEW p \in Node,
         \/ RemoveNode(o, n) \/ RemoveTop(o, n, p) \/ RetireAway(o, n, p)
         \/ CheckChild(o, p, n) \/ MarkChildList(o, n)
  PROVE  ListsInv'
<1>1. fresh \subseteq Node /\ cuts \in 0 .. MaxCuts
      /\ Parent(n) \in Node \cup {None}
  BY DEF ListsInv, RecordsOK, Parent, Record
<1>2. CASE RemoveNode(o, n)
  <2> DEFINE q == Parent(n)
             last == <<Retire(n), RemoveChild(q, n)>>
  <2>1. q \in Node /\ fresh' = fresh /\ cuts' = cuts
        /\ Begin(o, Handing(n, q) \o Opening(n, q) \o last)
    BY <1>1, <1>2 DEF RemoveNode
  <2>2. last \in Seq(FitCall)
    <3>1. Retire(n) \in FitCall /\ RemoveChild(q, n) \in FitCall
      BY <2>1, Calls
    <3> QED BY <3>1, Lines
  <2> HIDE DEF q, last
  <2>3. Handing(n, q) \o Opening(n, q) \o last \in Seq(FitCall)
    BY <2>1, <2>2, HandingOver
  <2> QED BY <1>1, <2>1, <2>3, BeginKeeps
<1>3. CASE RemoveTop(o, n, p)
  <2>1. Retire(n) \in FitCall /\ HandTo(n, p) \in FitCall
    BY Calls
  <2>2. <<Retire(n)>> \in Seq(FitCall) /\ <<HandTo(n, p), Retire(n)>> \in Seq(FitCall)
    BY <2>1, Lines
  <2>3. Handing(n, p) \o Opening(n, p) \o <<HandTo(n, p), Retire(n)>> \in Seq(FitCall)
    BY <2>2, HandingOver
  <2>4. fresh' = fresh /\ cuts' = cuts
    BY <1>3 DEF RemoveTop
  <2>5. \/ Begin(o, <<Retire(n)>>)
        \/ Begin(o, Handing(n, p) \o Opening(n, p) \o <<HandTo(n, p), Retire(n)>>)
    BY <1>3 DEF RemoveTop
  <2> QED BY <1>1, <2>2, <2>3, <2>4, <2>5, BeginKeeps
<1>4. CASE RetireAway(o, n, p)
  <2>1. MayHold(Type[p], Type[n])
    BY <1>4 DEF RetireAway, ListsInv, KindsFit
  <2>2. RetireChild(p, n) \in FitCall
    BY <2>1 DEF RetireChild, Call, FitCall, CallRecord, FitsOwn, Operation
  <2>3. cuts' \in 0 .. MaxCuts
    BY <1>1, <1>4, ChildListsAssumption DEF RetireAway
  <2>4. Begin(o, <<RetireChild(p, n)>>) /\ fresh' = fresh
    BY <1>4 DEF RetireAway
  <2>5. <<RetireChild(p, n)>> \in Seq(FitCall)
    BY <2>2, Lines
  <2>6. fresh' \subseteq Node
    BY <1>1, <2>4
  <2> QED BY <2>3, <2>4, <2>5, <2>6, BeginKeeps
<1>5. CASE CheckChild(o, p, n)
  <2>1. SweepChild(p, n) \in FitCall
    BY Calls
  <2>2. Begin(o, <<SweepChild(p, n)>>) /\ fresh' = fresh /\ cuts' = cuts
    BY <1>5 DEF CheckChild
  <2>3. <<SweepChild(p, n)>> \in Seq(FitCall)
    BY <2>1, Lines
  <2> QED BY <1>1, <2>2, <2>3, BeginKeeps
<1>6. CASE MarkChildList(o, n)
  <2>1. MarkList(n, TRUE) \in FitCall
    BY Calls
  <2>2. Begin(o, <<MarkList(n, TRUE)>>) /\ fresh' = fresh /\ cuts' = cuts
    BY <1>6 DEF MarkChildList
  <2>3. <<MarkList(n, TRUE)>> \in Seq(FitCall)
    BY <2>1, Lines
  <2> QED BY <1>1, <2>2, <2>3, BeginKeeps
<1> QED BY <1>2, <1>3, <1>4, <1>5, <1>6

-----------------------------------------------------------------------------
(* What goes on by itself.                                                 *)

LEMMA CheckInKeeps == ASSUME ListsInv, NEW c \in Node, CheckIn(c) PROVE ListsInv'
<1>1. Parent(c) \in Node
  BY DEF CheckIn, ListsInv, RecordsOK, Parent, Record
<1>2. AskParent(c, Parent(c)) \in FitCall
  BY <1>1, Calls
<1>3. <<AskParent(c, Parent(c))>> \in Seq(FitCall)
  BY <1>2
<1>4. CallsOK'
  BY <1>3 DEF CheckIn, ListsInv, CallsOK, Talker
<1> QED BY <1>4 DEF CheckIn, ListsInv, RecordsOK, KindsFit

LEMMA VanishKeeps == ASSUME ListsInv, NEW n \in Node, Vanish(n) PROVE ListsInv'
<1> DEFINE gone == [node[n] EXCEPT !.status = "GONE"]
<1>1. gone \in Record /\ gone.list = node[n].list
  BY DEF ListsInv, RecordsOK, Record
<1>2. node' = [node EXCEPT ![n] = gone]
  BY DEF Vanish
<1> HIDE DEF gone
<1>3. node' \in [Node -> Record]
  BY <1>1, <1>2 DEF ListsInv, RecordsOK
<1>4. KindsFit'
  BY <1>1, <1>2 DEF ListsInv, RecordsOK, KindsFit
<1>5. CallsOK'
  <2>1. todo' = [todo EXCEPT ![n] = <<>>] /\ late' = late /\ n \in Talker
    BY DEF Vanish, Talker
  <2> QED BY <2>1, Empty DEF ListsInv, CallsOK
<1>6. strayed' \subseteq strayed
  BY DEF Vanish
<1> QED BY <1>3, <1>4, <1>5, <1>6 DEF Vanish, ListsInv, RecordsOK

-----------------------------------------------------------------------------

LEMMA StepLists == ASSUME ListsInv, [Next]_vars PROVE ListsInv'
<1>1. ASSUME NEW o \in Operator, Conversation(o) PROVE ListsInv'
  <2>1. CASE \/ \E p, n \in Node : CreateNode(o, p, n)
             \/ \E p \in Node \cup {None}, n \in Node : PlaceIssued(o, p, n)
             \/ \E c, n \in Node : InsertAbove(o, c, n)
             \/ \E top, n, issuer \in Node : AddParentAbove(o, top, n, issuer)
    BY <2>1, PlacingKeeps
  <2>2. CASE \/ \E lost, r \in Node, p \in Node \cup {None} : ReplaceLost(o, lost, r, p)
             \/ \E n, q \in Node, override \in BOOLEAN : Rehome(o, n, q, override)
    BY <2>2, MovingKeeps
  <2>3. CASE \/ \E n \in Node : RemoveNode(o, n)
             \/ \E n, heir \in Node : RemoveTop(o, n, heir)
             \/ \E n, p \in Node : RetireAway(o, n, p)
             \/ \E p, c \in Node : CheckChild(o, p, c)
             \/ \E n \in Node : MarkChildList(o, n)
    BY <2>3, RemovingKeeps
  <2> QED BY <1>1, <2>1, <2>2, <2>3 DEF Conversation
<1>2. ASSUME NEW t \in Talker, Answered(t) \/ Refused(t) \/ CutOff(t) PROVE ListsInv'
  BY <1>2, AnsweringKeeps, CutOffKeeps
<1>3. ASSUME NEW c \in Node, CheckIn(c) \/ Vanish(c) PROVE ListsInv'
  BY <1>3, CheckInKeeps, VanishKeeps
<1>4. ASSUME NEW k \in late, LateCall(k) PROVE ListsInv'
  BY <1>4, LateCallKeeps
<1>5. CASE UNCHANGED vars
  BY <1>5 DEF vars, ListsInv, RecordsOK, CallsOK, KindsFit
<1> QED BY <1>1, <1>2, <1>3, <1>4, <1>5 DEF Next

LEMMA ListsInvHolds == Spec => []ListsInv
<1>1. Init => ListsInv
  BY InitLists
<1>2. ListsInv /\ [Next]_vars => ListsInv'
  BY StepLists
<1> QED BY <1>1, <1>2, PTL DEF Spec

(* A pointer and an entry name a node, and every call goes to one, also    *)
(* one that was read from a record or found on the way up.                 *)
THEOREM ListsTypesHold == Spec => []TypeOK
<1>1. ASSUME ListsInv PROVE TypeOK
  <2>1. ASSUME NEW t \in Talker, NEW i \in DOMAIN todo[t] PROVE todo[t][i].at \in Node
    <3>1. todo[t] \in Seq(FitCall)
      BY <1>1 DEF ListsInv, CallsOK
    <3>2. todo[t][i] \in FitCall
      BY <2>1, <3>1
    <3> QED BY <3>2 DEF FitCall, CallRecord
  <2> QED BY <1>1, <2>1 DEF ListsInv, RecordsOK, TypeOK
<1> QED BY <1>1, ListsInvHolds, PTL

(* No list names a child of a type its node may not hold, however it came  *)
(* there: calls that come late, are repeated, or follow a removal          *)
(* (checkGain, checkIn and retireChild in local-nodes.ts).                 *)
THEOREM ListsFitTypes == Spec => []KindsFit
<1>1. ListsInv => KindsFit
  BY DEF ListsInv
<1> QED BY <1>1, ListsInvHolds, PTL

-----------------------------------------------------------------------------
(* Why no list names too few.  Nodes act by themselves at any time, so what *)
(* a conversation relies on must be something no check-in, repair or loss  *)
(* takes away: each of its calls is fit to be made, or an earlier call of  *)
(* the same conversation makes it so.                                      *)

Known(n) == node[n].status # "NONE"
Gone(n) == node[n].status = "GONE"
Retired(n) == node[n].status = "RETIRED"

(* Its list has n, and only a conversation may retire it or take n off. *)
Vouches(p, n) == n \in node[p].list /\ Type[p] \notin Seated /\ (Active(p) \/ Gone(p))

PointersKnown == \A n \in Node : Parent(n) # None => Known(Parent(n))
FreshUnknown == fresh \subseteq Fresh /\ \A n \in fresh : ~Known(n)
MarkedSeated == \A n \in Node : \A c \in node[n].marked : Type[c] \in Seated
Alone == \A o, u \in Operator : o # u => todo[o] = <<>> \/ todo[u] = <<>>

(* What a node asks for by itself is about itself; it follows the way it   *)
(* is on, past a parent that stays retired.                                *)
OwnFits(c, k) ==
  /\ Known(c)
  /\ k.do \in {"checkIn", "repair", "retire", "add", "point"}
  /\ k.do = "checkIn" => k.to = c
  /\ k.do \in {"checkIn", "add"} => k.kids = {c}
  /\ k.do \in {"repair", "retire", "point"} => k.at = c
  /\ k.do = "retire" => Type[c] \in Seated
  /\ k.do = "point" /\ Active(c) => k.to \in Way(c) /\ Parent(c) \in Node /\ Retired(Parent(c))

OwnLine(c, calls) ==
  \A i \in DOMAIN calls : OwnFits(c, calls[i]) /\ (calls[i].do # "add" => i = Len(calls))

OwnCallsFit == \A c \in Node : OwnLine(c, todo[c])

(* Of the calls before k: what puts n on p's list, what says that p's list *)
(* may miss some, what makes c stop following its parent, what hands n to p. *)
Puts(before, p, n) == \E b \in before : b.do \in {"add", "issue"} /\ b.at = p /\ n \in b.kids
Opens(before, p) == \E b \in before : b.do = "open" /\ b.at = p
Takes(before, c) == \E b \in before : b.at = c /\ b.do \in {"point", "retire", "acceptRetired"}
Hands(before, n, p) == \E b \in before : b.do = "hand" /\ b.at = n /\ b.to = p

(* c does not follow p, and no node changes that by itself. *)
Left(p, c) ==
  \/ Gone(c) \/ Retired(c)
  \/ /\ Active(c) /\ Parent(c) \in Node \ {p} /\ Type[Parent(c)] \notin Seated
     /\ Active(Parent(c)) \/ Gone(Parent(c))

(* In what order calls come. *)
InOrder(k, before) ==
  /\ k.do \notin {"checkIn", "repair"}
  /\ k.do = "undo" => before = {}
  /\ \A b \in before :
       /\ b.do \in {"add", "issue", "basis", "open", "accept", "point", "hand", "retire", "acceptRetired"}
       /\ b.do = "accept" => k.do \in {"add", "point", "drop"}
       /\ b.do = "hand" => k.do = "retire" /\ k.at = b.at
       /\ b.do \in {"point", "retire", "acceptRetired"} => k.do = "drop" /\ k.kids = {b.at}
       /\ b.do = "point" => b.to # k.at

Handed(n, before) ==
  \A p, c \in Node : (Parent(n) = p \/ Hands(before, n, p)) /\ c # p /\ Follows(c, n) =>
    \/ c \in strayed
    \/ Vouches(p, c) \/ Puts(before, p, c)
    \/ ~node[p].complete \/ Opens(before, p)

Fits(k, before) ==
  /\ InOrder(k, before)
  /\ k.do \in {"accept", "place"} =>
       k.at \notin fresh /\ (k.to # None => Vouches(k.to, k.at) \/ Puts(before, k.to, k.at))
  /\ k.do = "point" => k.to \in Node /\ (Vouches(k.to, k.at) \/ Puts(before, k.to, k.at))
  /\ k.do = "hand" => k.to \in Node /\ Known(k.to)
  /\ k.do = "retire" /\ Type[k.at] \notin Seated => Handed(k.at, before)
  /\ k.do = "drop" => \A c \in k.kids : Left(k.at, c) \/ Takes(before, c)
  /\ k.do = "undo" => \A c \in k.kids : ~Active(c)
  /\ k.do = "complete" => \A c \in Node : Follows(c, k.at) => c \in node[k.at].list \cup strayed
  /\ k.do = "acceptRetired" =>
       /\ Known(k.at) /\ k.to \in Node /\ Known(k.to)
       /\ ~node[k.to].complete \/ Opens(before, k.to)

Earlier(calls, i) == {calls[j] : j \in 1 .. (i - 1)}
FitLine(calls) == \A i \in DOMAIN calls : Fits(calls[i], Earlier(calls, i))

TalkCallsFit == \A o \in Operator : FitLine(todo[o])

NoneMissing == \A c \in Node : Missing(c) => c \in strayed

Basics == PointersKnown /\ FreshUnknown /\ MarkedSeated

WatchInv == Basics /\ Alone /\ OwnCallsFit /\ TalkCallsFit /\ NoneMissing

(* The inductive invariant. *)
WatchedInv == ListsInv /\ (~overlapped => WatchInv)

-----------------------------------------------------------------------------
(* The way past retired nodes is the smallest set that has the parent and, *)
(* with a retired node, the one above it.                                  *)

OnTheWay ==
  \A n \in Node :
    /\ Parent(n) \in Way(n)
    /\ \A m \in Node : m \in Way(n) /\ Retired(m) => Parent(m) \in Way(n)
    /\ \A T : Parent(n) \in T /\ (\A m \in Node : m \in T /\ Retired(m) => Parent(m) \in T)
                => Way(n) \subseteq T

LEMMA WayIsLeast == OnTheWay
<1> SUFFICES ASSUME NEW n \in Node
    PROVE  /\ Parent(n) \in Way(n)
           /\ \A m \in Node : m \in Way(n) /\ Retired(m) => Parent(m) \in Way(n)
           /\ \A T : Parent(n) \in T /\ (\A m \in Node : m \in T /\ Retired(m) => Parent(m) \in T)
                       => Way(n) \subseteq T
  BY DEF OnTheWay
<1> DEFINE p == Parent(n)
           retired == {r \in Node : node[r].status = "RETIRED"}
           closed == {S \in SUBSET retired : \A r \in S : Parent(r) \in retired => Parent(r) \in S}
<1>1. RetiredFrom(p) = {r \in retired : \A S \in closed : (p \in retired => p \in S) => r \in S}
  BY DEF RetiredFrom
<1>2. Way(n) = {p} \cup {Parent(r) : r \in RetiredFrom(p)}
  BY DEF Way
<1>3. ASSUME NEW m \in Node, m \in Way(n), Retired(m) PROVE Parent(m) \in Way(n)
  <2>1. m \in retired
    BY <1>3 DEF Retired
  <2>2. CASE m = p
    <3>1. m \in RetiredFrom(p)
      BY <1>1, <2>1, <2>2
    <3> QED BY <1>2, <3>1
  <2>3. CASE m # p
    <3>1. PICK r \in RetiredFrom(p) : m = Parent(r)
      BY <1>2, <1>3, <2>3
    <3>2. ASSUME NEW S \in closed, p \in retired => p \in S PROVE m \in S
      <4>1. r \in S
        BY <1>1, <3>1, <3>2
      <4> QED BY <2>1, <3>1, <3>2, <4>1
    <3>3. m \in RetiredFrom(p)
      BY <1>1, <2>1, <3>2
    <3> QED BY <1>2, <3>3
  <2> QED BY <2>2, <2>3
<1>4. ASSUME NEW T, p \in T, \A m \in Node : m \in T /\ Retired(m) => Parent(m) \in T
      PROVE  Way(n) \subseteq T
  <2> DEFINE S == T \cap retired
  <2>1. S \in closed
    BY <1>4 DEF Retired
  <2>2. p \in retired => p \in S
    BY <1>4
  <2>3. RetiredFrom(p) \subseteq S
    BY <1>1, <2>1, <2>2
  <2>4. \A r \in S : Parent(r) \in T
    BY <1>4 DEF Retired
  <2> QED BY <1>2, <1>4, <2>3, <2>4
<1> QED BY <1>2, <1>3, <1>4

LEMMA WayIsLeastNext == OnTheWay'
BY WayIsLeast, PTL

(* Whatever has the parent, and with a retired node the one above it, has  *)
(* the way; also after a step, of the pointers as they are then.           *)
LEMMA WayWithin ==
  ASSUME NEW n \in Node, NEW T, Parent(n)' \in T,
         \A m \in Node : m \in T /\ Retired(m)' => Parent(m)' \in T
  PROVE  Way(n)' \subseteq T
BY WayIsLeastNext DEF OnTheWay

(* A way only grows while its node's pointer stays and retired nodes keep  *)
(* theirs.                                                                 *)
LEMMA WayGrows ==
  ASSUME NEW n \in Node, Parent(n)' = Parent(n),
         \A m \in Node : Retired(m) => Retired(m)' /\ Parent(m)' = Parent(m)
  PROVE  Way(n) \subseteq Way(n)'
<1>1. Parent(n) \in Way(n)'
  BY WayIsLeastNext DEF OnTheWay
<1>2. \A m \in Node : m \in Way(n)' /\ Retired(m) => Parent(m) \in Way(n)'
  BY WayIsLeastNext DEF OnTheWay
<1> QED BY <1>1, <1>2, WayIsLeast DEF OnTheWay

(* Past a parent that is not retired nothing is followed. *)
LEMMA WayOfOne ==
  ASSUME NEW n \in Node, Parent(n) = None \/ ~Retired(Parent(n))
  PROVE  Way(n) = {Parent(n)}
<1>1. \A m \in Node : m \in {Parent(n)} /\ Retired(m) => Parent(m) \in {Parent(n)}
  BY ChildListsAssumption
<1> QED BY <1>1, WayIsLeast DEF OnTheWay

LEMMA WayHasNodes ==
  ASSUME ListsInv, NEW n \in Node, NEW m \in Way(n)
  PROVE  /\ m \in Node \cup {None}
         /\ \E r \in Node : Parent(r) = m
<1>1. m = Parent(n) \/ \E r \in RetiredFrom(Parent(n)) : m = Parent(r)
  BY DEF Way
<1>2. RetiredFrom(Parent(n)) \subseteq Node
  BY DEF RetiredFrom
<1>3. \E r \in Node : Parent(r) = m
  BY <1>1, <1>2
<1> QED BY <1>3 DEF ListsInv, RecordsOK, Record, Parent

(* A user or machine holds nothing. *)
LEMMA HoldersAreNotSeated ==
  ASSUME NEW n \in Node, NEW c \in Node, MayHold(Type[n], Type[c])
  PROVE  Type[n] \notin Seated
<1>1. Type[n] \in NodeType
  BY ChildListsAssumption
<1> QED BY <1>1 DEF NodeType, MayHold, MAY_HOLD, Seated

LEMMA OneRow ==
  ASSUME ListsInv, NEW k \in FitCall, Do(k)
  PROVE  /\ k.at \in Node
         /\ node'[k.at] = After(k)
         /\ \A n \in Node : n # k.at => node'[n] = node[n]
         /\ strayed' = strayed \cup Strays(k)
<1>1. k.at \in Node /\ DOMAIN node = Node
  BY DEF FitCall, CallRecord, ListsInv, RecordsOK
<1> QED BY <1>1 DEF Do

-----------------------------------------------------------------------------
(* What check-ins, repairs and losses may do, between two calls of a       *)
(* conversation: lists grow, nodes are lost, users and machines retire, a  *)
(* pointer to a retired node is repaired, and nobody follows a new node    *)
(* but those that strayed.                                                 *)

Drifts ==
  /\ fresh' = fresh
  /\ strayed \subseteq strayed'
  /\ \A n \in Node :
       /\ node[n].list \subseteq node'[n].list
       /\ node'[n].complete => node[n].complete
       /\ Active(n)' => Active(n)
       /\ Active(n) /\ ~Active(n)' => Gone(n)' \/ (Retired(n)' /\ Type[n] \in Seated)
       /\ Gone(n) => Gone(n)'
       /\ Retired(n) => Retired(n)'
       /\ Known(n)' <=> Known(n)
       /\ Parent(n)' # Parent(n) => Parent(n) \in Node /\ Retired(Parent(n))
  /\ \A c, n \in Node : Follows(c, n)' => Follows(c, n) \/ c \in strayed'

LEMMA VouchesDrifts ==
  ASSUME Drifts, NEW p \in Node, NEW n \in Node, Vouches(p, n)
  PROVE  Vouches(p, n)'
BY DEF Drifts, Vouches

LEMMA LeftDrifts ==
  ASSUME Drifts, NEW p \in Node, NEW c \in Node, Left(p, c)
  PROVE  Left(p, c)'
<1>1. CASE Gone(c) \/ Retired(c)
  BY <1>1 DEF Drifts, Left
<1>2. CASE /\ Active(c) /\ Parent(c) \in Node \ {p} /\ Type[Parent(c)] \notin Seated
           /\ Active(Parent(c)) \/ Gone(Parent(c))
  <2>1. ~Retired(Parent(c))
    BY <1>2 DEF Active, Gone, Retired
  <2>2. Parent(c)' = Parent(c)
    BY <2>1 DEF Drifts
  <2>3. Active(Parent(c))' \/ Gone(Parent(c))'
    BY <1>2, <2>2 DEF Drifts
  <2> QED BY <1>2, <2>2, <2>3 DEF Drifts, Left
<1> QED BY <1>1, <1>2 DEF Left

LEMMA HandedDrifts ==
  ASSUME Drifts, NEW n \in Node, NEW before, Handed(n, before), Parent(n)' = Parent(n)
  PROVE  Handed(n, before)'
<1> SUFFICES ASSUME NEW p \in Node, NEW c \in Node,
                    Parent(n)' = p \/ Hands(before, n, p), c # p, Follows(c, n)'
             PROVE  \/ c \in strayed'
                    \/ Vouches(p, c)' \/ Puts(before, p, c)
                    \/ ~node'[p].complete \/ Opens(before, p)
  BY DEF Handed, Hands, Puts, Opens
<1>1. CASE c \in strayed'
  BY <1>1
<1>2. CASE Follows(c, n)
  <2>1. \/ c \in strayed
        \/ Vouches(p, c) \/ Puts(before, p, c)
        \/ ~node[p].complete \/ Opens(before, p)
    BY <1>2 DEF Handed
  <2>2. Vouches(p, c) => Vouches(p, c)'
    BY VouchesDrifts
  <2> QED BY <2>1, <2>2 DEF Drifts
<1> QED BY <1>1, <1>2 DEF Drifts

LEMMA FitsDrifts ==
  ASSUME Drifts, NEW k \in FitCall, NEW before, Fits(k, before),
         k.do = "retire" => Parent(k.at)' = Parent(k.at)
  PROVE  Fits(k, before)'
<1>1. k.at \in Node /\ k.kids \subseteq Node /\ k.to \in Node \cup {None}
  BY DEF FitCall, CallRecord
<1>2. InOrder(k, before)'
  BY DEF Fits, InOrder
<1>3. CASE k.do \in {"accept", "place"}
  <2>1. k.at \notin fresh' /\ (k.to # None => Vouches(k.to, k.at)' \/ Puts(before, k.to, k.at))
    BY <1>1, <1>3, VouchesDrifts DEF Fits, Drifts
  <2> QED BY <1>2, <1>3, <2>1 DEF Fits, Puts
<1>4. CASE k.do = "point"
  <2>1. k.to \in Node /\ (Vouches(k.to, k.at)' \/ Puts(before, k.to, k.at))
    BY <1>1, <1>4, VouchesDrifts DEF Fits
  <2> QED BY <1>2, <1>4, <2>1 DEF Fits, Puts
<1>5. CASE k.do = "hand"
  <2>1. k.to \in Node /\ Known(k.to)'
    BY <1>5 DEF Fits, Drifts
  <2> QED BY <1>2, <1>5, <2>1 DEF Fits
<1>6. CASE k.do = "retire"
  <2>1. Type[k.at] \notin Seated => Handed(k.at, before)'
    BY <1>1, <1>6, HandedDrifts DEF Fits
  <2> QED BY <1>2, <1>6, <2>1 DEF Fits
<1>7. CASE k.do = "drop"
  <2>1. \A c \in k.kids : Left(k.at, c)' \/ Takes(before, c)
    BY <1>1, <1>7, LeftDrifts DEF Fits
  <2> QED BY <1>2, <1>7, <2>1 DEF Fits, Takes
<1>8. CASE k.do = "undo"
  <2>1. \A c \in k.kids : ~Active(c)'
    BY <1>1, <1>8 DEF Fits, Drifts
  <2> QED BY <1>2, <1>8, <2>1 DEF Fits
<1>9. CASE k.do = "complete"
  <2>1. \A c \in Node : Follows(c, k.at)' => c \in node'[k.at].list \cup strayed'
    BY <1>1, <1>9 DEF Fits, Drifts
  <2> QED BY <1>2, <1>9, <2>1 DEF Fits
<1>10. CASE k.do = "acceptRetired"
  <2>1. Known(k.at)' /\ k.to \in Node /\ Known(k.to)' /\ (~node'[k.to].complete \/ Opens(before, k.to))
    BY <1>1, <1>10 DEF Fits, Drifts
  <2> QED BY <1>2, <1>10, <2>1 DEF Fits, Opens
<1>11. CASE k.do \notin {"accept", "place", "point", "hand", "retire", "drop", "undo", "complete",
                         "acceptRetired"}
  BY <1>2, <1>11 DEF Fits
<1> QED BY <1>3, <1>4, <1>5, <1>6, <1>7, <1>8, <1>9, <1>10, <1>11

-----------------------------------------------------------------------------
(* Which steps drift.                                                      *)

(* With no node newly retired, a way grows no further than a pointer moves. *)
LEMMA WayKeeps ==
  ASSUME NEW n \in Node, Parent(n)' \in Way(n),
         \A m \in Node : Retired(m)' => Retired(m) /\ Parent(m)' = Parent(m)
  PROVE  Way(n)' \subseteq Way(n)
<1>1. \A m \in Node : m \in Way(n) /\ Retired(m)' => Parent(m)' \in Way(n)
  BY WayIsLeast DEF OnTheWay
<1> QED BY <1>1, WayWithin

LEMMA Straying ==
  ASSUME NEW k
  PROVE  /\ k.do = "sweep" => Strays(k) = k.kids
         /\ k.do = "hand" => Strays(k) = {k.at}
         /\ Unannounced(k) => Strays(k) = {c \in Node : Follows(c, k.at)}
BY DEF Strays, Unannounced, Follows, Active

Listing == {"add", "issue", "checkIn", "retireChild", "basis", "open", "repair"}

LEMMA ListingDrifts ==
  ASSUME ListsInv, NEW k \in FitCall, k.do \in Listing, Do(k), fresh' = fresh
  PROVE  Drifts
<1> DEFINE r == node[k.at]
<1>1. k.at \in Node /\ node'[k.at] = After(k) /\ (\A n \in Node : n # k.at => node'[n] = node[n])
      /\ strayed' = strayed \cup Strays(k) /\ k.kids \subseteq Node
  BY OneRow DEF FitCall, CallRecord
<1>2. r \in Record
  BY <1>1 DEF ListsInv, RecordsOK
<1>3. /\ After(k).status = r.status /\ After(k).up = r.up
      /\ r.list \subseteq After(k).list
      /\ After(k).complete => r.complete
  BY <1>2 DEF After, Listing, CheckedIn, Record, Removals
<1>4. \A n \in Node :
        /\ node'[n].status = node[n].status /\ node'[n].up = node[n].up
        /\ node[n].list \subseteq node'[n].list
        /\ node'[n].complete => node[n].complete
  BY <1>1, <1>3
<1>5. ASSUME NEW c \in Node, NEW n \in Node, Follows(c, n)' PROVE Follows(c, n)
  <2>1. Parent(c)' \in Way(c)
    BY <1>4, WayIsLeast DEF OnTheWay, Parent
  <2>2. Way(c)' \subseteq Way(c)
    BY <1>4, <2>1, WayKeeps DEF Retired, Parent
  <2> QED BY <1>4, <1>5, <2>2 DEF Follows, Active
<1> QED BY <1>1, <1>4, <1>5 DEF Drifts, Active, Gone, Retired, Known, Parent

LEMMA OwnCallDrifts ==
  ASSUME ListsInv, NEW c \in Node, NEW k \in FitCall, OwnFits(c, k), Accepts(k), Do(k),
         fresh' = fresh
  PROVE  Drifts
<1>1. k.at \in Node /\ node'[k.at] = After(k) /\ (\A n \in Node : n # k.at => node'[n] = node[n])
      /\ strayed' = strayed \cup Strays(k) /\ node[k.at] \in Record
  BY OneRow DEF ListsInv, RecordsOK
<1>2. CASE k.do \in {"checkIn", "repair", "add"}
  BY <1>2, ListingDrifts DEF Listing
<1>3. CASE k.do = "retire"
  <2>1. k.at = c /\ Type[c] \in Seated /\ Active(c)
    BY <1>3 DEF OwnFits, Accepts
  <2>2. /\ After(k).status = "RETIRED" /\ After(k).up = node[c].up /\ After(k).list = node[c].list
        /\ After(k).complete = node[c].complete
    BY <1>1, <1>3, <2>1 DEF After, Record, Removals
  <2>3. Strays(k) = {d \in Node : Follows(d, c)}
    BY <1>3, <2>1, Straying DEF Unannounced
  <2>4. ASSUME NEW d \in Node, NEW n \in Node, Follows(d, n)' PROVE Follows(d, n) \/ d \in strayed'
    <3>1. Active(d) /\ d # c /\ d # n /\ n \in Way(d)'
      BY <1>1, <2>1, <2>2, <2>4 DEF Follows, Active
    <3>2. CASE c \in Way(d)
      BY <1>1, <2>3, <3>1, <3>2 DEF Follows
    <3>3. CASE c \notin Way(d)
      <4>1. Parent(d)' \in Way(d)
        BY <1>1, <2>1, <3>1, WayIsLeast DEF OnTheWay, Parent
      <4>2. \A m \in Node : m \in Way(d) /\ Retired(m)' => Parent(m)' \in Way(d)
        BY <1>1, <2>1, <3>3, WayIsLeast DEF OnTheWay, Parent, Retired
      <4>3. Way(d)' \subseteq Way(d)
        BY <4>1, <4>2, WayWithin
      <4> QED BY <3>1, <4>3 DEF Follows
    <3> QED BY <3>2, <3>3
  <2> QED BY <1>1, <2>1, <2>2, <2>4 DEF Drifts, Active, Gone, Retired, Known, Parent
<1>4. CASE k.do = "point"
  <2>1. k.at = c /\ Active(c) /\ k.to \in Way(c) /\ Parent(c) \in Node /\ Retired(Parent(c))
    BY <1>4 DEF OwnFits, Accepts
  <2>2. /\ After(k).status = node[c].status /\ After(k).up = k.to /\ After(k).list = node[c].list
        /\ After(k).complete = node[c].complete
    BY <1>1, <1>4, <2>1 DEF After, Record, Removals
  <2>3. \A m \in Node : Retired(m)' => Retired(m) /\ Parent(m)' = Parent(m)
    BY <1>1, <2>1, <2>2 DEF Retired, Active, Parent
  <2>4. ASSUME NEW d \in Node, NEW n \in Node, Follows(d, n)' PROVE Follows(d, n)
    <3>1. Active(d) /\ d # n /\ n \in Way(d)'
      BY <1>1, <2>1, <2>2, <2>4 DEF Follows, Active
    <3>2. Parent(d)' \in Way(d)
      BY <1>1, <2>1, <2>2, WayIsLeast DEF OnTheWay, Parent
    <3>3. Way(d)' \subseteq Way(d)
      BY <2>3, <3>2, WayKeeps
    <3> QED BY <3>1, <3>3 DEF Follows
  <2> QED BY <1>1, <2>1, <2>2, <2>4 DEF Drifts, Active, Gone, Retired, Known, Parent
<1> QED BY <1>2, <1>3, <1>4 DEF OwnFits

LEMMA VanishDrifts ==
  ASSUME ListsInv, NEW n \in Node, Vanish(n)
  PROVE  Drifts
<1>1. /\ Active(n) /\ node' = [node EXCEPT ![n].status = "GONE"]
      /\ UNCHANGED <<fresh, strayed>>
  BY DEF Vanish
<1>2. node[n] \in Record /\ DOMAIN node = Node
  BY DEF ListsInv, RecordsOK
<1>3. \A m \in Node :
        /\ node'[m].status = IF m = n THEN "GONE" ELSE node[m].status
        /\ node'[m].up = node[m].up /\ node'[m].list = node[m].list
        /\ node'[m].complete = node[m].complete
  BY <1>1, <1>2 DEF Record
<1>4. ASSUME NEW c \in Node, NEW m \in Node, Follows(c, m)' PROVE Follows(c, m)
  <2>1. Parent(c)' \in Way(c)
    BY <1>3, WayIsLeast DEF OnTheWay, Parent
  <2>2. Way(c)' \subseteq Way(c)
    BY <1>3, <2>1, WayKeeps DEF Retired, Parent
  <2> QED BY <1>1, <1>3, <1>4, <2>2 DEF Follows, Active
<1> QED BY <1>1, <1>3, <1>4 DEF Drifts, Active, Gone, Retired, Known, Parent

(* Nobody is missed by a drift. *)
LEMMA MissingDrifts ==
  ASSUME Drifts, NoneMissing
  PROVE  NoneMissing'
<1> SUFFICES ASSUME NEW c \in Node, Missing(c)' PROVE c \in strayed'
  BY DEF NoneMissing
<1>1. PICK h \in Living' : Follows(c, h)' /\ c \notin node'[h].list /\ node'[h].complete
  BY DEF Missing
<1>2. h \in Living /\ c \notin node[h].list /\ node[h].complete
  BY <1>1 DEF Drifts, Living
<1>3. CASE Follows(c, h)
  BY <1>2, <1>3 DEF Missing, NoneMissing, Drifts
<1> QED BY <1>1, <1>2, <1>3 DEF Drifts, Living

-----------------------------------------------------------------------------
(* A conversation's own calls.                                             *)

(* A removal takes a child off a list it was not to be on, or strays it.   *)
LEMMA RemovalMissesNone ==
  ASSUME ListsInv, NoneMissing, NEW k \in FitCall, k.do \in Removals, Fits(k, {}), Do(k)
  PROVE  NoneMissing'
<1> SUFFICES ASSUME NEW c \in Node, Missing(c)' PROVE c \in strayed'
  BY DEF NoneMissing
<1>1. k.at \in Node /\ node'[k.at] = After(k) /\ (\A n \in Node : n # k.at => node'[n] = node[n])
      /\ strayed' = strayed \cup Strays(k) /\ node[k.at] \in Record
  BY OneRow DEF ListsInv, RecordsOK
<1>2. /\ After(k).status = node[k.at].status /\ After(k).up = node[k.at].up
      /\ After(k).list = node[k.at].list \ k.kids
      /\ After(k).complete = node[k.at].complete
  BY <1>1 DEF After, Record, Removals
<1>3. PICK h \in Living' : Follows(c, h)' /\ c \notin node'[h].list /\ node'[h].complete
  BY DEF Missing
<1>4. \A n \in Node : /\ node'[n].status = node[n].status /\ node'[n].up = node[n].up
                      /\ node'[n].complete = node[n].complete
  BY <1>1, <1>2
<1>5. Follows(c, h)
  <2>1. Way(c)' \subseteq Way(c)
    BY <1>4, WayIsLeast, WayKeeps DEF OnTheWay, Parent, Retired
  <2> QED BY <1>3, <1>4, <2>1 DEF Follows, Active
<1>6. h \in Living /\ node[h].complete
  BY <1>3, <1>4 DEF Living, Active
<1>7. CASE c \notin node[h].list
  BY <1>1, <1>5, <1>6, <1>7 DEF Missing, NoneMissing
<1>8. CASE c \in node[h].list
  <2>1. h = k.at /\ c \in k.kids
    BY <1>1, <1>2, <1>3, <1>6, <1>8 DEF Living
  <2>2. CASE k.do = "sweep"
    BY <1>1, <2>1, <2>2, Straying
  <2>3. CASE k.do = "undo"
    BY <1>5, <2>1, <2>3 DEF Fits, Follows
  <2>4. CASE k.do = "drop"
    <3>1. Left(h, c)
      BY <2>1, <2>4 DEF Fits, Takes
    <3>2. Active(c) /\ Parent(c) \in Node \ {h} /\ (Active(Parent(c)) \/ Gone(Parent(c)))
      BY <1>5, <3>1 DEF Left, Follows, Active, Gone, Retired
    <3>3. Way(c) = {Parent(c)}
      BY <3>2, WayOfOne DEF Active, Gone, Retired
    <3> QED BY <1>5, <3>2, <3>3 DEF Follows
  <2> QED BY <2>2, <2>3, <2>4 DEF Removals
<1> QED BY <1>7, <1>8

(* A node that is moved or handed over: only its own way changes. *)
LEMMA OtherWaysStay ==
  ASSUME ListsInv, NEW k \in FitCall, k.do \in {"point", "hand"}, Accepts(k), Do(k)
  PROVE  /\ k.at \in Node /\ Active(k.at) /\ k.to # k.at
         /\ Parent(k.at)' = k.to
         /\ \A n \in Node : /\ node'[n].status = node[n].status /\ node'[n].list = node[n].list
                            /\ node'[n].complete = node[n].complete
                            /\ n # k.at => Parent(n)' = Parent(n)
         /\ \A c, n \in Node : c # k.at /\ Follows(c, n)' => Follows(c, n)
<1>1. k.at \in Node /\ node'[k.at] = After(k) /\ (\A n \in Node : n # k.at => node'[n] = node[n])
      /\ node[k.at] \in Record
  BY OneRow DEF ListsInv, RecordsOK
<1>2. /\ After(k).status = node[k.at].status /\ After(k).up = k.to
      /\ After(k).list = node[k.at].list
      /\ After(k).complete = node[k.at].complete
  BY <1>1 DEF After, Record, Removals
<1>3. Active(k.at) /\ k.to # k.at
  BY DEF Accepts
<1>4. \A n \in Node : /\ node'[n].status = node[n].status /\ node'[n].list = node[n].list
                      /\ node'[n].complete = node[n].complete
                      /\ n # k.at => Parent(n)' = Parent(n)
  BY <1>1, <1>2 DEF Parent
<1>5. ASSUME NEW c \in Node, NEW n \in Node, c # k.at, Follows(c, n)' PROVE Follows(c, n)
  <2>1. \A m \in Node : Retired(m)' => Retired(m) /\ Parent(m)' = Parent(m)
    BY <1>3, <1>4 DEF Retired, Active
  <2>2. Parent(c)' \in Way(c)
    BY <1>4, <1>5, WayIsLeast DEF OnTheWay
  <2>3. Way(c)' \subseteq Way(c)
    BY <2>1, <2>2, WayKeeps
  <2> QED BY <1>4, <1>5, <2>3 DEF Follows, Active
<1> QED BY <1>1, <1>2, <1>3, <1>4, <1>5 DEF Parent

LEMMA MovingMissesNone ==
  ASSUME ListsInv, NoneMissing, NEW k \in FitCall, k.do \in {"point", "hand"}, Fits(k, {}),
         Accepts(k), Do(k)
  PROVE  NoneMissing'
<1> SUFFICES ASSUME NEW c \in Node, Missing(c)' PROVE c \in strayed'
  BY DEF NoneMissing
<1>1. /\ k.at \in Node /\ Active(k.at) /\ k.to # k.at
      /\ Parent(k.at)' = k.to
      /\ \A n \in Node : /\ node'[n].status = node[n].status /\ node'[n].list = node[n].list
                         /\ node'[n].complete = node[n].complete
                         /\ n # k.at => Parent(n)' = Parent(n)
      /\ \A d, n \in Node : d # k.at /\ Follows(d, n)' => Follows(d, n)
  BY OtherWaysStay
<1>2. strayed' = strayed \cup Strays(k)
  BY OneRow
<1>3. PICK h \in Living' : Follows(c, h)' /\ c \notin node'[h].list /\ node'[h].complete
  BY DEF Missing
<1>4. CASE c # k.at
  <2>1. h \in Living /\ Follows(c, h) /\ c \notin node[h].list /\ node[h].complete
    BY <1>1, <1>3, <1>4 DEF Living, Active
  <2> QED BY <1>2, <2>1 DEF Missing, NoneMissing
<1>5. CASE c = k.at /\ k.do = "hand"
  BY <1>2, <1>5, Straying
<1>6. CASE c = k.at /\ k.do = "point"
  <2>1. k.to \in Node /\ Vouches(k.to, c)
    BY <1>6 DEF Fits, Puts
  <2>2. Parent(c)' = k.to /\ ~Retired(k.to)'
    BY <1>1, <1>6, <2>1 DEF Vouches, Active, Gone, Retired
  <2>3. Way(c)' \subseteq {k.to}
    <3>1. \A m \in Node : m \in {k.to} /\ Retired(m)' => Parent(m)' \in {k.to}
      BY <2>2
    <3>2. Parent(c)' \in {k.to}
      BY <2>2
    <3> QED BY <3>1, <3>2, WayWithin
  <2>4. h = k.to
    BY <1>3, <2>3 DEF Follows
  <2> QED BY <1>1, <1>3, <2>1, <2>4 DEF Vouches
<1> QED BY <1>4, <1>5, <1>6

(* A node that is retired, or recorded as retired: who followed it follows *)
(* the node above it, if that is living.                                   *)
LEMMA RetiringLeads ==
  ASSUME ListsInv, NEW k \in FitCall, k.do \in {"retire", "acceptRetired"},
         Accepts(k), Do(k), NEW c \in Node, NEW h, h \in Living', Follows(c, h)'
  PROVE  Follows(c, h) \/ c \in strayed' \/ (Follows(c, k.at) /\ h = Parent(k.at)')
<1>1. k.at \in Node /\ node'[k.at] = After(k) /\ (\A n \in Node : n # k.at => node'[n] = node[n])
      /\ strayed' = strayed \cup Strays(k) /\ node[k.at] \in Record
  BY OneRow DEF ListsInv, RecordsOK
<1>2. After(k).status = "RETIRED"
  BY <1>1 DEF After, Record, Recorded, Removals
<1>3. ~Retired(k.at)
  BY DEF Accepts, Active, Held, Retired
<1>4. Active(c) /\ c # k.at /\ c # h /\ h \in Way(c)' /\ h \in Node /\ Active(h)' /\ h # k.at
  BY <1>1, <1>2 DEF Follows, Active, Living
<1>5. Parent(c)' \in Way(c)
  BY <1>1, <1>4, WayIsLeast DEF OnTheWay, Parent
<1>6. CASE k.at \notin Way(c)
  <2>1. \A m \in Node : m \in Way(c) /\ Retired(m)' => Parent(m)' \in Way(c)
    BY <1>1, <1>6, WayIsLeast DEF OnTheWay, Parent, Retired
  <2>2. Way(c)' \subseteq Way(c)
    BY <1>5, <2>1, WayWithin
  <2> QED BY <1>4, <2>2 DEF Follows
<1>7. CASE k.at \in Way(c) /\ Unannounced(k)
  <2>1. Strays(k) = {d \in Node : Follows(d, k.at)}
    BY <1>7, Straying
  <2> QED BY <1>1, <1>4, <1>7, <2>1 DEF Follows
<1>8. CASE k.at \in Way(c) /\ ~Unannounced(k)
  <2> PICK p : p = Parent(k.at)'
    OBVIOUS
  <2> DEFINE T == Way(c) \cup {p}
  <2>1. p \in Living
    BY <1>1, <1>8 DEF Unannounced, Parent
  <2>2. p = k.at \/ ~Retired(p)'
    BY <1>1, <2>1 DEF Living, Active, Retired
  <2>3. \A m \in Node : m \in T /\ Retired(m)' => Parent(m)' \in T
    BY <1>1, <2>2, WayIsLeast DEF OnTheWay, Parent, Retired
  <2>4. Way(c)' \subseteq T
    BY <1>5, <2>3, WayWithin
  <2>5. h \in Way(c) \/ h = p
    BY <1>4, <2>4
  <2> QED BY <1>4, <1>8, <2>5 DEF Follows
<1> QED BY <1>6, <1>7, <1>8

LEMMA RetiringMissesNone ==
  ASSUME ListsInv, NoneMissing, NEW k \in FitCall, k.do \in {"retire", "acceptRetired"},
         Fits(k, {}), Accepts(k), Do(k)
  PROVE  NoneMissing'
<1> SUFFICES ASSUME NEW c \in Node, Missing(c)' PROVE c \in strayed'
  BY DEF NoneMissing
<1>1. k.at \in Node /\ node'[k.at] = After(k) /\ (\A n \in Node : n # k.at => node'[n] = node[n])
      /\ strayed' = strayed \cup Strays(k) /\ node[k.at] \in Record /\ k.to \in Node \cup {None}
  BY OneRow DEF ListsInv, RecordsOK, FitCall, CallRecord
<1>2. /\ After(k).status = "RETIRED"
      /\ k.do = "retire" => After(k).up = Parent(k.at)
      /\ k.do = "acceptRetired" => After(k).up = k.to
  BY <1>1 DEF After, Record, Recorded, Removals, Parent
<1>3. PICK h : h \in Living' /\ Follows(c, h)' /\ c \notin node'[h].list /\ node'[h].complete
  BY DEF Missing
<1>4. h \in Living /\ h # k.at /\ node'[h] = node[h] /\ h \in Node /\ Active(h)
  BY <1>1, <1>2, <1>3 DEF Living, Active
<1>5. Follows(c, h) \/ c \in strayed' \/ (Follows(c, k.at) /\ h = Parent(k.at)')
  BY <1>3, RetiringLeads
<1>6. CASE Follows(c, h)
  BY <1>1, <1>3, <1>4, <1>6 DEF Missing, NoneMissing
<1>7. CASE Follows(c, k.at) /\ h = Parent(k.at)' /\ Unannounced(k)
  BY <1>1, <1>7, Straying
<1>8. CASE Follows(c, k.at) /\ h = Parent(k.at)' /\ ~Unannounced(k)
  <2>1. Type[k.at] \notin Seated /\ h = After(k).up
    BY <1>1, <1>8 DEF Unannounced, Parent
  <2>2. CASE k.do = "retire"
    <3>1. Handed(k.at, {}) /\ h = Parent(k.at)
      BY <1>2, <2>1, <2>2 DEF Fits
    <3>2. c # h
      BY <1>3 DEF Follows
    <3>3. c \in strayed \/ Vouches(h, c) \/ ~node[h].complete
      BY <1>4, <1>8, <3>1, <3>2 DEF Handed, Puts, Opens
    <3> QED BY <1>1, <1>3, <1>4, <3>3 DEF Vouches
  <2>3. CASE k.do = "acceptRetired"
    BY <1>2, <1>3, <1>4, <2>1, <2>3 DEF Fits, Opens
  <2> QED BY <2>2, <2>3
<1> QED BY <1>5, <1>6, <1>7, <1>8

LEMMA CompletingMissesNone ==
  ASSUME ListsInv, NoneMissing, NEW k \in FitCall, k.do = "complete", Fits(k, {}), Do(k)
  PROVE  NoneMissing'
<1> SUFFICES ASSUME NEW c \in Node, Missing(c)' PROVE c \in strayed'
  BY DEF NoneMissing
<1>1. k.at \in Node /\ node'[k.at] = After(k) /\ (\A n \in Node : n # k.at => node'[n] = node[n])
      /\ strayed' = strayed \cup Strays(k) /\ node[k.at] \in Record
  BY OneRow DEF ListsInv, RecordsOK
<1>2. /\ After(k).status = node[k.at].status /\ After(k).up = node[k.at].up
      /\ After(k).list = node[k.at].list
  BY <1>1 DEF After, Record, Removals
<1>3. \A n \in Node : /\ node'[n].status = node[n].status /\ node'[n].up = node[n].up
                      /\ node'[n].list = node[n].list
                      /\ n # k.at => node'[n].complete = node[n].complete
  BY <1>1, <1>2
<1>4. PICK h : h \in Living' /\ Follows(c, h)' /\ c \notin node'[h].list /\ node'[h].complete
  BY DEF Missing
<1>5. Follows(c, h) /\ h \in Living /\ c \notin node[h].list
  <2>1. Way(c)' \subseteq Way(c)
    BY <1>3, WayIsLeast, WayKeeps DEF OnTheWay, Parent, Retired
  <2> QED BY <1>3, <1>4, <2>1 DEF Follows, Active, Living
<1>6. CASE h = k.at
  BY <1>1, <1>5, <1>6 DEF Fits
<1>7. CASE h # k.at
  BY <1>1, <1>3, <1>4, <1>5, <1>7 DEF Missing, NoneMissing, Living
<1> QED BY <1>6, <1>7

(* A node that is recorded is on its parent's list, and nobody knew it. *)
LEMMA AcceptingMissesNone ==
  ASSUME ListsInv, PointersKnown, NoneMissing, NEW k \in FitCall, k.do \in {"accept", "place"},
         Fits(k, {}), Accepts(k), Do(k)
  PROVE  NoneMissing'
<1> SUFFICES ASSUME NEW c \in Node, Missing(c)' PROVE c \in strayed'
  BY DEF NoneMissing
<1>1. k.at \in Node /\ node'[k.at] = After(k) /\ (\A n \in Node : n # k.at => node'[n] = node[n])
      /\ strayed' = strayed \cup Strays(k) /\ k.to \in Node \cup {None}
  BY OneRow DEF FitCall, CallRecord
<1>2. ~Known(k.at) /\ After(k) = Recorded(k.to, "ACTIVE")
  BY DEF Accepts, After, Removals, Known
<1>3. Parent(k.at)' = k.to /\ Active(k.at)'
  BY <1>1, <1>2 DEF Recorded, Parent, Active
<1>4. k.to # None => Vouches(k.to, k.at)
  BY DEF Fits, Puts
<1>5. PICK h : h \in Living' /\ Follows(c, h)' /\ c \notin node'[h].list /\ node'[h].complete
  BY DEF Missing
<1>6. \A m \in Node : Retired(m)' => Retired(m) /\ Parent(m)' = Parent(m)
  BY <1>1, <1>3 DEF Retired, Active, Parent
<1>7. CASE c = k.at
  <2>1. k.to \in Node => k.to # k.at /\ node'[k.to] = node[k.to] /\ ~Retired(k.to)'
    BY <1>1, <1>2, <1>4, ChildListsAssumption DEF Vouches, Known, Active, Gone, Retired
  <2>2. Way(c)' \subseteq {k.to}
    <3>1. \A m \in Node : m \in {k.to} /\ Retired(m)' => Parent(m)' \in {k.to}
      BY <2>1
    <3>2. Parent(c)' \in {k.to}
      BY <1>3, <1>7
    <3> QED BY <3>1, <3>2, WayWithin
  <2>3. h = k.to /\ h \in Node
    BY <1>5, <2>2 DEF Follows, Living
  <2> QED BY <1>4, <1>5, <1>7, <2>1, <2>3, ChildListsAssumption DEF Vouches
<1>8. CASE c # k.at
  <2>1. Way(c)' \subseteq Way(c)
    BY <1>1, <1>6, <1>8, WayIsLeast, WayKeeps DEF OnTheWay, Parent
  <2>2. h \in Way(c) /\ h \in Node
    BY <1>5, <2>1 DEF Follows, Living
  <2>3. h # k.at
    BY <1>2, <2>2, WayHasNodes, ChildListsAssumption DEF PointersKnown
  <2>4. Follows(c, h) /\ h \in Living /\ c \notin node[h].list /\ node[h].complete
    BY <1>1, <1>5, <1>8, <2>2, <2>3 DEF Follows, Living, Active
  <2> QED BY <1>1, <2>4 DEF Missing, NoneMissing
<1> QED BY <1>7, <1>8

LEMMA TalkCallMissesNone ==
  ASSUME ListsInv, PointersKnown, NoneMissing, NEW k \in FitCall, Fits(k, {}), Accepts(k), Do(k),
         fresh' = fresh
  PROVE  NoneMissing'
<1>1. k.do \in Operation
  BY DEF FitCall, CallRecord
<1>2. CASE k.do \in Listing
  BY <1>2, ListingDrifts, MissingDrifts
<1>3. CASE k.do \in Removals
  BY <1>3, RemovalMissesNone
<1>4. CASE k.do \in {"point", "hand"}
  BY <1>4, MovingMissesNone
<1>5. CASE k.do \in {"retire", "acceptRetired"}
  BY <1>5, RetiringMissesNone
<1>6. CASE k.do \in {"accept", "place"}
  BY <1>6, AcceptingMissesNone
<1>7. CASE k.do = "complete"
  BY <1>7, CompletingMissesNone
<1> QED BY <1>1, <1>2, <1>3, <1>4, <1>5, <1>6, <1>7 DEF Operation, Listing, Removals

(* What an earlier call was to bring about holds once it is done, so the   *)
(* calls after it no longer need it to come.                               *)
LEMMA Discharged ==
  ASSUME NEW k \in FitCall, NEW j \in FitCall, NEW before, Fits(j, {k} \cup before)',
         \A p, n \in Node : Puts({k}, p, n) => Vouches(p, n)',
         \A p \in Node : Opens({k}, p) => ~node'[p].complete,
         \A p, c \in Node : Takes({k}, c) /\ j.do = "drop" /\ j.at = p /\ c \in j.kids => Left(p, c)'
  PROVE  Fits(j, before)'
<1>1. j.at \in Node /\ j.kids \subseteq Node /\ j.to \in Node \cup {None}
  BY DEF FitCall, CallRecord
<1>2. InOrder(j, before)'
  BY DEF Fits, InOrder
<1>3. \A p, n \in Node : Puts({k} \cup before, p, n) => Puts({k}, p, n) \/ Puts(before, p, n)
  BY DEF Puts
<1>4. \A p \in Node : Opens({k} \cup before, p) => Opens({k}, p) \/ Opens(before, p)
  BY DEF Opens
<1>5. \A c \in Node : Takes({k} \cup before, c) => Takes({k}, c) \/ Takes(before, c)
  BY DEF Takes
<1>6. \A p, n \in Node : Hands(before, n, p) => Hands({k} \cup before, n, p)
  BY DEF Hands
<1>7. CASE j.do \in {"accept", "place"}
  <2>1. j.at \notin fresh' /\ (j.to # None => Vouches(j.to, j.at)' \/ Puts({k} \cup before, j.to, j.at))
    BY <1>7 DEF Fits, Puts
  <2>2. j.at \notin fresh' /\ (j.to # None => Vouches(j.to, j.at)' \/ Puts(before, j.to, j.at))
    BY <1>1, <1>3, <2>1
  <2> QED BY <1>2, <1>7, <2>2 DEF Fits, Puts
<1>8. CASE j.do = "point"
  <2>1. j.to \in Node /\ (Vouches(j.to, j.at)' \/ Puts({k} \cup before, j.to, j.at))
    BY <1>8 DEF Fits, Puts
  <2>2. j.to \in Node /\ (Vouches(j.to, j.at)' \/ Puts(before, j.to, j.at))
    BY <1>1, <1>3, <2>1
  <2> QED BY <1>2, <1>8, <2>2 DEF Fits, Puts
<1>9. CASE j.do = "hand"
  BY <1>2, <1>9 DEF Fits
<1>10. CASE j.do = "retire"
  <2>1. CASE Type[j.at] \in Seated
    BY <1>2, <1>10, <2>1 DEF Fits
  <2>2. CASE Type[j.at] \notin Seated
    <3>1. Handed(j.at, {k} \cup before)'
      BY <1>10, <2>2 DEF Fits
    <3>2. ASSUME NEW p \in Node, NEW c \in Node,
                 Parent(j.at)' = p \/ Hands(before, j.at, p), c # p, Follows(c, j.at)'
          PROVE  \/ c \in strayed'
                 \/ Vouches(p, c)' \/ Puts(before, p, c)
                 \/ ~node'[p].complete \/ Opens(before, p)
      <4>1. Parent(j.at)' = p \/ Hands({k} \cup before, j.at, p)
        BY <1>1, <1>6, <3>2
      <4>2. \/ c \in strayed'
            \/ Vouches(p, c)' \/ Puts({k} \cup before, p, c)
            \/ ~node'[p].complete \/ Opens({k} \cup before, p)
        BY <3>1, <3>2, <4>1 DEF Handed, Hands, Puts, Opens
      <4> QED BY <1>3, <1>4, <4>2
    <3>3. Handed(j.at, before)'
      BY <3>2 DEF Handed, Hands, Puts, Opens
    <3> QED BY <1>2, <1>10, <3>3 DEF Fits
  <2> QED BY <2>1, <2>2
<1>11. CASE j.do = "drop"
  <2>1. \A c \in j.kids : Left(j.at, c)' \/ Takes({k} \cup before, c)
    BY <1>11 DEF Fits, Takes
  <2>2. \A c \in j.kids : Left(j.at, c)' \/ Takes(before, c)
    BY <1>1, <1>5, <1>11, <2>1
  <2> QED BY <1>2, <1>11, <2>2 DEF Fits, Takes
<1>12. CASE j.do \in {"undo", "complete"}
  BY <1>2, <1>12 DEF Fits
<1>13. CASE j.do = "acceptRetired"
  <2>1. Known(j.at)' /\ j.to \in Node /\ Known(j.to)' /\ (~node'[j.to].complete \/ Opens({k} \cup before, j.to))
    BY <1>13 DEF Fits, Opens
  <2>2. ~node'[j.to].complete \/ Opens(before, j.to)
    BY <1>4, <2>1
  <2> QED BY <1>2, <1>13, <2>1, <2>2 DEF Fits, Opens
<1>14. CASE j.do \notin {"accept", "place", "point", "hand", "retire", "drop", "undo", "complete",
                         "acceptRetired"}
  BY <1>2, <1>14 DEF Fits
<1> QED BY <1>7, <1>8, <1>9, <1>10, <1>11, <1>12, <1>13, <1>14

(* Calls that list children or say that a list may miss some. *)
LEMMA FitAfterListing ==
  ASSUME ListsInv, NEW k \in FitCall, NEW j \in FitCall, NEW before,
         k.do \in {"add", "issue", "basis", "open"}, Accepts(k), Do(k), fresh' = fresh,
         Fits(j, {k} \cup before)
  PROVE  Fits(j, before)'
<1>1. k.at \in Node /\ node'[k.at] = After(k) /\ (\A n \in Node : n # k.at => node'[n] = node[n])
      /\ node[k.at] \in Record /\ k.kids \subseteq Node /\ j.at \in Node
  BY OneRow DEF ListsInv, RecordsOK, FitCall, CallRecord
<1>2. /\ After(k).up = node[k.at].up /\ After(k).status = node[k.at].status
      /\ k.do \in {"add", "issue"} => k.kids \subseteq After(k).list
      /\ k.do = "open" => ~After(k).complete
  BY <1>1 DEF After, Record, Removals
<1>3. Drifts
  BY ListingDrifts DEF Listing
<1>4. Parent(j.at)' = Parent(j.at)
  BY <1>1, <1>2 DEF Parent
<1>5. Fits(j, {k} \cup before)'
  BY <1>3, <1>4, FitsDrifts
<1>6. \A p, n \in Node : Puts({k}, p, n) => Vouches(p, n)'
  <2> SUFFICES ASSUME NEW p \in Node, NEW n \in Node, Puts({k}, p, n) PROVE Vouches(p, n)'
    OBVIOUS
  <2>1. k.do \in {"add", "issue"} /\ p = k.at /\ n \in k.kids
    BY DEF Puts
  <2>2. Active(p) /\ MayHold(Type[p], Type[n])
    BY <2>1 DEF Accepts, MayGain
  <2>3. Type[p] \notin Seated
    BY <2>2, HoldersAreNotSeated
  <2> QED BY <1>1, <1>2, <2>1, <2>2, <2>3 DEF Vouches, Active
<1>7. \A p \in Node : Opens({k}, p) => ~node'[p].complete
  BY <1>1, <1>2 DEF Opens
<1>8. \A c \in Node : ~Takes({k}, c)
  BY DEF Takes
<1> QED BY <1>5, <1>6, <1>7, <1>8, Discharged

(* A node is recorded, between others that are. *)
LEMMA FitAfterAccepting ==
  ASSUME ListsInv, NEW k \in FitCall, NEW j \in FitCall, NEW before,
         k.do = "accept", Accepts(k), Do(k), Fits(j, {k} \cup before)
  PROVE  Fits(j, before)'
<1>1. k.at \in Node /\ node'[k.at] = After(k) /\ (\A n \in Node : n # k.at => node'[n] = node[n])
      /\ j.at \in Node /\ j.kids \subseteq Node /\ j.to \in Node \cup {None}
  BY OneRow DEF FitCall, CallRecord
<1>2. ~Known(k.at) /\ InOrder(j, {k} \cup before)
  BY DEF Accepts, Known, Fits
<1>3. j.do \in {"add", "point", "drop"} /\ InOrder(j, before)'
  BY <1>2 DEF InOrder
<1>4. \A p, n \in Node : Vouches(p, n) => Vouches(p, n)'
  BY <1>1, <1>2 DEF Vouches, Active, Gone, Known
<1>5. \A p, c \in Node : Left(p, c) => Left(p, c)'
  BY <1>1, <1>2 DEF Left, Active, Gone, Retired, Known, Parent
<1>6. \A p, n \in Node : Puts({k} \cup before, p, n) => Puts(before, p, n)
  BY DEF Puts
<1>7. \A c \in Node : Takes({k} \cup before, c) => Takes(before, c)
  BY DEF Takes
<1>8. CASE j.do = "add"
  BY <1>3, <1>8 DEF Fits
<1>9. CASE j.do = "point"
  <2>1. j.to \in Node /\ (Vouches(j.to, j.at)' \/ Puts(before, j.to, j.at))
    BY <1>1, <1>4, <1>6, <1>9 DEF Fits
  <2> QED BY <1>3, <1>9, <2>1 DEF Fits, Puts
<1>10. CASE j.do = "drop"
  <2>1. \A c \in j.kids : Left(j.at, c)' \/ Takes(before, c)
    BY <1>1, <1>5, <1>7, <1>10 DEF Fits
  <2> QED BY <1>3, <1>10, <2>1 DEF Fits, Takes
<1> QED BY <1>3, <1>8, <1>9, <1>10

(* The old parent takes off a child that now points elsewhere or is retired. *)
LEMMA FitAfterTaking ==
  ASSUME ListsInv, NEW k \in FitCall, NEW j \in FitCall, NEW before,
         k.do \in {"point", "retire", "acceptRetired"}, Fits(k, {}), Accepts(k), Do(k),
         Fits(j, {k} \cup before)
  PROVE  Fits(j, before)'
<1>1. k.at \in Node /\ node'[k.at] = After(k) /\ (\A n \in Node : n # k.at => node'[n] = node[n])
      /\ node[k.at] \in Record
  BY OneRow DEF ListsInv, RecordsOK
<1>2. j.do = "drop" /\ j.kids = {k.at} /\ (k.do = "point" => k.to # j.at)
  BY DEF Fits, InOrder
<1>3. InOrder(j, before)'
  BY DEF Fits, InOrder
<1>4. Left(j.at, k.at)'
  <2>1. CASE k.do \in {"retire", "acceptRetired"}
    <3>1. After(k).status = "RETIRED"
      BY <1>1, <2>1 DEF After, Record, Recorded, Removals
    <3> QED BY <1>1, <3>1 DEF Left, Retired
  <2>2. CASE k.do = "point"
    <3>1. k.to \in Node /\ Vouches(k.to, k.at)
      BY <2>2 DEF Fits, Puts
    <3>2. Active(k.at) /\ k.to # k.at
      BY <2>2 DEF Accepts
    <3>3. After(k).up = k.to /\ After(k).status = node[k.at].status
      BY <1>1, <2>2 DEF After, Record, Removals
    <3> QED BY <1>1, <1>2, <2>2, <3>1, <3>2, <3>3 DEF Left, Vouches, Active, Gone, Parent
  <2> QED BY <2>1, <2>2
<1> QED BY <1>2, <1>3, <1>4 DEF Fits

(* A top node points at its heir before it retires. *)
LEMMA FitAfterHanding ==
  ASSUME ListsInv, NEW k \in FitCall, NEW j \in FitCall, NEW before,
         k.do = "hand", Accepts(k), Do(k), Fits(j, {k} \cup before)
  PROVE  Fits(j, before)'
<1>1. /\ k.at \in Node /\ Active(k.at) /\ k.to # k.at
      /\ Parent(k.at)' = k.to
      /\ \A n \in Node : /\ node'[n].status = node[n].status /\ node'[n].list = node[n].list
                         /\ node'[n].complete = node[n].complete
                         /\ n # k.at => Parent(n)' = Parent(n)
      /\ \A c, n \in Node : c # k.at /\ Follows(c, n)' => Follows(c, n)
  BY OtherWaysStay
<1>2. strayed \subseteq strayed'
  BY OneRow
<1>3. j.do = "retire" /\ j.at = k.at /\ InOrder(j, before)'
  BY DEF Fits, InOrder
<1>4. CASE Type[j.at] \in Seated
  BY <1>3, <1>4 DEF Fits
<1>5. CASE Type[j.at] \notin Seated
  <2>1. Handed(k.at, {k} \cup before)
    BY <1>3, <1>5 DEF Fits
  <2>2. ASSUME NEW p \in Node, NEW c \in Node,
               Parent(k.at)' = p \/ Hands(before, k.at, p), c # p, Follows(c, k.at)'
        PROVE  \/ c \in strayed'
               \/ Vouches(p, c)' \/ Puts(before, p, c)
               \/ ~node'[p].complete \/ Opens(before, p)
    <3>1. Hands({k} \cup before, k.at, p)
      BY <1>1, <2>2 DEF Hands
    <3>2. Follows(c, k.at)
      BY <1>1, <2>2 DEF Follows
    <3>3. \/ c \in strayed
          \/ Vouches(p, c) \/ Puts({k} \cup before, p, c)
          \/ ~node[p].complete \/ Opens({k} \cup before, p)
      BY <2>1, <2>2, <3>1, <3>2 DEF Handed
    <3>4. Puts({k} \cup before, p, c) => Puts(before, p, c)
      BY DEF Puts
    <3>5. Opens({k} \cup before, p) => Opens(before, p)
      BY DEF Opens
    <3>6. Vouches(p, c) => Vouches(p, c)'
      BY <1>1 DEF Vouches, Active, Gone
    <3> QED BY <1>1, <1>2, <3>3, <3>4, <3>5, <3>6
  <2>3. Handed(k.at, before)'
    BY <2>2 DEF Handed, Hands, Puts, Opens
  <2> QED BY <1>3, <2>3 DEF Fits
<1> QED BY <1>4, <1>5

LEMMA RestStaysFit ==
  ASSUME ListsInv, NEW k \in FitCall, NEW j \in FitCall, NEW before,
         Fits(k, {}), Accepts(k), Do(k), fresh' = fresh, Fits(j, {k} \cup before)
  PROVE  Fits(j, before)'
<1>1. k.do \in {"add", "issue", "basis", "open", "accept", "point", "hand", "retire", "acceptRetired"}
  BY DEF Fits, InOrder
<1> QED BY <1>1, FitAfterListing, FitAfterAccepting, FitAfterTaking, FitAfterHanding

-----------------------------------------------------------------------------
(* What no call undoes: who is known stays known, and who is retired stays *)
(* so, with its pointer.                                                   *)

Lasting ==
  \A m \in Node :
    /\ Known(m) => Known(m)'
    /\ Retired(m) => Retired(m)' /\ Parent(m)' = Parent(m)
    /\ Known(m) /\ Active(m)' => Active(m)

Repointing == {"point", "hand", "accept", "place", "acceptRetired"}

LEMMA CallsLast ==
  ASSUME ListsInv, NEW k \in FitCall, Accepts(k), Do(k)
  PROVE  /\ Lasting
         /\ \A m \in Node : Parent(m)' # Parent(m) => m = k.at /\ k.do \in Repointing
<1>1. k.at \in Node /\ node'[k.at] = After(k) /\ (\A n \in Node : n # k.at => node'[n] = node[n])
      /\ node[k.at] \in Record /\ k.do \in Operation
  BY OneRow DEF ListsInv, RecordsOK, FitCall, CallRecord
<1>2. CASE k.do \in {"accept", "place", "acceptRetired"}
  <2>1. After(k) = Recorded(k.to, IF k.do = "acceptRetired" THEN "RETIRED" ELSE "ACTIVE")
    BY <1>2 DEF After, Removals
  <2>2. ~Active(k.at) /\ ~Retired(k.at) /\ (k.do # "acceptRetired" => ~Known(k.at))
    BY <1>2 DEF Accepts, Held, Active, Retired, Known
  <2> QED BY <1>1, <1>2, <2>1, <2>2 DEF Lasting, Known, Active, Retired, Parent, Recorded, Repointing
<1>3. CASE k.do = "retire"
  <2>1. Active(k.at) /\ After(k) = [node[k.at] EXCEPT !.status = "RETIRED"]
    BY <1>3 DEF Accepts, After, Removals
  <2>2. After(k).status = "RETIRED" /\ After(k).up = node[k.at].up
    BY <1>1, <2>1 DEF Record
  <2> QED BY <1>1, <2>1, <2>2 DEF Lasting, Known, Active, Retired, Parent
<1>4. CASE k.do \in {"point", "hand"}
  <2>1. Active(k.at) /\ After(k) = [node[k.at] EXCEPT !.up = k.to]
    BY <1>4 DEF Accepts, After, Removals
  <2>2. After(k).status = node[k.at].status
    BY <1>1, <2>1 DEF Record
  <2> QED BY <1>1, <1>4, <2>1, <2>2 DEF Lasting, Known, Active, Retired, Parent, Repointing
<1>5. CASE k.do \in Listing \cup Removals \cup {"complete"}
  <2>1. After(k).status = node[k.at].status /\ After(k).up = node[k.at].up
    BY <1>1, <1>5 DEF After, Record, CheckedIn, Listing, Removals
  <2> QED BY <1>1, <2>1 DEF Lasting, Known, Active, Retired, Parent
<1> QED BY <1>1, <1>2, <1>3, <1>4, <1>5 DEF Operation, Listing, Removals

LEMMA BasicsStay ==
  ASSUME ListsInv, Basics, NEW k \in FitCall, Accepts(k), Do(k), fresh' = fresh,
         k.do \in Repointing /\ k.to # None => Known(k.to),
         k.do \in {"accept", "place"} => k.at \notin fresh,
         k.do = "acceptRetired" => Known(k.at)
  PROVE  Basics'
<1>1. k.at \in Node /\ node'[k.at] = After(k) /\ (\A n \in Node : n # k.at => node'[n] = node[n])
      /\ node[k.at] \in Record /\ k.to \in Node \cup {None} /\ k.do \in Operation
  BY OneRow DEF ListsInv, RecordsOK, FitCall, CallRecord
<1>2. Lasting /\ \A m \in Node : Parent(m)' # Parent(m) => m = k.at /\ k.do \in Repointing
  BY CallsLast
<1>3. PointersKnown'
  <2>1. ASSUME NEW n \in Node, NEW p, p = Parent(n)', p # None PROVE Known(p)'
    <3>1. p \in Node
      BY <1>1, <2>1, DoKeeps DEF Parent, Record
    <3>2. CASE p = Parent(n)
      BY <1>2, <2>1, <3>1, <3>2 DEF Basics, PointersKnown, Lasting
    <3>3. CASE p # Parent(n)
      <4>1. n = k.at /\ k.do \in Repointing
        BY <1>2, <2>1, <3>3
      <4>2. After(k).up = k.to
        BY <1>1, <4>1 DEF After, Record, Recorded, Removals, Repointing
      <4>3. p = k.to
        BY <1>1, <2>1, <4>1, <4>2 DEF Parent
      <4> QED BY <1>2, <2>1, <3>1, <4>1, <4>3 DEF Lasting
    <3> QED BY <3>2, <3>3
  <2> QED BY <2>1 DEF PointersKnown
<1>4. FreshUnknown'
  <2>1. ASSUME NEW n \in fresh PROVE ~Known(n)'
    <3>1. ~Known(n) /\ n \in Node
      BY DEF Basics, FreshUnknown, ListsInv, RecordsOK
    <3>2. CASE n # k.at
      BY <1>1, <3>1, <3>2 DEF Known
    <3>3. CASE n = k.at
      <4>1. k.do \in Listing \cup Removals \cup {"complete"}
        BY <1>1, <3>1, <3>3 DEF Accepts, Known, Active, Operation, Listing, Removals
      <4>2. After(k).status = node[k.at].status
        BY <1>1, <4>1 DEF After, Record, CheckedIn, Listing, Removals
      <4> QED BY <1>1, <3>1, <3>3, <4>2 DEF Known
    <3> QED BY <3>2, <3>3
  <2> QED BY <2>1 DEF Basics, FreshUnknown
<1>5. MarkedSeated'
  <2>1. \A c \in After(k).marked : c \in node[k.at].marked \/ Type[c] \in Seated
    <3>1. CASE k.do = "retireChild"
      BY <1>1, <3>1 DEF After, Accepts, Record, Removals
    <3>2. CASE k.do # "retireChild"
      BY <1>1, <3>2 DEF After, Record, Recorded, CheckedIn, Removals, Operation
    <3> QED BY <3>1, <3>2
  <2> QED BY <1>1, <2>1 DEF Basics, MarkedSeated
<1> QED BY <1>3, <1>4, <1>5 DEF Basics

LEMMA OwnFitsStays ==
  ASSUME Lasting, NEW c \in Node, NEW j, OwnFits(c, j),
         j.do = "point" /\ Active(c) => Parent(c)' = Parent(c)
  PROVE  OwnFits(c, j)'
<1>1. Known(c)' /\ (Active(c)' => Active(c))
  BY DEF Lasting, OwnFits
<1>2. ASSUME j.do = "point", Active(c)
      PROVE  j.to \in Way(c)' /\ (Parent(c) \in Node /\ Retired(Parent(c)))'
  <2>1. Way(c) \subseteq Way(c)'
    BY <1>2, WayGrows DEF Lasting
  <2>2. j.to \in Way(c) /\ Parent(c) \in Node /\ Retired(Parent(c))
    BY <1>2 DEF OwnFits
  <2> QED BY <1>2, <2>1, <2>2 DEF Lasting
<1> QED BY <1>1, <1>2 DEF OwnFits

LEMMA StillDrifts ==
  ASSUME UNCHANGED <<node, fresh, strayed>>
  PROVE  Drifts /\ Lasting
<1>1. ASSUME NEW c \in Node, NEW n \in Node, Follows(c, n)' PROVE Follows(c, n)
  <2>1. Way(c)' \subseteq Way(c)
    BY WayIsLeast, WayKeeps DEF OnTheWay, Parent, Retired
  <2> QED BY <1>1, <2>1 DEF Follows, Active
<1> QED BY <1>1 DEF Drifts, Lasting, Active, Gone, Retired, Known, Parent

LEMMA HeirIsOnTheWay ==
  ASSUME NEW n \in Node, Heir(n) \in Node
  PROVE  Heir(n) \in Way(n)
<1>1. None \notin Node
  BY ChildListsAssumption
<1>2. Way(n) \cap Living # {} /\ Heir(n) = CHOOSE h \in Way(n) \cap Living : TRUE
  BY <1>1 DEF Heir
<1> QED BY <1>2

-----------------------------------------------------------------------------
(* A call that is done: of an operator, and of a node by itself.           *)

LEMMA FirstIsFit ==
  ASSUME NEW calls \in Seq(FitCall), calls # <<>>
  PROVE  /\ Head(calls) \in FitCall /\ Head(calls) = calls[1] /\ 1 \in DOMAIN calls
         /\ FitLine(calls) => Fits(Head(calls), {})
         /\ \A c : OwnLine(c, calls) => OwnFits(c, Head(calls))
<1>1. 1 \in DOMAIN calls /\ Head(calls) = calls[1] /\ Head(calls) \in FitCall
  BY HeadTailProperties
<1>2. Earlier(calls, 1) = {}
  BY DEF Earlier
<1> QED BY <1>1, <1>2 DEF FitLine, OwnLine

LEMMA RestOf ==
  ASSUME NEW calls \in Seq(FitCall), calls # <<>>, NEW rest, rest = Tail(calls),
         NEW i \in DOMAIN rest
  PROVE  /\ i \in Nat /\ i + 1 \in DOMAIN calls /\ rest[i] = calls[i + 1]
         /\ Len(rest) = Len(calls) - 1 /\ Len(calls) \in Nat
         /\ calls[i + 1] \in FitCall
         /\ Earlier(calls, i + 1) = {Head(calls)} \cup Earlier(rest, i)
<1>1. /\ i \in Nat /\ i + 1 \in DOMAIN calls /\ i >= 1 /\ i =< Len(calls) - 1
      /\ Len(rest) = Len(calls) - 1 /\ Len(calls) \in Nat
      /\ \A j \in 1 .. (Len(calls) - 1) : rest[j] = calls[j + 1]
      /\ Head(calls) = calls[1]
  OBVIOUS
<1>2. calls[i + 1] \in FitCall
  BY <1>1
<1>3. ASSUME NEW j \in 1 .. ((i + 1) - 1)
      PROVE  calls[j] \in {Head(calls)} \cup {rest[m] : m \in 1 .. (i - 1)}
  <2>1. CASE j = 1
    BY <1>1, <2>1
  <2>2. CASE j # 1
    <3>1. j - 1 \in 1 .. (i - 1) /\ j - 1 \in 1 .. (Len(calls) - 1) /\ (j - 1) + 1 = j
      BY <1>1, <1>3, <2>2
    <3>2. rest[j - 1] = calls[j]
      BY <1>1, <3>1
    <3> QED BY <3>1, <3>2
  <2> QED BY <2>1, <2>2
<1>4. calls[1] \in {calls[j] : j \in 1 .. ((i + 1) - 1)}
  BY <1>1
<1>5. ASSUME NEW m \in 1 .. (i - 1)
      PROVE  rest[m] \in {calls[j] : j \in 1 .. ((i + 1) - 1)}
  <2>1. m + 1 \in 1 .. ((i + 1) - 1) /\ m \in 1 .. (Len(calls) - 1)
    BY <1>1, <1>5
  <2> QED BY <1>1, <2>1
<1> QED BY <1>1, <1>2, <1>3, <1>4, <1>5 DEF Earlier

LEMMA TalkCallBasics ==
  ASSUME ListsInv, Basics, NEW k \in FitCall, Fits(k, {}), Accepts(k), Do(k), fresh' = fresh
  PROVE  Basics'
<1>1. k.do \in Repointing /\ k.to # None => Known(k.to)
  BY DEF Fits, Repointing, Puts, Vouches, Known, Active, Gone
<1>2. (k.do \in {"accept", "place"} => k.at \notin fresh) /\ (k.do = "acceptRetired" => Known(k.at))
  BY DEF Fits
<1> QED BY <1>1, <1>2, BasicsStay

LEMMA OwnCallBasics ==
  ASSUME ListsInv, Basics, NEW c \in Node, NEW k \in FitCall, OwnFits(c, k), Accepts(k), Do(k),
         fresh' = fresh
  PROVE  Basics'
<1>1. k.do \in Repointing /\ k.to # None => Known(k.to)
  <2> SUFFICES ASSUME k.do \in Repointing, k.to # None PROVE Known(k.to)
    OBVIOUS
  <2>1. k.do = "point" /\ k.at = c /\ Active(c)
    BY DEF OwnFits, Repointing, Accepts
  <2>2. k.to \in Way(c)
    BY <2>1 DEF OwnFits
  <2> QED BY <2>2, WayHasNodes DEF Basics, PointersKnown
<1>2. k.do \notin {"accept", "place", "acceptRetired"}
  BY DEF OwnFits
<1> QED BY <1>1, <1>2, BasicsStay

LEMMA OperatorsAreNoNodes == \A o \in Operator : o \notin Node /\ o \in Talker
BY ChildListsAssumption DEF Talker

(* No call about the same pointer is pending elsewhere. *)
LEMMA NoneCollides ==
  ASSUME NEW t \in Talker, NEW k, ~Collides(t, k), k.do \in Changes,
         NEW u \in Talker, u # t, NEW i \in DOMAIN todo[u], todo[u][i].at = k.at
  PROVE  todo[u][i].do \notin Changes
BY DEF Collides

LEMMA OthersStayFit ==
  ASSUME ListsInv, OwnCallsFit, NEW t \in Talker, NEW k \in FitCall, Accepts(k), Do(k),
         ~Collides(t, k), NEW c \in Node, c # t, NEW calls, calls = todo[c]
  PROVE  OwnLine(c, calls)'
<1> SUFFICES ASSUME NEW i \in DOMAIN calls
             PROVE  OwnFits(c, calls[i])' /\ (calls[i].do # "add" => i = Len(calls))
  BY DEF OwnLine
<1>1. OwnFits(c, calls[i]) /\ (calls[i].do # "add" => i = Len(calls))
  BY DEF OwnCallsFit, OwnLine
<1>2. Lasting /\ \A m \in Node : Parent(m)' # Parent(m) => m = k.at /\ k.do \in Repointing
  BY CallsLast
<1>3. ASSUME calls[i].do = "point", Active(c), Parent(c)' # Parent(c) PROVE FALSE
  <2>1. c = k.at /\ k.do \in Repointing
    BY <1>2, <1>3
  <2>2. k.do \in {"point", "hand"}
    BY <1>3, <2>1 DEF Repointing, Accepts, Active, Held
  <2>3. calls[i].at = c
    BY <1>1, <1>3 DEF OwnFits
  <2> QED BY <1>3, <2>1, <2>2, <2>3, NoneCollides DEF Talker, Changes
<1> QED BY <1>1, <1>2, <1>3, OwnFitsStays

LEMMA TalkCallDone ==
  ASSUME ListsInv, WatchInv, NEW t \in Operator, todo[t] # <<>>, NEW k, k = Head(todo[t]),
         Accepts(k), Do(k), fresh' = fresh
  PROVE  /\ Basics' /\ NoneMissing'
         /\ \A calls : calls = Tail(todo[t]) => FitLine(calls)'
         /\ \A o \in Operator : o # t => todo[o] = <<>>
         /\ Follow(k) = <<>>
<1>1. todo[t] \in Seq(FitCall) /\ FitLine(todo[t])
  BY OperatorsAreNoNodes DEF ListsInv, CallsOK, WatchInv, TalkCallsFit
<1>2. k \in FitCall /\ Fits(k, {})
  BY <1>1, FirstIsFit
<1>3. Basics' /\ NoneMissing'
  BY <1>2, TalkCallBasics, TalkCallMissesNone DEF WatchInv, Basics
<1>4. ASSUME NEW calls, calls = Tail(todo[t]) PROVE FitLine(calls)'
  <2> SUFFICES ASSUME NEW i \in DOMAIN calls PROVE Fits(calls[i], Earlier(calls, i))'
    BY DEF FitLine
  <2> PICK all : all = todo[t]
    OBVIOUS
  <2>1. /\ i + 1 \in DOMAIN all /\ calls[i] = all[i + 1] /\ all[i + 1] \in FitCall
        /\ Earlier(all, i + 1) = {k} \cup Earlier(calls, i)
    BY <1>1, <1>4, RestOf
  <2>2. Fits(calls[i], {k} \cup Earlier(calls, i))
    BY <1>1, <2>1 DEF FitLine
  <2>3. PICK before : before = Earlier(calls, i)
    OBVIOUS
  <2>4. Fits(calls[i], before)'
    BY <1>2, <2>1, <2>2, <2>3, RestStaysFit
  <2> QED BY <2>3, <2>4
<1>5. \A o \in Operator : o # t => todo[o] = <<>>
  BY DEF WatchInv, Alone
<1>6. Follow(k) = <<>>
  BY <1>2 DEF Fits, InOrder, Follow
<1> QED BY <1>3, <1>4, <1>5, <1>6

LEMMA NextOwnCalls ==
  ASSUME ListsInv, Basics, NEW t \in Node, NEW k \in FitCall, OwnFits(t, k), k.do # "add",
         Lasting, Parent(t)' = Parent(t) \/ k.do = "point"
  PROVE  \A calls : calls = Follow(k) => OwnLine(t, calls)'
<1> SUFFICES ASSUME NEW calls, calls = Follow(k) PROVE OwnLine(t, calls)'
  OBVIOUS
<1>1. OwnLine(t, <<>>)'
  BY DEF OwnLine
<1>2. Known(t) /\ Known(t)'
  BY DEF OwnFits, Lasting
<1>3. CASE k.do = "checkIn"
  <2>1. k.to = t /\ k.at \in Node
    BY <1>3 DEF OwnFits, FitCall, CallRecord
  <2>2. OwnLine(t, <<Repair(t)>>)'
    BY <1>2 DEF OwnLine, OwnFits, Repair, Call
  <2>3. Type[t] \in Seated => OwnLine(t, <<Retire(t)>>)'
    BY <1>2 DEF OwnLine, OwnFits, Retire, Call
  <2>4. t \in node[k.at].marked => Type[t] \in Seated
    BY <2>1 DEF Basics, MarkedSeated
  <2> QED BY <1>1, <1>3, <2>1, <2>2, <2>3, <2>4 DEF Follow, HeedAnswer
<1>4. CASE k.do = "repair"
  <2>1. k.at = t
    BY <1>4 DEF OwnFits
  <2>2. CASE calls = <<>>
    BY <1>1, <2>2
  <2>3. CASE calls # <<>>
    <3> PICK h : h = Heir(t)
      OBVIOUS
    <3>1. /\ Parent(t) # None /\ Held(Parent(t)) /\ ~Active(Parent(t)) /\ h \in Node
          /\ calls = <<AddChildren(h, {t}), SetParent(t, h)>>
      BY <1>4, <2>1, <2>3 DEF Follow, RepairParent
    <3>2. h \in Way(t) /\ Parent(t) \in Node /\ Retired(Parent(t))
      BY <3>1, HeirIsOnTheWay, ChildListsAssumption DEF ListsInv, RecordsOK, Record, Parent, Held, Active, Retired
    <3>3. OwnFits(t, SetParent(t, h)) /\ OwnFits(t, AddChildren(h, {t}))
      BY <1>2, <3>2 DEF OwnFits, SetParent, AddChildren, Call
    <3>4. Parent(t)' = Parent(t)
      BY <1>4
    <3>5. OwnFits(t, SetParent(t, h))' /\ OwnFits(t, AddChildren(h, {t}))'
      <4>1. PICK a, b : a = SetParent(t, h) /\ b = AddChildren(h, {t})
        OBVIOUS
      <4>2. OwnFits(t, a)' /\ OwnFits(t, b)'
        BY <3>3, <3>4, <4>1, OwnFitsStays
      <4> QED BY <4>1, <4>2
    <3> QED BY <3>1, <3>5 DEF OwnLine, AddChildren, Call
  <2> QED BY <2>2, <2>3
<1>5. CASE k.do \notin {"checkIn", "repair"}
  BY <1>1, <1>5 DEF Follow
<1> QED BY <1>3, <1>4, <1>5

LEMMA OwnCallDone ==
  ASSUME ListsInv, WatchInv, NEW t \in Node, todo[t] # <<>>, NEW k, k = Head(todo[t]),
         Accepts(k), Do(k), ~Collides(t, k), fresh' = fresh
  PROVE  /\ Basics' /\ NoneMissing'
         /\ \A o \in Operator : \A calls : calls = todo[o] => FitLine(calls)'
         /\ \A calls : calls = Follow(k) \o Tail(todo[t]) => OwnLine(t, calls)'
<1>1. todo[t] \in Seq(FitCall) /\ OwnLine(t, todo[t]) /\ t \in Talker
  BY DEF ListsInv, CallsOK, WatchInv, OwnCallsFit, Talker
<1>2. k \in FitCall /\ OwnFits(t, k) /\ k = todo[t][1] /\ 1 \in DOMAIN todo[t]
  BY <1>1, FirstIsFit
<1>3. Drifts
  BY <1>2, OwnCallDrifts
<1>4. Basics' /\ NoneMissing'
  BY <1>2, <1>3, OwnCallBasics, MissingDrifts DEF WatchInv
<1>5. Lasting /\ \A m \in Node : Parent(m)' # Parent(m) => m = k.at /\ k.do \in Repointing
  BY <1>2, CallsLast
<1>6. ASSUME NEW o \in Operator, NEW calls, calls = todo[o] PROVE FitLine(calls)'
  <2> SUFFICES ASSUME NEW i \in DOMAIN calls PROVE Fits(calls[i], Earlier(calls, i))'
    BY DEF FitLine
  <2>1. o \in Talker /\ o # t /\ calls[i] \in FitCall /\ Fits(calls[i], Earlier(calls, i))
    BY <1>6, OperatorsAreNoNodes DEF WatchInv, TalkCallsFit, FitLine, ListsInv, CallsOK
  <2>2. ASSUME calls[i].do = "retire" PROVE Parent(calls[i].at)' = Parent(calls[i].at)
    <3>1. calls[i].at \in Node
      BY <2>1 DEF FitCall, CallRecord
    <3>2. CASE calls[i].at = k.at /\ k.do \in Repointing
      <4>1. k.do = "point"
        BY <1>2, <3>2 DEF OwnFits, Repointing
      <4> QED BY <1>1, <1>6, <2>1, <2>2, <3>2, <4>1, NoneCollides DEF Changes
    <3> QED BY <1>5, <3>1, <3>2
  <2>3. PICK before : before = Earlier(calls, i)
    OBVIOUS
  <2>4. Fits(calls[i], before)'
    BY <1>3, <2>1, <2>2, <2>3, FitsDrifts
  <2> QED BY <2>3, <2>4
<1>7. ASSUME NEW calls, calls = Follow(k) \o Tail(todo[t]) PROVE OwnLine(t, calls)'
  <2>1. CASE k.do # "add"
    <3>1. Len(todo[t]) = 1
      BY <1>1, <1>2, <2>1 DEF OwnLine
    <3>2. Tail(todo[t]) = <<>>
      <4>1. Tail(todo[t]) \in Seq(FitCall) /\ Len(Tail(todo[t])) = 0
        BY <1>1, <3>1, HeadTailProperties
      <4> QED BY <4>1, EmptySeq
    <3>3. Follow(k) \in Seq(FitCall)
      BY <1>2, FollowingCalls
    <3>4. calls = Follow(k)
      BY <1>7, <3>2, <3>3, ConcatEmptySeq
    <3>5. Parent(t)' = Parent(t) \/ k.do = "point"
      BY <1>2, <1>5 DEF OwnFits, Repointing
    <3> QED BY <1>2, <1>5, <2>1, <3>4, <3>5, NextOwnCalls DEF WatchInv
  <2>2. CASE k.do = "add"
    <3>1. Tail(todo[t]) \in Seq(FitCall) /\ Follow(k) = <<>>
      BY <1>1, <2>2, FirstCall DEF ListsInv, Follow, Talker
    <3>2. calls = Tail(todo[t])
      BY <1>7, <3>1, ConcatEmptySeq
    <3> SUFFICES ASSUME NEW i \in DOMAIN calls
                 PROVE  OwnFits(t, calls[i])' /\ (calls[i].do # "add" => i = Len(calls))
      BY DEF OwnLine
    <3>3. /\ i \in Nat /\ i + 1 \in DOMAIN todo[t] /\ calls[i] = todo[t][i + 1]
          /\ Len(calls) = Len(todo[t]) - 1 /\ Len(todo[t]) \in Nat
      BY <1>1, <3>2, RestOf
    <3>4. OwnFits(t, calls[i]) /\ (calls[i].do # "add" => i + 1 = Len(todo[t]))
      BY <1>1, <3>3 DEF OwnLine
    <3>5. Parent(t)' = Parent(t)
      BY <1>5, <2>2 DEF Repointing
    <3> QED BY <1>5, <3>3, <3>4, <3>5, OwnFitsStays
  <2> QED BY <2>1, <2>2
<1> QED BY <1>4, <1>6, <1>7

(* One talker's calls change; everyone else's stay fit. *)
LEMMA OneTalkerActs ==
  ASSUME ListsInv, WatchInv, NEW t \in Talker, NEW rest, todo' = [todo EXCEPT ![t] = rest],
         Basics', NoneMissing',
         t \in Operator => FitLine(rest)' /\ \A o \in Operator : o # t => todo[o] = <<>>,
         t \in Node => OwnLine(t, rest)',
         \A o \in Operator : o # t => \A calls : calls = todo[o] => FitLine(calls)',
         \A c \in Node : c # t => \A calls : calls = todo[c] => OwnLine(c, calls)'
  PROVE  WatchInv'
<1>1. todo'[t] = rest /\ \A u \in Talker : u # t => todo'[u] = todo[u]
  BY DEF ListsInv, CallsOK
<1>2. TalkCallsFit'
  <2>1. ASSUME NEW o \in Operator, NEW calls, calls = todo'[o] PROVE FitLine(calls)'
    <3>1. CASE o = t
      BY <1>1, <2>1, <3>1
    <3>2. CASE o # t
      <4>1. calls = todo[o]
        BY <1>1, <2>1, <3>2, OperatorsAreNoNodes
      <4> QED BY <3>2, <4>1
    <3> QED BY <3>1, <3>2
  <2> QED BY <2>1 DEF TalkCallsFit
<1>3. OwnCallsFit'
  <2>1. ASSUME NEW c \in Node, NEW calls, calls = todo'[c] PROVE OwnLine(c, calls)'
    <3>1. CASE c = t
      BY <1>1, <2>1, <3>1
    <3>2. CASE c # t
      <4>1. calls = todo[c]
        BY <1>1, <2>1, <3>2 DEF Talker
      <4> QED BY <3>2, <4>1
    <3> QED BY <3>1, <3>2
  <2> QED BY <2>1 DEF OwnCallsFit
<1>4. Alone'
  <2> SUFFICES ASSUME NEW o \in Operator, NEW u \in Operator, o # u
               PROVE  todo'[o] = <<>> \/ todo'[u] = <<>>
    BY DEF Alone
  <2>1. o \in Talker /\ u \in Talker
    BY DEF Talker
  <2>2. CASE t \in Operator
    BY <1>1, <2>1, <2>2
  <2>3. CASE t \notin Operator
    BY <1>1, <2>1, <2>3 DEF WatchInv, Alone
  <2> QED BY <2>2, <2>3
<1> QED BY <1>2, <1>3, <1>4 DEF WatchInv

LEMMA DoneWatches ==
  ASSUME ListsInv, WatchInv, NEW t \in Talker, todo[t] # <<>>, NEW k, k = Head(todo[t]),
         Accepts(k), Do(k), ~Collides(t, k), fresh' = fresh,
         NEW rest, rest = <<>> \/ rest = Follow(k) \o Tail(todo[t]),
         todo' = [todo EXCEPT ![t] = rest]
  PROVE  WatchInv'
<1>1. k \in FitCall /\ Tail(todo[t]) \in Seq(FitCall)
  BY FirstCall DEF ListsInv
<1>2. FitLine(<<>>)' /\ \A c \in Node : OwnLine(c, <<>>)'
  BY DEF FitLine, OwnLine
<1>3. \A c \in Node : c # t => \A calls : calls = todo[c] => OwnLine(c, calls)'
  BY <1>1, OthersStayFit DEF WatchInv
<1>4. CASE t \in Operator
  <2>1. /\ Basics' /\ NoneMissing' /\ Follow(k) = <<>>
        /\ \A calls : calls = Tail(todo[t]) => FitLine(calls)'
        /\ \A o \in Operator : o # t => todo[o] = <<>>
    BY <1>4, TalkCallDone
  <2>2. rest = <<>> \/ rest = Tail(todo[t])
    BY <1>1, <2>1, ConcatEmptySeq
  <2>3. FitLine(rest)'
    BY <1>2, <2>1, <2>2
  <2>4. t \notin Node
    BY <1>4, OperatorsAreNoNodes
  <2>5. \A o \in Operator : o # t => \A calls : calls = todo[o] => FitLine(calls)'
    BY <1>2, <2>1
  <2> QED BY <1>3, <2>1, <2>3, <2>4, <2>5, OneTalkerActs
<1>5. CASE t \in Node
  <2>1. /\ Basics' /\ NoneMissing'
        /\ \A o \in Operator : \A calls : calls = todo[o] => FitLine(calls)'
        /\ \A calls : calls = Follow(k) \o Tail(todo[t]) => OwnLine(t, calls)'
    BY <1>5, OwnCallDone
  <2>2. OwnLine(t, rest)'
    BY <1>2, <1>5, <2>1
  <2>3. t \notin Operator
    BY <1>5, OperatorsAreNoNodes
  <2> QED BY <1>3, <2>1, <2>2, <2>3, OneTalkerActs
<1> QED BY <1>4, <1>5 DEF Talker

-----------------------------------------------------------------------------
(* Steps that do no call.                                                  *)

LEMMA LinesDrift ==
  ASSUME ListsInv, WatchInv, Drifts, Lasting, \A m \in Node : Parent(m)' = Parent(m)
  PROVE  /\ NoneMissing'
         /\ \A o \in Operator : \A calls : calls = todo[o] => FitLine(calls)'
         /\ \A c \in Node : \A calls : calls = todo[c] => OwnLine(c, calls)'
<1>1. NoneMissing'
  BY MissingDrifts DEF WatchInv
<1>2. ASSUME NEW o \in Operator, NEW calls, calls = todo[o] PROVE FitLine(calls)'
  <2> SUFFICES ASSUME NEW i \in DOMAIN calls PROVE Fits(calls[i], Earlier(calls, i))'
    BY DEF FitLine
  <2>1. calls[i] \in FitCall /\ Fits(calls[i], Earlier(calls, i)) /\ calls[i].at \in Node
    <3>1. calls \in Seq(FitCall) /\ FitLine(calls)
      BY <1>2, OperatorsAreNoNodes DEF WatchInv, TalkCallsFit, ListsInv, CallsOK
    <3>2. calls[i] \in FitCall
      BY <3>1
    <3> QED BY <3>1, <3>2 DEF FitLine, FitCall, CallRecord
  <2>2. PICK before : before = Earlier(calls, i)
    OBVIOUS
  <2>3. Fits(calls[i], before)'
    BY <2>1, <2>2, FitsDrifts
  <2> QED BY <2>2, <2>3
<1>3. ASSUME NEW c \in Node, NEW calls, calls = todo[c] PROVE OwnLine(c, calls)'
  <2> SUFFICES ASSUME NEW i \in DOMAIN calls
               PROVE  OwnFits(c, calls[i])' /\ (calls[i].do # "add" => i = Len(calls))
    BY DEF OwnLine
  <2>1. OwnFits(c, calls[i]) /\ (calls[i].do # "add" => i = Len(calls))
    BY <1>3 DEF WatchInv, OwnCallsFit, OwnLine
  <2> QED BY <2>1, OwnFitsStays
<1> QED BY <1>1, <1>2, <1>3

LEMMA QuietStep ==
  ASSUME ListsInv, WatchInv, UNCHANGED <<node, fresh, strayed>>
  PROVE  /\ Basics' /\ NoneMissing'
         /\ \A o \in Operator : \A calls : calls = todo[o] => FitLine(calls)'
         /\ \A c \in Node : \A calls : calls = todo[c] => OwnLine(c, calls)'
<1>1. Drifts /\ Lasting
  BY StillDrifts
<1>2. \A m \in Node : Parent(m)' = Parent(m)
  BY DEF Parent
<1>3. Basics'
  BY DEF WatchInv, Basics, PointersKnown, FreshUnknown, MarkedSeated, Known, Parent
<1> QED BY <1>1, <1>2, <1>3, LinesDrift

LEMMA UndoneWatches ==
  ASSUME ListsInv, WatchInv, NEW t \in Talker, todo[t] # <<>>, NEW k, k = Head(todo[t]),
         UNCHANGED <<node, fresh, strayed>>,
         NEW rest \in Undone(k), todo' = [todo EXCEPT ![t] = rest]
  PROVE  WatchInv'
<1>1. /\ Basics' /\ NoneMissing'
      /\ \A o \in Operator : \A calls : calls = todo[o] => FitLine(calls)'
      /\ \A c \in Node : \A calls : calls = todo[c] => OwnLine(c, calls)'
  BY QuietStep
<1>2. FitLine(<<>>)' /\ \A c \in Node : OwnLine(c, <<>>)'
  BY DEF FitLine, OwnLine
<1>3. todo[t] \in Seq(FitCall)
  BY DEF ListsInv, CallsOK
<1>4. CASE t \in Operator
  <2>1. \A o \in Operator : o # t => todo[o] = <<>>
    BY <1>4 DEF WatchInv, Alone
  <2>2. FitLine(rest)'
    <3>1. CASE rest = <<>>
      BY <1>2, <3>1
    <3>2. CASE rest # <<>>
      <4>1. node[k.at].status = "NONE" /\ rest = <<UndoChild(k.to, k.at)>>
        BY <3>2 DEF Undone
      <4>2. PICK u : u = UndoChild(k.to, k.at)
        OBVIOUS
      <4>3. u.do = "undo" /\ u.kids = {k.at} /\ ~Active(k.at)'
        BY <4>1, <4>2 DEF UndoChild, Call, Active
      <4>4. Fits(u, {})'
        BY <4>3 DEF Fits, InOrder
      <4>5. \A i \in DOMAIN rest : i = 1 /\ rest[i] = u /\ Earlier(rest, i) = {}
        BY <4>1, <4>2 DEF Earlier
      <4> QED BY <4>4, <4>5 DEF FitLine
    <3> QED BY <3>1, <3>2
  <2>3. t \notin Node
    BY <1>4, OperatorsAreNoNodes
  <2> QED BY <1>1, <2>1, <2>2, <2>3, OneTalkerActs
<1>5. CASE t \in Node
  <2>1. OwnFits(t, k)
    BY <1>3, <1>5, FirstIsFit DEF WatchInv, OwnCallsFit
  <2>2. rest = <<>>
    BY <2>1 DEF OwnFits, Undone
  <2>3. t \notin Operator /\ OwnLine(t, rest)'
    BY <1>2, <1>5, <2>2, OperatorsAreNoNodes
  <2> QED BY <1>1, <2>3, OneTalkerActs
<1> QED BY <1>4, <1>5 DEF Talker

LEMMA CallsWatch ==
  ASSUME ListsInv, WatchInv, NEW t \in Talker, Answered(t) \/ Refused(t) \/ CutOff(t), ~overlapped'
  PROVE  WatchInv'
<1> PICK k : k = Head(todo[t])
  OBVIOUS
<1>1. CASE Answered(t)
  <2>1. /\ todo[t] # <<>> /\ Accepts(k) /\ Do(k) /\ fresh' = fresh /\ ~Collides(t, k)
        /\ todo' = [todo EXCEPT ![t] = Follow(k) \o Tail(todo[t])]
    BY <1>1 DEF Answered
  <2> QED BY <2>1, DoneWatches
<1>2. CASE Refused(t)
  <2>1. /\ todo[t] # <<>> /\ UNCHANGED <<node, fresh, strayed>>
        /\ \E rest \in Undone(k) : todo' = [todo EXCEPT ![t] = rest]
    BY <1>2 DEF Refused
  <2> QED BY <2>1, UndoneWatches
<1>3. CASE CutOff(t)
  <2>1. todo[t] # <<>> /\ fresh' = fresh
    BY <1>3 DEF CutOff
  <2>2. CASE /\ \E rest \in Undone(k) : todo' = [todo EXCEPT ![t] = rest]
             /\ UNCHANGED <<node, strayed, overlapped>>
    BY <2>1, <2>2, UndoneWatches
  <2>3. CASE /\ Accepts(k) /\ Do(k)
             /\ todo' = [todo EXCEPT ![t] = <<>>]
             /\ overlapped' = (overlapped \/ Collides(t, k))
    <3>1. ~Collides(t, k)
      BY <2>3
    <3> QED BY <2>1, <2>3, <3>1, DoneWatches
  <2> QED BY <1>3, <2>2, <2>3 DEF CutOff
<1> QED BY <1>1, <1>2, <1>3

LEMMA CheckInWatches ==
  ASSUME ListsInv, WatchInv, NEW c \in Node, CheckIn(c)
  PROVE  WatchInv'
<1>1. UNCHANGED <<node, fresh, strayed>> /\ Active(c)
  BY DEF CheckIn
<1>2. /\ Basics' /\ NoneMissing'
      /\ \A o \in Operator : \A calls : calls = todo[o] => FitLine(calls)'
      /\ \A n \in Node : \A calls : calls = todo[n] => OwnLine(n, calls)'
  BY <1>1, QuietStep
<1>3. PICK rest : rest = <<AskParent(c, Parent(c))>>
  OBVIOUS
<1>4. todo' = [todo EXCEPT ![c] = rest]
  BY <1>3 DEF CheckIn
<1>5. OwnLine(c, rest)'
  <2>1. \A i \in DOMAIN rest : i = Len(rest) /\ rest[i] = Call("checkIn", Parent(c), {c}, c)
    BY <1>3 DEF AskParent
  <2>2. Known(c)'
    BY <1>1 DEF Known, Active
  <2> QED BY <2>1, <2>2 DEF OwnLine, OwnFits, Call
<1>6. c \in Talker /\ c \notin Operator
  BY OperatorsAreNoNodes DEF Talker
<1> QED BY <1>2, <1>4, <1>5, <1>6, OneTalkerActs

LEMMA VanishWatches ==
  ASSUME ListsInv, WatchInv, NEW n \in Node, Vanish(n)
  PROVE  WatchInv'
<1>1. /\ Active(n) /\ node' = [node EXCEPT ![n].status = "GONE"]
      /\ todo' = [todo EXCEPT ![n] = <<>>]
      /\ fresh' = fresh
  BY DEF Vanish
<1>2. node[n] \in Record /\ DOMAIN node = Node
  BY DEF ListsInv, RecordsOK
<1>3. \A m \in Node :
        /\ node'[m].status = IF m = n THEN "GONE" ELSE node[m].status
        /\ node'[m].up = node[m].up /\ node'[m].marked = node[m].marked
  BY <1>1, <1>2 DEF Record
<1>4. Drifts
  BY VanishDrifts
<1>5. Lasting /\ \A m \in Node : Parent(m)' = Parent(m)
  BY <1>1, <1>3 DEF Lasting, Known, Retired, Active, Parent
<1>6. Basics'
  <2>1. PointersKnown'
    <3>1. ASSUME NEW m \in Node, NEW p, p = Parent(m)', p # None PROVE Known(p)'
      <4>1. p = Parent(m) /\ p \in Node
        BY <1>5, <3>1 DEF ListsInv, RecordsOK, Record, Parent
      <4> QED BY <1>5, <3>1, <4>1 DEF WatchInv, Basics, PointersKnown, Lasting
    <3> QED BY <3>1 DEF PointersKnown
  <2>2. FreshUnknown'
    <3>1. \A m \in fresh : m \in Node /\ ~Known(m)
      BY DEF WatchInv, Basics, FreshUnknown, ListsInv, RecordsOK
    <3>2. \A m \in fresh : ~Known(m)'
      BY <1>4, <3>1 DEF Drifts
    <3> QED BY <1>1, <3>2 DEF WatchInv, Basics, FreshUnknown
  <2>3. MarkedSeated'
    BY <1>3 DEF WatchInv, Basics, MarkedSeated
  <2> QED BY <2>1, <2>2, <2>3 DEF Basics
<1>7. /\ NoneMissing'
      /\ \A o \in Operator : \A calls : calls = todo[o] => FitLine(calls)'
      /\ \A c \in Node : \A calls : calls = todo[c] => OwnLine(c, calls)'
  BY <1>4, <1>5, LinesDrift
<1>8. OwnLine(n, <<>>)'
  BY DEF OwnLine
<1>9. n \in Talker /\ n \notin Operator
  BY OperatorsAreNoNodes DEF Talker
<1> QED BY <1>1, <1>6, <1>7, <1>8, <1>9, OneTalkerActs

-----------------------------------------------------------------------------
(* Conversations begin with calls that are fit.                            *)

LEMMA FitLines ==
  ASSUME NEW a, Fits(a, {})', NEW b, NEW c, NEW d, NEW e
  PROVE  /\ FitLine(<<a>>)'
         /\ Fits(b, {a})' => FitLine(<<a, b>>)'
         /\ Fits(b, {a})' /\ Fits(c, {a, b})' => FitLine(<<a, b, c>>)'
         /\ Fits(b, {a})' /\ Fits(c, {a, b})' /\ Fits(d, {a, b, c})' => FitLine(<<a, b, c, d>>)'
         /\ Fits(b, {a})' /\ Fits(c, {a, b})' /\ Fits(d, {a, b, c})' /\ Fits(e, {a, b, c, d})'
              => FitLine(<<a, b, c, d, e>>)'
<1>1. \A calls : /\ Earlier(calls, 1) = {}
                 /\ Earlier(calls, 2) = {calls[1]}
                 /\ Earlier(calls, 3) = {calls[1], calls[2]}
                 /\ Earlier(calls, 4) = {calls[1], calls[2], calls[3]}
                 /\ Earlier(calls, 5) = {calls[1], calls[2], calls[3], calls[4]}
  <2>1. /\ 1 .. (1 - 1) = {} /\ 1 .. (2 - 1) = {1} /\ 1 .. (3 - 1) = {1, 2}
        /\ 1 .. (4 - 1) = {1, 2, 3} /\ 1 .. (5 - 1) = {1, 2, 3, 4}
    OBVIOUS
  <2> QED BY <2>1 DEF Earlier
<1>2. FitLine(<<a>>)'
  <2>1. \A i \in DOMAIN <<a>> : i = 1
    OBVIOUS
  <2> QED BY <1>1, <2>1 DEF FitLine
<1>3. Fits(b, {a})' => FitLine(<<a, b>>)'
  <2>1. \A i \in DOMAIN <<a, b>> : i = 1 \/ i = 2
    OBVIOUS
  <2>2. <<a, b>>[1] = a /\ <<a, b>>[2] = b
    OBVIOUS
  <2> QED BY <1>1, <2>1, <2>2 DEF FitLine
<1>4. Fits(b, {a})' /\ Fits(c, {a, b})' => FitLine(<<a, b, c>>)'
  <2>1. \A i \in DOMAIN <<a, b, c>> : i = 1 \/ i = 2 \/ i = 3
    OBVIOUS
  <2>2. <<a, b, c>>[1] = a /\ <<a, b, c>>[2] = b /\ <<a, b, c>>[3] = c
    OBVIOUS
  <2> QED BY <1>1, <2>1, <2>2 DEF FitLine
<1>5. Fits(b, {a})' /\ Fits(c, {a, b})' /\ Fits(d, {a, b, c})' => FitLine(<<a, b, c, d>>)'
  <2>1. \A i \in DOMAIN <<a, b, c, d>> : i = 1 \/ i = 2 \/ i = 3 \/ i = 4
    OBVIOUS
  <2>2. <<a, b, c, d>>[1] = a /\ <<a, b, c, d>>[2] = b /\ <<a, b, c, d>>[3] = c /\ <<a, b, c, d>>[4] = d
    OBVIOUS
  <2> QED BY <1>1, <2>1, <2>2 DEF FitLine
<1>6. Fits(b, {a})' /\ Fits(c, {a, b})' /\ Fits(d, {a, b, c})' /\ Fits(e, {a, b, c, d})'
        => FitLine(<<a, b, c, d, e>>)'
  <2>1. \A i \in DOMAIN <<a, b, c, d, e>> : i = 1 \/ i = 2 \/ i = 3 \/ i = 4 \/ i = 5
    OBVIOUS
  <2>2. /\ <<a, b, c, d, e>>[1] = a /\ <<a, b, c, d, e>>[2] = b /\ <<a, b, c, d, e>>[3] = c
        /\ <<a, b, c, d, e>>[4] = d /\ <<a, b, c, d, e>>[5] = e
    OBVIOUS
  <2> QED BY <1>1, <2>1, <2>2 DEF FitLine
<1> QED BY <1>2, <1>3, <1>4, <1>5, <1>6

(* What needs nothing but its place. *)
Plain == {"add", "issue", "basis", "open", "sweep", "retireChild"}

LEMMA PlainFits ==
  ASSUME NEW k, NEW before, k.do \in Plain, InOrder(k, before)
  PROVE  Fits(k, before)'
BY DEF Fits, InOrder, Plain

LEMMA NothingMoves ==
  ASSUME node' = node
  PROVE  /\ Lasting
         /\ \A n \in Node : /\ Active(n)' = Active(n) /\ Known(n)' = Known(n) /\ Retired(n)' = Retired(n)
                            /\ Parent(n)' = Parent(n)
         /\ \A c, n \in Node : Follows(c, n)' <=> Follows(c, n)
<1>1. ASSUME NEW c \in Node, NEW n \in Node PROVE Follows(c, n)' <=> Follows(c, n)
  <2>1. Way(c)' \subseteq Way(c)
    BY WayIsLeast, WayKeeps DEF OnTheWay, Parent, Retired
  <2>2. Way(c) \subseteq Way(c)'
    BY WayGrows DEF Parent, Retired
  <2> QED BY <2>1, <2>2 DEF Follows, Active
<1> QED BY <1>1 DEF Lasting, Active, Known, Retired, Parent

LEMMA BeginWatches ==
  ASSUME ListsInv, WatchInv, NEW o \in Operator, NEW calls, Begin(o, calls), ~overlapped',
         fresh' \subseteq fresh, FitLine(calls)'
  PROVE  WatchInv'
<1>1. /\ todo' = [todo EXCEPT ![o] = calls] /\ node' = node
      /\ strayed' = {c \in strayed : Missing(c)}
      /\ \A u \in Operator : u # o => todo[u] = <<>>
  BY DEF Begin
<1>2. Basics'
  <2>1. FreshUnknown'
    BY <1>1 DEF WatchInv, Basics, FreshUnknown, Known
  <2> QED BY <1>1, <2>1 DEF WatchInv, Basics, PointersKnown, MarkedSeated, Known, Parent
<1>3. NoneMissing'
  <2> SUFFICES ASSUME NEW c \in Node, Missing(c)' PROVE c \in strayed'
    BY DEF NoneMissing
  <2>1. Missing(c)
    BY <1>1, NothingMoves DEF Missing, Living, Active
  <2> QED BY <1>1, <2>1 DEF WatchInv, NoneMissing
<1>4. ASSUME NEW c \in Node, NEW own, own = todo[c] PROVE OwnLine(c, own)'
  <2> SUFFICES ASSUME NEW i \in DOMAIN own
               PROVE  OwnFits(c, own[i])' /\ (own[i].do # "add" => i = Len(own))
    BY DEF OwnLine
  <2>1. OwnFits(c, own[i]) /\ (own[i].do # "add" => i = Len(own))
    BY <1>4 DEF WatchInv, OwnCallsFit, OwnLine
  <2>2. Lasting /\ Parent(c)' = Parent(c)
    BY <1>1, NothingMoves
  <2> QED BY <2>1, <2>2, OwnFitsStays
<1>5. FitLine(<<>>)'
  BY DEF FitLine
<1>6. o \in Talker /\ o \notin Node
  BY OperatorsAreNoNodes
<1> QED BY <1>1, <1>2, <1>3, <1>4, <1>5, <1>6, OneTalkerActs

LEMMA JoinsOne ==
  ASSUME NEW a, NEW b, NEW d
  PROVE  <<a, b>> \o <<d>> = <<a, b, d>>
<1> DEFINE S == {a, b, d}
<1>1. <<a, b>> \in Seq(S) /\ <<d>> \in Seq(S) /\ <<a, b, d>> \in Seq(S)
  OBVIOUS
<1>2. Len(<<a, b>> \o <<d>>) = 3 /\ <<a, b>> \o <<d>> \in Seq(S)
  BY <1>1, ConcatProperties
<1>3. \A i \in 1 .. 3 : (<<a, b>> \o <<d>>)[i] = <<a, b, d>>[i]
  BY <1>1
<1> QED BY <1>1, <1>2, <1>3, SeqEqual

LEMMA JoinsTwo ==
  ASSUME NEW a, NEW x, NEW y
  PROVE  <<a>> \o <<x, y>> = <<a, x, y>>
<1> DEFINE S == {a, x, y}
<1>1. <<a>> \in Seq(S) /\ <<x, y>> \in Seq(S) /\ <<a, x, y>> \in Seq(S)
  OBVIOUS
<1>2. Len(<<a>> \o <<x, y>>) = 3 /\ <<a>> \o <<x, y>> \in Seq(S)
  BY <1>1, ConcatProperties
<1>3. \A i \in 1 .. 3 : (<<a>> \o <<x, y>>)[i] = <<a, x, y>>[i]
  BY <1>1
<1> QED BY <1>1, <1>2, <1>3, SeqEqual

LEMMA JoinsFour ==
  ASSUME NEW a, NEW b, NEW x, NEW y
  PROVE  <<a, b>> \o <<x, y>> = <<a, b, x, y>>
<1> DEFINE S == {a, b, x, y}
<1>1. <<a, b>> \in Seq(S) /\ <<x, y>> \in Seq(S) /\ <<a, b, x, y>> \in Seq(S)
  OBVIOUS
<1>2. Len(<<a, b>> \o <<x, y>>) = 4 /\ <<a, b>> \o <<x, y>> \in Seq(S)
  BY <1>1, ConcatProperties
<1>3. \A i \in 1 .. 4 : (<<a, b>> \o <<x, y>>)[i] = <<a, b, x, y>>[i]
  BY <1>1
<1> QED BY <1>1, <1>2, <1>3, SeqEqual

LEMMA JoinsEmpty ==
  ASSUME NEW a, NEW b
  PROVE  <<>> \o <<>> = <<>> /\ <<>> \o <<a>> = <<a>> /\ <<a>> \o <<>> = <<a>>
         /\ <<>> \o <<a, b>> = <<a, b>> /\ <<a, b>> \o <<>> = <<a, b>>
<1>1. <<>> \in Seq({a, b}) /\ <<a>> \in Seq({a, b}) /\ <<a, b>> \in Seq({a, b})
  OBVIOUS
<1> QED BY <1>1, ConcatEmptySeq

LEMMA JoinsBoth == ASSUME NEW a, NEW b PROVE <<a>> \o <<b>> = <<a, b>>
<1> DEFINE S == {a, b}
<1>1. <<a>> \in Seq(S) /\ <<b>> \in Seq(S) /\ <<a, b>> \in Seq(S)
  OBVIOUS
<1>2. Len(<<a>> \o <<b>>) = 2 /\ <<a>> \o <<b>> \in Seq(S)
  BY <1>1, ConcatProperties
<1>3. \A i \in 1 .. 2 : (<<a>> \o <<b>>)[i] = <<a, b>>[i]
  BY <1>1
<1> QED BY <1>1, <1>2, <1>3, SeqEqual

LEMMA PlacingFits ==
  ASSUME ListsInv, WatchInv, NEW o \in Operator, NEW p \in Node \cup {None}, NEW n \in Node,
         NEW c \in Node, ~overlapped',
         \/ p \in Node /\ CreateNode(o, p, n)
         \/ PlaceIssued(o, p, n)
         \/ InsertAbove(o, c, n)
         \/ p \in Node /\ AddParentAbove(o, c, n, p)
  PROVE  WatchInv'
<1>1. CASE p \in Node /\ CreateNode(o, p, n)
  <2> PICK a, b : a = IssueChildId(p, n) /\ b = Place(n, p)
    OBVIOUS
  <2>1. Begin(o, <<a, b>>) /\ fresh' = fresh \ {n}
    BY <1>1 DEF CreateNode
  <2>2. a = Call("issue", p, {n}, None) /\ b = Call("place", n, {}, p)
    BY DEF IssueChildId, Place
  <2>3. Fits(a, {})'
    BY <2>2, PlainFits DEF Call, Plain, InOrder
  <2>4. Fits(b, {a})'
    <3>1. InOrder(b, {a}) /\ Puts({a}, p, n)
      BY <2>2 DEF Call, InOrder, Puts
    <3> QED BY <2>1, <2>2, <3>1 DEF Fits, Call, InOrder, Puts
  <2>5. FitLine(<<a, b>>)'
    BY <2>3, <2>4, FitLines
  <2> QED BY <2>1, <2>5, BeginWatches
<1>2. CASE PlaceIssued(o, p, n)
  <2>1. fresh' = fresh /\ n \notin fresh
    BY <1>2, ChildListsAssumption DEF PlaceIssued, WatchInv, Basics, FreshUnknown
  <2> PICK a, b : a = AddChildren(p, {n}) /\ b = Place(n, p)
    OBVIOUS
  <2>2. a = Call("add", p, {n}, None) /\ b = Call("place", n, {}, p)
    BY DEF AddChildren, Place
  <2>3. CASE p = None
    <3>1. Begin(o, <<b>>)
      BY <1>2, <2>3 DEF PlaceIssued
    <3>2. InOrder(b, {})
      BY <2>2 DEF Call, InOrder
    <3>3. Fits(b, {})'
      BY <2>1, <2>2, <2>3, <3>2 DEF Fits, Call, InOrder
    <3>4. FitLine(<<b>>)'
      BY <3>3, FitLines
    <3> QED BY <2>1, <3>1, <3>4, BeginWatches
  <2>4. CASE p # None
    <3>1. Begin(o, <<a, b>>)
      BY <1>2, <2>4 DEF PlaceIssued
    <3>2. Fits(a, {})'
      BY <2>2, PlainFits DEF Call, Plain, InOrder
    <3>3. InOrder(b, {a}) /\ Puts({a}, p, n)
      BY <2>2 DEF Call, InOrder, Puts
    <3>4. Fits(b, {a})'
      BY <2>1, <2>2, <3>3 DEF Fits, Call, InOrder, Puts
    <3>5. FitLine(<<a, b>>)'
      BY <3>2, <3>4, FitLines
    <3> QED BY <2>1, <3>1, <3>5, BeginWatches
  <2> QED BY <2>3, <2>4
<1>3. CASE InsertAbove(o, c, n)
  <2> PICK q : q = Parent(c)
    OBVIOUS
  <2> PICK a, b, d, e, f : /\ a = IssueChildId(q, n) /\ b = Accept(n, q) /\ d = AddChildren(n, {c})
                           /\ e = SetParent(c, n) /\ f = RemoveChild(q, c)
    OBVIOUS
  <2>1. Begin(o, <<a, b, d, e, f>>) /\ fresh' = fresh \ {n} /\ n \in fresh /\ q # None
    BY <1>3 DEF InsertAbove
  <2>2. /\ a = Call("issue", q, {n}, None) /\ b = Call("accept", n, {}, q)
        /\ d = Call("add", n, {c}, None) /\ e = Call("point", c, {}, n)
        /\ f = Call("drop", q, {c}, None)
    BY DEF IssueChildId, Accept, AddChildren, SetParent, RemoveChild
  <2>3. n # q
    BY <2>1 DEF WatchInv, Basics, PointersKnown, FreshUnknown, Known
  <2>4. Fits(a, {})'
    BY <2>2, PlainFits DEF Call, Plain, InOrder
  <2>5. Fits(b, {a})'
    <3>1. InOrder(b, {a}) /\ Puts({a}, q, n)
      BY <2>2 DEF Call, InOrder, Puts
    <3> QED BY <2>1, <2>2, <3>1 DEF Fits, Call, InOrder, Puts
  <2>6. Fits(d, {a, b})'
    BY <2>2, PlainFits DEF Call, Plain, InOrder
  <2>7. Fits(e, {a, b, d})'
    <3>1. InOrder(e, {a, b, d}) /\ Puts({a, b, d}, n, c)
      BY <2>2 DEF Call, InOrder, Puts
    <3> QED BY <2>2, <3>1 DEF Fits, Call, InOrder, Puts
  <2>8. Fits(f, {a, b, d, e})'
    <3>1. InOrder(f, {a, b, d, e}) /\ Takes({a, b, d, e}, c)
      BY <2>2, <2>3 DEF Call, InOrder, Takes
    <3> QED BY <2>2, <3>1 DEF Fits, Call, InOrder, Takes
  <2>9. FitLine(<<a, b, d, e, f>>)'
    BY <2>4, <2>5, <2>6, <2>7, <2>8, FitLines
  <2> QED BY <2>1, <2>9, BeginWatches
<1>4. CASE p \in Node /\ AddParentAbove(o, c, n, p)
  <2> PICK a, b, d, e : /\ a = IssueBasis(p) /\ b = Accept(n, None) /\ d = AddChildren(n, {c})
                        /\ e = SetParent(c, n)
    OBVIOUS
  <2>1. Begin(o, <<a, b, d, e>>) /\ fresh' = fresh \ {n}
    BY <1>4 DEF AddParentAbove
  <2>2. /\ a = Call("basis", p, {}, None) /\ b = Call("accept", n, {}, None)
        /\ d = Call("add", n, {c}, None) /\ e = Call("point", c, {}, n)
    BY DEF IssueBasis, Accept, AddChildren, SetParent
  <2>3. Fits(a, {})'
    BY <2>2, PlainFits DEF Call, Plain, InOrder
  <2>4. Fits(b, {a})'
    <3>1. InOrder(b, {a})
      BY <2>2 DEF Call, InOrder
    <3> QED BY <2>1, <2>2, <3>1 DEF Fits, Call, InOrder
  <2>5. Fits(d, {a, b})'
    BY <2>2, PlainFits DEF Call, Plain, InOrder
  <2>6. Fits(e, {a, b, d})'
    <3>1. InOrder(e, {a, b, d}) /\ Puts({a, b, d}, n, c)
      BY <2>2 DEF Call, InOrder, Puts
    <3> QED BY <2>2, <3>1 DEF Fits, Call, InOrder, Puts
  <2>7. FitLine(<<a, b, d, e>>)'
    BY <2>3, <2>4, <2>5, <2>6, FitLines
  <2> QED BY <2>1, <2>7, BeginWatches
<1> QED BY <1>1, <1>2, <1>3, <1>4

LEMMA MovingFits ==
  ASSUME ListsInv, WatchInv, NEW o \in Operator, NEW n \in Node, NEW q \in Node,
         NEW p \in Node \cup {None}, NEW override \in BOOLEAN, ~overlapped',
         ReplaceLost(o, n, q, p) \/ Rehome(o, n, q, override)
  PROVE  WatchInv'
<1>1. CASE ReplaceLost(o, n, q, p)
  <2> PICK a, b, d : a = MarkList(q, FALSE) /\ b = AcceptRetired(n, q) /\ d = RemoveChild(p, n)
    OBVIOUS
  <2>1. /\ a.do = "open" /\ a.at = q
        /\ b.do = "acceptRetired" /\ b.at = n /\ b.to = q
        /\ d.do = "drop" /\ d.kids = {n}
    BY DEF MarkList, AcceptRetired, RemoveChild, Call
  <2>2. /\ Begin(o, <<a, b>> \o IF p = None THEN <<>> ELSE <<d>>) /\ fresh' = fresh /\ node' = node
        /\ Known(n) /\ Known(q)
    BY <1>1 DEF ReplaceLost, Begin, Known, Active
  <2>3. Fits(a, {})'
    <3>1. InOrder(a, {}) /\ a.do \in Plain
      BY <2>1 DEF InOrder, Plain
    <3> QED BY <3>1, PlainFits
  <2>4. Fits(b, {a})'
    <3>1. InOrder(b, {a}) /\ Opens({a}, q)
      BY <2>1 DEF InOrder, Opens
    <3>2. Known(n)' /\ Known(q)'
      BY <2>2, NothingMoves
    <3> QED BY <2>1, <3>1, <3>2 DEF Fits, InOrder, Opens
  <2>5. Fits(d, {a, b})'
    <3>1. InOrder(d, {a, b}) /\ Takes({a, b}, n)
      BY <2>1 DEF InOrder, Takes
    <3> QED BY <2>1, <3>1 DEF Fits, InOrder, Takes
  <2>6. FitLine(<<a, b>>)' /\ FitLine(<<a, b, d>>)'
    BY <2>3, <2>4, <2>5, FitLines
  <2>7. <<a, b>> \o <<>> = <<a, b>> /\ <<a, b>> \o <<d>> = <<a, b, d>>
    BY JoinsOne, JoinsEmpty
  <2>8. Begin(o, <<a, b>>) \/ Begin(o, <<a, b, d>>)
    BY <2>2, <2>7
  <2> QED BY <2>2, <2>6, <2>8, BeginWatches
<1>2. CASE Rehome(o, n, q, override)
  <2> PICK old : old = Parent(n)
    OBVIOUS
  <2> PICK a, b, d : a = AddChildren(q, {n}) /\ b = SetParent(n, q) /\ d = RemoveChild(old, n)
    OBVIOUS
  <2>1. /\ a = Call("add", q, {n}, None) /\ b = Call("point", n, {}, q)
        /\ d = Call("drop", old, {n}, None)
    BY DEF AddChildren, SetParent, RemoveChild
  <2>2. /\ Begin(o, <<a, b>> \o IF old # None /\ Held(old) THEN <<d>> ELSE <<>>)
        /\ fresh' = fresh /\ old # q
    BY <1>2 DEF Rehome
  <2>3. Fits(a, {})'
    BY <2>1, PlainFits DEF Call, Plain, InOrder
  <2>4. Fits(b, {a})'
    <3>1. InOrder(b, {a}) /\ Puts({a}, q, n)
      BY <2>1 DEF Call, InOrder, Puts
    <3> QED BY <2>1, <3>1 DEF Fits, Call, InOrder, Puts
  <2>5. Fits(d, {a, b})'
    <3>1. InOrder(d, {a, b}) /\ Takes({a, b}, n)
      BY <2>1, <2>2 DEF Call, InOrder, Takes
    <3> QED BY <2>1, <3>1 DEF Fits, Call, InOrder, Takes
  <2>6. FitLine(<<a, b>>)' /\ FitLine(<<a, b, d>>)'
    BY <2>3, <2>4, <2>5, FitLines
  <2>7. <<a, b>> \o <<>> = <<a, b>> /\ <<a, b>> \o <<d>> = <<a, b, d>>
    BY JoinsOne, JoinsEmpty
  <2>8. Begin(o, <<a, b>>) \/ Begin(o, <<a, b, d>>)
    BY <2>2, <2>7
  <2> QED BY <2>2, <2>6, <2>8, BeginWatches
<1> QED BY <1>1, <1>2

(* Whoever follows a living node that is to be retired is on its list,     *)
(* strayed before, or its list says that it may miss some; and the list    *)
(* and that word are handed on.                                            *)
LEMMA AllHanded ==
  ASSUME ListsInv, WatchInv, NEW n \in Node, Active(n), node' = node,
         strayed' = {c \in strayed : Missing(c)},
         NEW heir \in Node, NEW before, NEW a, NEW b,
         a = AddChildren(heir, node[n].list \ {heir}), b = MarkList(heir, FALSE),
         node[n].list \subseteq {heir} \/ a \in before,
         node[n].complete \/ b \in before,
         \A p \in Node : Parent(n) = p \/ Hands(before, n, p) => p = heir
  PROVE  Handed(n, before)'
<1> SUFFICES ASSUME NEW p \in Node, NEW c \in Node,
                    Parent(n)' = p \/ Hands(before, n, p), c # p, Follows(c, n)'
             PROVE  c \in strayed' \/ Puts(before, p, c) \/ Opens(before, p)
  BY DEF Handed, Hands, Puts, Opens
<1>1. p = heir
  BY DEF Parent
<1>2. Follows(c, n)
  BY NothingMoves
<1>3. CASE c \in node[n].list
  <2>1. a \in before /\ a.do = "add" /\ a.at = p /\ c \in a.kids
    BY <1>1, <1>3 DEF AddChildren, Call
  <2> QED BY <2>1 DEF Puts
<1>4. CASE c \notin node[n].list /\ node[n].complete
  <2>1. Missing(c)
    BY <1>2, <1>4 DEF Missing, Living
  <2> QED BY <2>1 DEF WatchInv, NoneMissing
<1>5. CASE ~node[n].complete
  <2>1. b \in before /\ b.do = "open" /\ b.at = p
    BY <1>1, <1>5 DEF MarkList, Call
  <2> QED BY <2>1 DEF Opens
<1> QED BY <1>3, <1>4, <1>5

LEMMA HandingLines ==
  ASSUME NEW n \in Node, NEW heir \in Node
  PROVE  \E first :
           /\ first = Handing(n, heir) \o Opening(n, heir)
           /\ \/ node[n].list \subseteq {heir} /\ node[n].complete /\ first = <<>>
              \/ node[n].complete /\ first = <<AddChildren(heir, node[n].list \ {heir})>>
              \/ node[n].list \subseteq {heir} /\ first = <<MarkList(heir, FALSE)>>
              \/ first = <<AddChildren(heir, node[n].list \ {heir}), MarkList(heir, FALSE)>>
<1> PICK a, b : a = AddChildren(heir, node[n].list \ {heir}) /\ b = MarkList(heir, FALSE)
  OBVIOUS
<1>1. Handing(n, heir) = IF node[n].list \subseteq {heir} THEN <<>> ELSE <<a>>
  BY DEF Handing
<1>2. Opening(n, heir) = IF node[n].complete THEN <<>> ELSE <<b>>
  BY DEF Opening
<1>3. <<>> \o <<>> = <<>> /\ <<>> \o <<b>> = <<b>> /\ <<a>> \o <<>> = <<a>>
  BY JoinsEmpty
<1>4. <<a>> \o <<b>> = <<a, b>>
  BY JoinsBoth
<1> QED BY <1>1, <1>2, <1>3, <1>4

LEMMA HandingFits ==
  ASSUME NEW a, NEW b, NEW x, NEW y, NEW first, NEW calls, a.do = "add", b.do = "open",
         calls = first \o <<x, y>>,
         \/ first = <<>> /\ Fits(x, {})' /\ Fits(y, {x})'
         \/ first = <<a>> /\ Fits(x, {a})' /\ Fits(y, {a, x})'
         \/ first = <<b>> /\ Fits(x, {b})' /\ Fits(y, {b, x})'
         \/ first = <<a, b>> /\ Fits(x, {a, b})' /\ Fits(y, {a, b, x})'
  PROVE  FitLine(calls)'
<1>1. Fits(a, {})' /\ Fits(b, {})' /\ Fits(b, {a})'
  <2>1. InOrder(a, {}) /\ InOrder(b, {}) /\ InOrder(b, {a})
    BY DEF InOrder
  <2>2. a.do \in Plain /\ b.do \in Plain
    BY DEF Plain
  <2>3. Fits(a, {})'
    BY <2>1, <2>2, PlainFits
  <2>4. Fits(b, {})'
    BY <2>1, <2>2, PlainFits
  <2>5. Fits(b, {a})'
    BY <2>1, <2>2, PlainFits
  <2> QED BY <2>3, <2>4, <2>5
<1>2. Fits(x, {})' /\ Fits(y, {x})' => FitLine(<<x, y>>)'
  BY FitLines
<1>3. Fits(x, {a})' /\ Fits(y, {a, x})' => FitLine(<<a, x, y>>)'
  BY <1>1, FitLines
<1>4. Fits(x, {b})' /\ Fits(y, {b, x})' => FitLine(<<b, x, y>>)'
  BY <1>1, FitLines
<1>5. Fits(x, {a, b})' /\ Fits(y, {a, b, x})' => FitLine(<<a, b, x, y>>)'
  BY <1>1, FitLines
<1>6. first = <<>> => calls = <<x, y>>
  BY JoinsEmpty
<1>7. first = <<a>> => calls = <<a, x, y>>
  BY JoinsTwo
<1>8. first = <<b>> => calls = <<b, x, y>>
  BY JoinsTwo
<1>9. first = <<a, b>> => calls = <<a, b, x, y>>
  BY JoinsFour
<1> QED BY <1>2, <1>3, <1>4, <1>5, <1>6, <1>7, <1>8, <1>9

LEMMA RemovingFits ==
  ASSUME ListsInv, WatchInv, NEW o \in Operator, NEW n \in Node, NEW p \in Node, ~overlapped',
         RemoveNode(o, n) \/ RemoveTop(o, n, p)
  PROVE  WatchInv'
<1>1. CASE RemoveNode(o, n)
  <2> PICK q : q = Parent(n)
    OBVIOUS
  <2> PICK a, b, x, y, calls :
        /\ a = AddChildren(q, node[n].list \ {q}) /\ b = MarkList(q, FALSE)
        /\ x = Retire(n) /\ y = RemoveChild(q, n)
        /\ calls = Handing(n, q) \o Opening(n, q) \o <<x, y>>
    OBVIOUS
  <2>1. Begin(o, calls) /\ fresh' = fresh /\ Active(n) /\ q \in Node
    BY <1>1 DEF RemoveNode, ListsInv, RecordsOK, Record, Parent
  <2>2. node' = node /\ strayed' = {c \in strayed : Missing(c)}
    BY <2>1 DEF Begin
  <2>3. /\ x.do = "retire" /\ x.at = n
        /\ y.do = "drop" /\ y.kids = {n}
        /\ a.do = "add" /\ b.do = "open"
    BY DEF Retire, RemoveChild, AddChildren, MarkList, Call
  <2>4. ASSUME NEW before \in SUBSET {a, b},
               node[n].list \subseteq {q} \/ a \in before, node[n].complete \/ b \in before
        PROVE  Fits(x, before)' /\ Fits(y, before \cup {x})'
    <3>1. InOrder(x, before) /\ \A m \in Node : ~Hands(before, n, m)
      BY <2>3 DEF InOrder, Hands
    <3>2. Handed(n, before)'
      BY <2>1, <2>2, <2>4, <3>1, AllHanded
    <3>3. Fits(x, before)'
      BY <2>3, <3>1, <3>2 DEF Fits, InOrder
    <3>4. InOrder(y, before \cup {x}) /\ Takes(before \cup {x}, n)
      BY <2>3 DEF InOrder, Takes
    <3>5. Fits(y, before \cup {x})'
      BY <2>3, <3>4 DEF Fits, InOrder, Takes
    <3> QED BY <3>3, <3>5
  <2>5. FitLine(calls)'
    <3>1. \A before \in SUBSET {a, b} :
            (node[n].list \subseteq {q} \/ a \in before) /\ (node[n].complete \/ b \in before)
              => Fits(x, before)' /\ Fits(y, before \cup {x})'
      BY <2>4
    <3>2. node[n].list \subseteq {q} /\ node[n].complete => Fits(x, {})' /\ Fits(y, {x})'
      <4> PICK before, more : before = {} /\ more = before \cup {x}
        OBVIOUS
      <4>1. before \in SUBSET {a, b} /\ more = {x}
        OBVIOUS
      <4> QED BY <3>1, <4>1
    <3>3. node[n].complete => Fits(x, {a})' /\ Fits(y, {a, x})'
      <4> PICK before, more : before = {a} /\ more = before \cup {x}
        OBVIOUS
      <4>1. before \in SUBSET {a, b} /\ more = {a, x}
        OBVIOUS
      <4> QED BY <3>1, <4>1
    <3>4. node[n].list \subseteq {q} => Fits(x, {b})' /\ Fits(y, {b, x})'
      <4> PICK before, more : before = {b} /\ more = before \cup {x}
        OBVIOUS
      <4>1. before \in SUBSET {a, b} /\ more = {b, x}
        OBVIOUS
      <4> QED BY <3>1, <4>1
    <3>5. Fits(x, {a, b})' /\ Fits(y, {a, b, x})'
      <4> PICK before, more : before = {a, b} /\ more = before \cup {x}
        OBVIOUS
      <4>1. before \in SUBSET {a, b} /\ more = {a, b, x}
        OBVIOUS
      <4> QED BY <3>1, <4>1
    <3>6. PICK first :
           /\ first = Handing(n, q) \o Opening(n, q)
           /\ \/ node[n].list \subseteq {q} /\ node[n].complete /\ first = <<>>
              \/ node[n].complete /\ first = <<a>>
              \/ node[n].list \subseteq {q} /\ first = <<b>>
              \/ first = <<a, b>>
      BY <2>1, HandingLines
    <3>7. \/ first = <<>> /\ Fits(x, {})' /\ Fits(y, {x})'
          \/ first = <<a>> /\ Fits(x, {a})' /\ Fits(y, {a, x})'
          \/ first = <<b>> /\ Fits(x, {b})' /\ Fits(y, {b, x})'
          \/ first = <<a, b>> /\ Fits(x, {a, b})' /\ Fits(y, {a, b, x})'
      BY <3>2, <3>3, <3>4, <3>5, <3>6
    <3>8. calls = first \o <<x, y>>
      BY <3>6
    <3> QED BY <2>3, <3>7, <3>8, HandingFits
  <2> QED BY <2>1, <2>5, BeginWatches
<1>2. CASE RemoveTop(o, n, p)
  <2>1. fresh' = fresh /\ Active(n) /\ Parent(n) = None
    BY <1>2 DEF RemoveTop
  <2> PICK a, b, x, y, calls :
        /\ a = AddChildren(p, node[n].list \ {p}) /\ b = MarkList(p, FALSE)
        /\ x = HandTo(n, p) /\ y = Retire(n)
        /\ calls = Handing(n, p) \o Opening(n, p) \o <<x, y>>
    OBVIOUS
  <2>2. /\ x.do = "hand" /\ x.at = n /\ x.to = p
        /\ y.do = "retire" /\ y.at = n
        /\ a.do = "add" /\ b.do = "open"
    BY DEF Retire, HandTo, AddChildren, MarkList, Call
  <2>3. CASE node[n].list = {} /\ node[n].complete
    <3>1. Begin(o, <<y>>)
      BY <1>2, <2>3 DEF RemoveTop
    <3>2. InOrder(y, {}) /\ \A m \in Node : ~Hands({}, n, m)
      BY <2>2 DEF InOrder, Hands
    <3>3. \A m \in Node : Parent(n)' # m
      BY <2>1, <3>1, NothingMoves, ChildListsAssumption DEF Begin
    <3>4. Handed(n, {})'
      BY <3>2, <3>3 DEF Handed, Hands
    <3>5. Fits(y, {})'
      BY <2>2, <3>2, <3>4 DEF Fits, InOrder
    <3>6. FitLine(<<y>>)'
      BY <3>5, FitLines
    <3> QED BY <2>1, <3>1, <3>6, BeginWatches
  <2>4. CASE ~(node[n].list = {} /\ node[n].complete)
    <3>1. Begin(o, calls) /\ Held(p)
      BY <1>2, <2>4 DEF RemoveTop
    <3>2. node' = node /\ strayed' = {c \in strayed : Missing(c)}
      BY <3>1 DEF Begin
    <3>3. Known(p)'
      BY <3>1, <3>2, NothingMoves DEF Held, Known
    <3>4. ASSUME NEW before \in SUBSET {a, b},
                 node[n].list \subseteq {p} \/ a \in before, node[n].complete \/ b \in before
          PROVE  Fits(x, before)' /\ Fits(y, before \cup {x})'
      <4>1. InOrder(x, before)
        BY <2>2 DEF InOrder
      <4>2. Fits(x, before)'
        BY <2>2, <3>3, <4>1 DEF Fits, InOrder
      <4>3. InOrder(y, before \cup {x}) /\ \A m \in Node : Hands(before \cup {x}, n, m) => m = p
        BY <2>2 DEF InOrder, Hands
      <4> PICK all : all = before \cup {x}
        OBVIOUS
      <4>4. \A m \in Node : Parent(n) = m \/ Hands(all, n, m) => m = p
        BY <2>1, <4>3, ChildListsAssumption
      <4>5. Handed(n, all)'
        BY <2>1, <3>2, <3>4, <4>4, AllHanded
      <4>6. Fits(y, all)'
        BY <2>2, <4>3, <4>5 DEF Fits, InOrder
      <4> QED BY <4>2, <4>6
    <3>5. FitLine(calls)'
      <4>1. \A before \in SUBSET {a, b} :
              (node[n].list \subseteq {p} \/ a \in before) /\ (node[n].complete \/ b \in before)
                => Fits(x, before)' /\ Fits(y, before \cup {x})'
        BY <3>4
      <4>2. node[n].list \subseteq {p} /\ node[n].complete => Fits(x, {})' /\ Fits(y, {x})'
        <5> PICK before, more : before = {} /\ more = before \cup {x}
          OBVIOUS
        <5>1. before \in SUBSET {a, b} /\ more = {x}
          OBVIOUS
        <5> QED BY <4>1, <5>1
      <4>3. node[n].complete => Fits(x, {a})' /\ Fits(y, {a, x})'
        <5> PICK before, more : before = {a} /\ more = before \cup {x}
          OBVIOUS
        <5>1. before \in SUBSET {a, b} /\ more = {a, x}
          OBVIOUS
        <5> QED BY <4>1, <5>1
      <4>4. node[n].list \subseteq {p} => Fits(x, {b})' /\ Fits(y, {b, x})'
        <5> PICK before, more : before = {b} /\ more = before \cup {x}
          OBVIOUS
        <5>1. before \in SUBSET {a, b} /\ more = {b, x}
          OBVIOUS
        <5> QED BY <4>1, <5>1
      <4>5. Fits(x, {a, b})' /\ Fits(y, {a, b, x})'
        <5> PICK before, more : before = {a, b} /\ more = before \cup {x}
          OBVIOUS
        <5>1. before \in SUBSET {a, b} /\ more = {a, b, x}
          OBVIOUS
        <5> QED BY <4>1, <5>1
      <4>6. PICK first :
             /\ first = Handing(n, p) \o Opening(n, p)
             /\ \/ node[n].list \subseteq {p} /\ node[n].complete /\ first = <<>>
                \/ node[n].complete /\ first = <<a>>
                \/ node[n].list \subseteq {p} /\ first = <<b>>
                \/ first = <<a, b>>
        BY HandingLines
      <4>7. \/ first = <<>> /\ Fits(x, {})' /\ Fits(y, {x})'
            \/ first = <<a>> /\ Fits(x, {a})' /\ Fits(y, {a, x})'
            \/ first = <<b>> /\ Fits(x, {b})' /\ Fits(y, {b, x})'
            \/ first = <<a, b>> /\ Fits(x, {a, b})' /\ Fits(y, {a, b, x})'
        BY <4>2, <4>3, <4>4, <4>5, <4>6
      <4>8. calls = first \o <<x, y>>
        BY <4>6
      <4> QED BY <2>2, <4>7, <4>8, HandingFits
    <3> QED BY <2>1, <3>1, <3>5, BeginWatches
  <2> QED BY <2>3, <2>4
<1> QED BY <1>1, <1>2

LEMMA ListingFits ==
  ASSUME ListsInv, WatchInv, NEW o \in Operator, NEW n \in Node, NEW p \in Node, ~overlapped',
         RetireAway(o, n, p) \/ CheckChild(o, p, n) \/ MarkChildList(o, n)
  PROVE  WatchInv'
<1>1. CASE RetireAway(o, n, p) \/ CheckChild(o, p, n)
  <2> PICK a, b : a = RetireChild(p, n) /\ b = SweepChild(p, n)
    OBVIOUS
  <2>1. (Begin(o, <<a>>) \/ Begin(o, <<b>>)) /\ fresh' = fresh
    BY <1>1 DEF RetireAway, CheckChild
  <2>2. Fits(a, {})' /\ Fits(b, {})'
    <3>1. a.do = "retireChild" /\ b.do = "sweep"
      BY DEF RetireChild, SweepChild, Call
    <3> QED BY <3>1, PlainFits DEF Plain, InOrder
  <2>3. FitLine(<<a>>)' /\ FitLine(<<b>>)'
    BY <2>2, FitLines
  <2> QED BY <2>1, <2>3, BeginWatches
<1>2. CASE MarkChildList(o, n)
  <2> PICK a : a = MarkList(n, TRUE)
    OBVIOUS
  <2>1. /\ Begin(o, <<a>>) /\ fresh' = fresh /\ node' = node
        /\ \A c \in Node : Follows(c, n) => c \in node[n].list
    BY <1>2 DEF MarkChildList, Begin
  <2>2. a.do = "complete" /\ a.at = n
    BY DEF MarkList, Call
  <2>3. \A c \in Node : Follows(c, n)' => c \in node'[n].list \cup strayed'
    BY <2>1, NothingMoves
  <2>4. Fits(a, {})'
    BY <2>2, <2>3 DEF Fits, InOrder
  <2>5. FitLine(<<a>>)'
    BY <2>4, FitLines
  <2> QED BY <2>1, <2>5, BeginWatches
<1> QED BY <1>1, <1>2

-----------------------------------------------------------------------------

LEMMA InitWatches == ASSUME Init PROVE WatchInv
<1>1. /\ \A n \in Node : node[n] = IF n \in DOMAIN Start
                                  THEN [Recorded(Start[n], "ACTIVE") EXCEPT
                                          !.list = {c \in DOMAIN Start : Start[c] = n}]
                                  ELSE Recorded(None, "NONE")
      /\ fresh = Fresh /\ strayed = {}
      /\ \A t \in Talker : todo[t] = <<>>
  BY DEF Init
<1>2. \A n \in Node : n \in DOMAIN Start =>
        /\ node[n].status = "ACTIVE" /\ node[n].marked = {} /\ node[n].up = Start[n]
        /\ node[n].list = {c \in DOMAIN Start : Start[c] = n}
  <2> SUFFICES ASSUME NEW n \in Node, n \in DOMAIN Start
               PROVE  /\ node[n].status = "ACTIVE" /\ node[n].marked = {} /\ node[n].up = Start[n]
                      /\ node[n].list = {c \in DOMAIN Start : Start[c] = n}
    OBVIOUS
  <2> PICK kids : kids = {c \in DOMAIN Start : Start[c] = n}
    OBVIOUS
  <2>1. node[n] = [Recorded(Start[n], "ACTIVE") EXCEPT !.list = kids]
    BY <1>1
  <2> QED BY <2>1 DEF Recorded
<1>3. \A n \in Node : n \notin DOMAIN Start =>
        node[n].status = "NONE" /\ node[n].marked = {} /\ node[n].up = None
  <2> SUFFICES ASSUME NEW n \in Node, n \notin DOMAIN Start
               PROVE  node[n].status = "NONE" /\ node[n].marked = {} /\ node[n].up = None
    OBVIOUS
  <2>1. node[n] = Recorded(None, "NONE")
    BY <1>1
  <2> QED BY <2>1 DEF Recorded
<1>4. Basics
  <2>1. PointersKnown
    <3> SUFFICES ASSUME NEW n \in Node, Parent(n) # None PROVE Known(Parent(n))
      BY DEF PointersKnown
    <3>1. n \in DOMAIN Start /\ Parent(n) \in DOMAIN Start
      BY <1>2, <1>3, ChildListsAssumption DEF Parent
    <3> QED BY <1>2, <3>1, ChildListsAssumption DEF Known
  <2>2. FreshUnknown
    BY <1>1, <1>3, ChildListsAssumption DEF FreshUnknown, Known
  <2>3. MarkedSeated
    BY <1>2, <1>3 DEF MarkedSeated
  <2> QED BY <2>1, <2>2, <2>3 DEF Basics
<1>5. Alone /\ OwnCallsFit /\ TalkCallsFit
  BY <1>1 DEF Alone, OwnCallsFit, OwnLine, TalkCallsFit, FitLine, Talker
<1>6. NoneMissing
  <2> SUFFICES ASSUME NEW c \in Node, Missing(c) PROVE FALSE
    BY DEF NoneMissing
  <2>1. PICK h \in Living : Follows(c, h) /\ c \notin node[h].list
    BY DEF Missing
  <2>2. Parent(c) = None \/ ~Retired(Parent(c))
    BY <1>2, <1>3, ChildListsAssumption DEF Parent, Retired
  <2>3. h = Parent(c)
    BY <2>1, <2>2, WayOfOne DEF Follows
  <2>4. c \in DOMAIN Start /\ h \in DOMAIN Start /\ h \in Node
    BY <1>3, <2>1 DEF Follows, Active, Living
  <2> QED BY <1>2, <2>1, <2>3, <2>4 DEF Parent
<1> QED BY <1>4, <1>5, <1>6 DEF WatchInv

LEMMA StepWatches == ASSUME ListsInv, WatchInv, [Next]_vars, ~overlapped' PROVE WatchInv'
<1>1. ASSUME NEW o \in Operator, Conversation(o) PROVE WatchInv'
  <2>1. CASE \/ \E p, n \in Node : CreateNode(o, p, n)
             \/ \E p \in Node \cup {None}, n \in Node : PlaceIssued(o, p, n)
             \/ \E c, n \in Node : InsertAbove(o, c, n)
             \/ \E top, n, issuer \in Node : AddParentAbove(o, top, n, issuer)
    BY <2>1, PlacingFits
  <2>2. CASE \/ \E lost, r \in Node, p \in Node \cup {None} : ReplaceLost(o, lost, r, p)
             \/ \E n, q \in Node, override \in BOOLEAN : Rehome(o, n, q, override)
    BY <2>2, MovingFits
  <2>3. CASE \/ \E n \in Node : RemoveNode(o, n)
             \/ \E n, heir \in Node : RemoveTop(o, n, heir)
    BY <2>3, RemovingFits
  <2>4. CASE \/ \E n, p \in Node : RetireAway(o, n, p)
             \/ \E p, c \in Node : CheckChild(o, p, c)
             \/ \E n \in Node : MarkChildList(o, n)
    BY <2>4, ListingFits
  <2> QED BY <1>1, <2>1, <2>2, <2>3, <2>4 DEF Conversation
<1>2. ASSUME NEW t \in Talker, Answered(t) \/ Refused(t) \/ CutOff(t) PROVE WatchInv'
  BY <1>2, CallsWatch
<1>3. ASSUME NEW c \in Node, CheckIn(c) \/ Vanish(c) PROVE WatchInv'
  BY <1>3, CheckInWatches, VanishWatches
<1>4. ASSUME NEW k \in late, LateCall(k) PROVE WatchInv'
  BY <1>4 DEF LateCall
<1>5. CASE UNCHANGED vars
  <2>1. /\ Basics' /\ NoneMissing'
        /\ \A o \in Operator : \A calls : calls = todo[o] => FitLine(calls)'
        /\ \A c \in Node : \A calls : calls = todo[c] => OwnLine(c, calls)'
    BY <1>5, QuietStep DEF vars
  <2>2. todo' = todo
    BY <1>5 DEF vars
  <2>3. TalkCallsFit'
    <3>1. ASSUME NEW o \in Operator, NEW calls, calls = todo'[o] PROVE FitLine(calls)'
      BY <2>1, <2>2, <3>1
    <3> QED BY <3>1 DEF TalkCallsFit
  <2>4. OwnCallsFit'
    <3>1. ASSUME NEW c \in Node, NEW calls, calls = todo'[c] PROVE OwnLine(c, calls)'
      BY <2>1, <2>2, <3>1
    <3> QED BY <3>1 DEF OwnCallsFit
  <2>5. Alone'
    BY <2>2 DEF WatchInv, Alone
  <2> QED BY <2>1, <2>3, <2>4, <2>5 DEF WatchInv
<1> QED BY <1>1, <1>2, <1>3, <1>4, <1>5 DEF Next

(* Conversations that overlapped did so for good. *)
LEMMA OverlapStays == ASSUME [Next]_vars, overlapped PROVE overlapped'
<1>1. ASSUME NEW o \in Operator, Conversation(o) PROVE overlapped'
  <2>1. ASSUME NEW calls, Begin(o, calls) PROVE overlapped'
    BY <2>1 DEF Begin
  <2>2. ASSUME NEW n \in Node, NEW p \in Node, NEW heir \in Node \cup {None}, NEW c \in Node,
               NEW override \in BOOLEAN,
               \/ CreateNode(o, p, n) \/ PlaceIssued(o, heir, n) \/ InsertAbove(o, c, n)
               \/ AddParentAbove(o, c, n, p) \/ ReplaceLost(o, n, p, heir) \/ Rehome(o, n, p, override)
               \/ RemoveNode(o, n) \/ RemoveTop(o, n, p) \/ RetireAway(o, n, p)
               \/ CheckChild(o, p, n) \/ MarkChildList(o, n)
        PROVE  \E calls : Begin(o, calls)
    BY <2>2 DEF CreateNode, PlaceIssued, InsertAbove, AddParentAbove, ReplaceLost, Rehome,
                RemoveNode, RemoveTop, RetireAway, CheckChild, MarkChildList
  <2> QED BY <1>1, <2>1, <2>2 DEF Conversation
<1>2. ASSUME NEW t \in Talker, Answered(t) \/ Refused(t) \/ CutOff(t) PROVE overlapped'
  BY <1>2 DEF Answered, Refused, CutOff
<1>3. ASSUME NEW c \in Node, CheckIn(c) \/ Vanish(c) PROVE overlapped'
  BY <1>3 DEF CheckIn, Vanish
<1>4. ASSUME NEW k \in late, LateCall(k) PROVE overlapped'
  BY <1>4 DEF LateCall
<1>5. CASE UNCHANGED vars
  BY <1>5 DEF vars
<1> QED BY <1>1, <1>2, <1>3, <1>4, <1>5 DEF Next

LEMMA WatchedInvHolds == Spec => []WatchedInv
<1>1. Init => WatchedInv
  BY InitLists, InitWatches DEF WatchedInv
<1>2. WatchedInv /\ [Next]_vars => WatchedInv'
  BY StepLists, StepWatches, OverlapStays DEF WatchedInv
<1> QED BY <1>1, <1>2, PTL DEF Spec

(* A list may name too many children, never too few: wherever conversations *)
(* stop, whatever is lost and whoever checks in or repairs its pointer     *)
(* meanwhile, a living child is on the list of each living node it follows, *)
(* unless that list says it may miss some or the child strayed in a way    *)
(* NeverTooFew names (the order of the calls in conversations.ts).         *)
THEOREM ListsNeverTooFew == Spec => []NeverTooFew
<1>1. WatchedInv => NeverTooFew
  BY DEF WatchedInv, WatchInv, NoneMissing, NeverTooFew
<1> QED BY <1>1, WatchedInvHolds, PTL
=============================================================================
