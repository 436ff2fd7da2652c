----------------------------- MODULE ChildLists -----------------------------
(***************************************************************************)
(* The tree as its nodes' records hold it (src/topology/local-nodes.ts,    *)
(* src/topology/conversations.ts, src/topology/prisma-local-node-store.ts). *)
(*                                                                         *)
(* Each node's own Core keeps its parent pointer, its list of direct       *)
(* children and whether that list is complete.  The pointer is the truth;  *)
(* a list may hold too many entries, never too few.  A node is moved,      *)
(* inserted or removed by a conversation: it reads the nodes concerned,    *)
(* then asks their Cores, one after the other, for single-node operations. *)
(* A call may be refused, may be lost, may be done with its answer lost,   *)
(* and may be done long after its caller gave up; the conversation then    *)
(* ends where it is.  Meanwhile every node checks in with its parent and,  *)
(* finding it retired, follows the chain of pointers to a living ancestor. *)
(*                                                                         *)
(* A conversation's reads are one step, at its start; its calls are steps  *)
(* of their own.  A node's type never changes, so it is a constant of its  *)
(* ID.  Addresses, bases, seats and suspension are left out here.          *)
(***************************************************************************)
EXTENDS NodeTypes, Sequences, FiniteSets

CONSTANTS
  Node,         \* the IDs that are or may become nodes
  Type,         \* the type each is recorded with
  Start,        \* the nodes recorded at the start, and each one's parent
  None,         \* no node
  Fresh,        \* IDs that may still be issued for a new node
  Ordinary,     \* IDs issued for something else, which may be placed as nodes
  MayVanish,    \* nodes whose machine may be lost for good
  Operator,     \* who starts conversations, each one at a time
  MaxTalks,     \* bound: conversations in all
  MaxCuts,      \* bound: calls that are lost or whose answer is
  MaxBusy       \* bound: nodes checking in at the same time

ASSUME ChildListsAssumption ==
  /\ None \notin Node
  /\ Operator \cap Node = {}
  /\ IsFiniteSet(Node)
  /\ Type \in [Node -> NodeType]
  /\ DOMAIN Start \subseteq Node
  /\ Start \in [DOMAIN Start -> DOMAIN Start \cup {None}]
  /\ \A n \in DOMAIN Start : Start[n] # None => MayHold(Type[Start[n]], Type[n])
  /\ Fresh \subseteq Node \ DOMAIN Start
  /\ Ordinary \subseteq Node \ (DOMAIN Start \cup Fresh)
  /\ MayVanish \subseteq Node
  /\ {MaxTalks, MaxCuts, MaxBusy} \subseteq Nat

VARIABLES
  node,         \* the node records
  fresh,        \* the IDs not issued yet
  todo,         \* the calls each talker, an operator or a node, still has to make
  late,         \* calls given up by their caller that may still be done
  talks, cuts,  \* how many conversations, and how many calls lost, so far
  strayed,      \* history: nodes that were left off a list in a way NeverTooFew names
  overlapped    \* history: conversations overlapped (no guard reads either)

vars == <<node, fresh, todo, late, talks, cuts, strayed, overlapped>>

Talker == Operator \cup Node

(* GONE: recorded on a machine that will never answer again. *)
Record ==
  [status : {"NONE", "ACTIVE", "RETIRED", "GONE"}, up : Node \cup {None},
   list : SUBSET Node, marked : SUBSET Node, complete : BOOLEAN]

Recorded(p, status) ==
  [status |-> status, up |-> p, list |-> {}, marked |-> {}, complete |-> TRUE]

Init ==
  /\ node = [n \in Node |->
       IF n \in DOMAIN Start
       THEN [Recorded(Start[n], "ACTIVE") EXCEPT !.list = {c \in DOMAIN Start : Start[c] = n}]
       ELSE Recorded(None, "NONE")]
  /\ fresh = Fresh
  /\ todo = [t \in Talker |-> <<>>]
  /\ late = {}
  /\ talks = 0
  /\ cuts = 0
  /\ strayed = {}
  /\ overlapped = FALSE

Active(n) == node[n].status = "ACTIVE"
Held(n) == node[n].status \in {"ACTIVE", "RETIRED"}     \* its Core answers for it
Living == {n \in Node : Active(n)}
Parent(n) == node[n].up

-----------------------------------------------------------------------------
(* Walking up.                                                             *)

(* The nodes met from n: the walk ends at a top node or one that does not *)
(* answer, whose pointer nobody can read.                                 *)
Upward(m) == IF m = None \/ ~Held(m) THEN None ELSE Parent(m)
Climb(n) ==
  LET at[k \in 0 .. Cardinality(Node)] == IF k = 0 THEN n ELSE Upward(at[k - 1])
  IN at

(* More steps than nodes: the walk came round, and walkUp throws. *)
OnACycle(n) == Climb(n)[Cardinality(Node)] # None

Above(n) == {Climb(n)[k] : k \in 1 .. Cardinality(Node)} \ {None}

(* The way from n past retired nodes to the first that is not, or to none.  *)
RetiredFrom(p) ==
  LET retired == {r \in Node : node[r].status = "RETIRED"}
      closed == {S \in SUBSET retired : \A r \in S : Parent(r) \in retired => Parent(r) \in S}
  IN {r \in retired : \A S \in closed : (p \in retired => p \in S) => r \in S}
Way(n) == {Parent(n)} \cup {Parent(r) : r \in RetiredFrom(Parent(n))}

(* nearestLiveAncestor *)
Heir(n) ==
  LET living == Way(n) \cap Living
  IN IF OnACycle(n) \/ living = {} THEN None ELSE CHOOSE h \in living : TRUE

-----------------------------------------------------------------------------
(* Single-node operations.  A call asks the Core that holds "at" for one.  *)

Call(do, at, kids, to) == [do |-> do, at |-> at, kids |-> kids, to |-> to]

AddChildren(p, kids) == Call("add", p, kids, None)
RemoveChild(p, c) == Call("drop", p, {c}, None)
SweepChild(p, c) == Call("sweep", p, {c}, None)           \* removeChild, asked by checkChildren
UndoChild(p, c) == Call("undo", p, {c}, None)             \* removeChild, after a failed accept
SetParent(n, p) == Call("point", n, {}, p)
HandTo(n, heir) == Call("hand", n, {}, heir)              \* setParent of a top node removed
Retire(n) == Call("retire", n, {}, None)
MarkList(n, complete) == Call(IF complete THEN "complete" ELSE "open", n, {}, None)
IssueChildId(p, n) == Call("issue", p, {n}, None)
IssueBasis(i) == Call("basis", i, {}, None)
Accept(n, p) == Call("accept", n, {}, p)
Place(n, p) == Call("place", n, {}, p)                    \* accept, undone if it was plainly not done
AcceptRetired(n, r) == Call("acceptRetired", n, {}, r)
RetireChild(p, c) == Call("retireChild", p, {c}, None)
AskParent(c, p) == Call("checkIn", p, {c}, c)
Repair(c) == Call("repair", c, {}, None)

Removals == {"drop", "sweep", "undo"}

(* Fault: the types are not compared. *)
MayGainAny(p, kids) == Active(p)

(* Only an active node gains children, of types it may hold, never itself. *)
MayGain(p, kids) ==
  /\ Active(p)
  /\ p \notin kids
  /\ \A c \in kids : MayHold(Type[p], Type[c])

(* Whether the Core does what it is asked.  A retired parent answers a     *)
(* check-in, with its own pointer; it is not refused.                      *)
Accepts(k) ==
  CASE k.do \in {"add", "issue"} -> MayGain(k.at, k.kids)
    [] k.do = "checkIn" -> Held(k.at) /\ (Active(k.at) => MayGain(k.at, k.kids))
    [] k.do \in {"point", "hand"} -> Active(k.at) /\ k.to # k.at
    [] k.do \in {"basis", "retire"} -> Active(k.at)
    [] k.do \in {"accept", "place"} -> node[k.at].status = "NONE"
    [] k.do = "acceptRetired" -> ~Held(k.at)              \* on the replacement's Core
    [] k.do = "retireChild" -> Held(k.at) /\ \A c \in k.kids : Type[c] \in Seated
    [] OTHER -> Held(k.at)                                \* removals, completeness, repair

(* Fault: a check-in only stamps; an entry that is missing stays so. *)
StampedOnly(r, kids) == r

(* An entry that is missing is added; a retired parent stamps nothing. *)
CheckedIn(r, kids) == IF r.status = "ACTIVE" THEN [r EXCEPT !.list = @ \cup kids] ELSE r

(* The record afterwards.  Adding a child that is listed keeps its mark. *)
After(k) ==
  LET r == node[k.at]
  IN CASE k.do \in {"add", "issue"} -> [r EXCEPT !.list = @ \cup k.kids]
       [] k.do = "checkIn" -> CheckedIn(r, k.kids)
       [] k.do \in Removals -> [r EXCEPT !.list = @ \ k.kids, !.marked = @ \ k.kids]
       [] k.do \in {"point", "hand"} -> [r EXCEPT !.up = k.to]
       [] k.do = "retire" -> [r EXCEPT !.status = "RETIRED"]
       [] k.do = "complete" -> [r EXCEPT !.complete = TRUE]
       [] k.do = "open" -> [r EXCEPT !.complete = FALSE]
       [] k.do \in {"accept", "place"} -> Recorded(k.to, "ACTIVE")
       [] k.do = "acceptRetired" -> Recorded(k.to, "RETIRED")
       [] k.do = "retireChild" -> [r EXCEPT !.list = @ \cup k.kids, !.marked = @ \cup k.kids]
       [] OTHER -> r

(* A living child that would follow n, past retired nodes. *)
Follows(c, n) == Active(c) /\ c # n /\ n \in Way(c)

(* The living node it would follow lists it or says that its list may miss *)
(* some.                                                                   *)
Missing(c) == \E h \in Living : Follows(c, h) /\ c \notin node[h].list /\ node[h].complete

(* A record is retired, and no living node is told that it takes over:     *)
(* there is none right above, or it is a user's or machine's, without list. *)
Unannounced(k) ==
  /\ k.do \in {"retire", "acceptRetired"}
  /\ Type[k.at] \in Seated \/ After(k).up \notin Living

(* Whom it may leave off a list. *)
Strays(k) ==
  CASE k.do = "sweep" -> k.kids
    [] k.do = "hand" -> {k.at}
    [] Unannounced(k) -> {c \in Node : Follows(c, k.at)}
    [] OTHER -> {}

Do(k) ==
  /\ node' = [node EXCEPT ![k.at] = After(k)]
  /\ strayed' = strayed \cup Strays(k)

(* Another talker is about to change the same node's pointer or to retire  *)
(* the node.                                                               *)
Changes == {"point", "hand", "retire"}
Collides(t, k) ==
  /\ k.do \in Changes
  /\ \E u \in Talker \ {t} : \E i \in DOMAIN todo[u] : todo[u][i].at = k.at /\ todo[u][i].do \in Changes

-----------------------------------------------------------------------------
(* What follows a call.                                                    *)

(* Fault: a chain without a living node is not an early return. *)
RepairAnyhow(c) ==
  LET p == Parent(c)
  IN IF p # None /\ Held(p) /\ ~Active(p)
     THEN <<AddChildren(Heir(c), {c}), SetParent(c, Heir(c))>>
     ELSE <<>>

(* repairParent: past a retired parent, the nearest living ancestor. *)
RepairParent(c) ==
  LET p == Parent(c)
  IN IF p # None /\ Held(p) /\ ~Active(p) /\ Heir(c) \in Node
     THEN <<AddChildren(Heir(c), {c}), SetParent(c, Heir(c))>>
     ELSE <<>>

(* Fault: the answer that the child was retired while away is not heeded. *)
AnswerUnheeded(p, c) == IF Active(p) THEN <<>> ELSE <<Repair(c)>>

(* What a child does with its parent's answer. *)
HeedAnswer(p, c) ==
  IF ~Active(p) THEN <<Repair(c)>>
  ELSE IF c \in node[p].marked THEN <<Retire(c)>>
  ELSE <<>>

Follow(k) ==
  CASE k.do = "checkIn" -> HeedAnswer(k.at, k.to)
    [] k.do = "repair" -> RepairParent(k.at)
    [] OTHER -> <<>>

(* A refused or failed call ends the conversation; only a node's placement *)
(* is undone, when the new node's Core says plainly that it is not held.   *)
Undone(k) ==
  IF k.do = "place" /\ k.to # None /\ node[k.at].status = "NONE"
  THEN {<<>>, <<UndoChild(k.to, k.at)>>}
  ELSE {<<>>}

Answered(t) ==
  /\ todo[t] # <<>>
  /\ Accepts(Head(todo[t]))
  /\ todo' = [todo EXCEPT ![t] = Follow(Head(@)) \o Tail(@)]
  /\ Do(Head(todo[t]))
  /\ overlapped' = (overlapped \/ Collides(t, Head(todo[t])))
  /\ UNCHANGED <<fresh, late, talks, cuts>>

Refused(t) ==
  /\ todo[t] # <<>>
  /\ ~Accepts(Head(todo[t]))
  /\ \E rest \in Undone(Head(todo[t])) : todo' = [todo EXCEPT ![t] = rest]
  /\ UNCHANGED <<node, fresh, late, talks, cuts, strayed, overlapped>>

(* The call, or its answer, is lost on the way, or the caller's time runs  *)
(* out first and it is still to come.                                      *)
CutOff(t) ==
  LET k == Head(todo[t])
  IN /\ todo[t] # <<>>
     /\ cuts < MaxCuts
     /\ cuts' = cuts + 1
     /\ \/ /\ late' \in {late, late \cup {k}}
           /\ \E rest \in Undone(k) : todo' = [todo EXCEPT ![t] = rest]
           /\ UNCHANGED <<node, strayed, overlapped>>
        \/ /\ Accepts(k)
           /\ Do(k)
           /\ todo' = [todo EXCEPT ![t] = <<>>]
           /\ overlapped' = (overlapped \/ Collides(t, k))
           /\ UNCHANGED late
     /\ UNCHANGED <<fresh, talks>>

LateCall(k) ==
  /\ k \in late
  /\ late' = late \ {k}
  /\ IF Accepts(k) THEN Do(k) ELSE UNCHANGED <<node, strayed>>
  /\ overlapped' = TRUE
  /\ UNCHANGED <<fresh, todo, talks, cuts>>

-----------------------------------------------------------------------------
(* Conversations, each read at its start.                                  *)

Ready(o) == todo[o] = <<>> /\ talks < MaxTalks

(* Who strayed is remembered until it is listed when the next one begins. *)
Begin(o, calls) ==
  /\ Ready(o)
  /\ talks' = talks + 1
  /\ todo' = [todo EXCEPT ![o] = calls]
  /\ overlapped' = (overlapped \/ \E other \in Operator \ {o} : todo[other] # <<>>)
  /\ strayed' = {c \in strayed : Missing(c)}
  /\ UNCHANGED <<node, late>>

(* countingOrganizations: the walk up must answer. *)
Organizations(p) == {o \in Above(p) \cup {p} : Active(o) /\ Type[o] = "ORGANIZATION"}
Countable(p) == Held(p) /\ ~OnACycle(p) /\ \A m \in Above(p) : Held(m)

CreateNode(o, p, n) ==
  /\ n \in fresh
  /\ Held(p)
  /\ Type[n] \in Seated => Countable(p)
  /\ fresh' = fresh \ {n}
  /\ Begin(o, <<IssueChildId(p, n), Place(n, p)>>)
  /\ UNCHANGED cuts

PlaceIssued(o, p, n) ==
  /\ n \in Ordinary
  /\ node[n].status = "NONE"
  /\ p # None => Held(p) /\ (Type[n] \in Seated => Countable(p))
  /\ Begin(o, IF p = None THEN <<Place(n, None)>> ELSE <<AddChildren(p, {n}), Place(n, p)>>)
  /\ UNCHANGED <<fresh, cuts>>

InsertAbove(o, c, n) ==
  /\ n \in fresh
  /\ Held(c)
  /\ Parent(c) # None
  /\ MayHold(Type[n], Type[c])
  /\ fresh' = fresh \ {n}
  /\ Begin(o, <<IssueChildId(Parent(c), n), Accept(n, Parent(c)), AddChildren(n, {c}),
                SetParent(c, n), RemoveChild(Parent(c), c)>>)
  /\ UNCHANGED cuts

AddParentAbove(o, top, n, issuer) ==
  /\ n \in fresh
  /\ Active(top)
  /\ Parent(top) = None
  /\ MayHold(Type[n], Type[top])
  /\ fresh' = fresh \ {n}
  /\ Begin(o, <<IssueBasis(issuer), Accept(n, None), AddChildren(n, {top}), SetParent(top, n)>>)
  /\ UNCHANGED cuts

(* The operator names the lost node's old parent, or none. *)
ReplaceLost(o, lost, r, p) ==
  /\ node[lost].status = "GONE"
  /\ Active(r)
  /\ Begin(o, <<MarkList(r, FALSE), AcceptRetired(lost, r)>>
              \o IF p = None THEN <<>> ELSE <<RemoveChild(p, lost)>>)
  /\ UNCHANGED <<fresh, cuts>>

(* Fault: the pointer is moved before the new parent lists the node. *)
RehomePointsFirst(o, n, q, override) ==
  /\ Held(n)
  /\ q # n
  /\ Parent(n) # q
  /\ Countable(q)
  /\ Begin(o, <<SetParent(n, q), AddChildren(q, {n})>>)
  /\ UNCHANGED <<fresh, cuts>>

(* A group or a site stays inside its organization.  With the override an  *)
(* old parent that does not answer keeps its entry.                        *)
Rehome(o, n, q, override) ==
  LET p == Parent(n)
      known == p # None /\ Countable(p)
      old == IF known THEN Organizations(p) ELSE {}
  IN /\ Held(n)
     /\ q # n
     /\ p # q
     /\ n \notin Above(q)   \* the operator's own care: the code does not refuse it
     /\ Countable(q)
     /\ p # None /\ ~Held(p) => override
     /\ Type[n] \in {"GROUP", "SITE"} =>
          Organizations(q) \subseteq old /\ old \subseteq Organizations(q)
     /\ Begin(o, <<AddChildren(q, {n}), SetParent(n, q)>>
                 \o IF p # None /\ Held(p) THEN <<RemoveChild(p, n)>> ELSE <<>>)
     /\ UNCHANGED <<fresh, cuts>>

Opening(n, heir) == IF node[n].complete THEN <<>> ELSE <<MarkList(heir, FALSE)>>
Handing(n, heir) ==
  IF node[n].list \subseteq {heir} THEN <<>> ELSE <<AddChildren(heir, node[n].list \ {heir})>>

(* Its children go on its parent's list. *)
RemoveNode(o, n) ==
  LET p == Parent(n)
  IN /\ Active(n)
     /\ p # None
     /\ Held(p)
     /\ Begin(o, Handing(n, p) \o Opening(n, p) \o <<Retire(n), RemoveChild(p, n)>>)
     /\ UNCHANGED <<fresh, cuts>>

(* A top node's go to the heir the operator names. *)
RemoveTop(o, n, heir) ==
  /\ Active(n)
  /\ Parent(n) = None
  /\ IF node[n].list = {} /\ node[n].complete
     THEN Begin(o, <<Retire(n)>>)
     ELSE /\ heir # n
          /\ Held(heir)
          /\ Begin(o, Handing(n, heir) \o Opening(n, heir) \o <<HandTo(n, heir), Retire(n)>>)
  /\ UNCHANGED <<fresh, cuts>>

(* Its machine does not answer: it is lost, or this once it is. *)
RetireAway(o, n, p) ==
  /\ Held(p)
  /\ n \in node[p].list
  /\ Type[n] \in Seated
  /\ IF Held(n) THEN cuts < MaxCuts /\ cuts' = cuts + 1 ELSE UNCHANGED cuts
  /\ Begin(o, <<RetireChild(p, n)>>)
  /\ UNCHANGED fresh

(* One child of the list: what the child says, then what is done with it. *)
CheckChild(o, p, c) ==
  /\ Held(p)
  /\ c \in node[p].list \ node[p].marked
  /\ Held(c)
  /\ Parent(c) # p \/ ~Active(c)
  /\ Begin(o, <<SweepChild(p, c)>>)
  /\ UNCHANGED <<fresh, cuts>>

(* The administrator's word is true. *)
MarkChildList(o, n) ==
  /\ Held(n)
  /\ ~node[n].complete
  /\ \A c \in Node : Follows(c, n) => c \in node[n].list
  /\ Begin(o, <<MarkList(n, TRUE)>>)
  /\ UNCHANGED <<fresh, cuts>>

-----------------------------------------------------------------------------
(* What goes on by itself.                                                 *)

CheckIn(c) ==
  /\ todo[c] = <<>>
  /\ Cardinality({n \in Node : todo[n] # <<>>}) < MaxBusy
  /\ Active(c)
  /\ Parent(c) # None
  /\ Held(Parent(c))
  /\ todo' = [todo EXCEPT ![c] = <<AskParent(c, Parent(c))>>]
  /\ UNCHANGED <<node, fresh, late, talks, cuts, strayed, overlapped>>

Vanish(n) ==
  /\ n \in MayVanish
  /\ Active(n)
  /\ node' = [node EXCEPT ![n].status = "GONE"]
  /\ todo' = [todo EXCEPT ![n] = <<>>]
  /\ UNCHANGED <<fresh, late, talks, cuts, strayed, overlapped>>

Conversation(o) ==
  /\ Ready(o)
  /\ \/ \E p, n \in Node : CreateNode(o, p, n)
     \/ \E p \in Node \cup {None}, n \in Node : PlaceIssued(o, p, n)
     \/ \E c, n \in Node : InsertAbove(o, c, n)
     \/ \E top, n, issuer \in Node : AddParentAbove(o, top, n, issuer)
     \/ \E lost, r \in Node, p \in Node \cup {None} : ReplaceLost(o, lost, r, p)
     \/ \E n, q \in Node, override \in BOOLEAN : Rehome(o, n, q, override)
     \/ \E n \in Node : RemoveNode(o, n)
     \/ \E n, heir \in Node : RemoveTop(o, n, heir)
     \/ \E n, p \in Node : RetireAway(o, n, p)
     \/ \E p, c \in Node : CheckChild(o, p, c)
     \/ \E n \in Node : MarkChildList(o, n)

Next ==
  \/ \E o \in Operator : Conversation(o)
  \/ \E c \in Node : CheckIn(c)
  \/ \E t \in Talker : Answered(t) \/ Refused(t) \/ CutOff(t)
  \/ \E k \in late : LateCall(k)
  \/ \E n \in Node : Vanish(n)

(* Calls are answered, and every node checks in again and again. *)
Fairness ==
  /\ \A t \in Talker : WF_vars(Answered(t) \/ Refused(t))
  /\ \A c \in Node : SF_vars(CheckIn(c))

Spec == Init /\ [][Next]_vars /\ Fairness

-----------------------------------------------------------------------------

(* The records are of the right types: a pointer or an entry names a node, *)
(* and every call goes to one.                                             *)
TypeOK ==
  /\ node \in [Node -> Record]
  /\ fresh \subseteq Node
  /\ \A t \in Talker : \A i \in DOMAIN todo[t] : todo[t][i].at \in Node
  /\ strayed \subseteq Node /\ overlapped \in BOOLEAN
  /\ talks \in 0 .. MaxTalks /\ cuts \in 0 .. MaxCuts

(* A list may hold too many entries, never too few: wherever conversations *)
(* stop, and whatever checks in meanwhile, a living child is on the list   *)
(* of the node it points to or, past retired ones, would follow, unless    *)
(* that list says it may miss some.  The code leaves four ways open: a     *)
(* sweep drops the entry of a child that still points at a retired node; a *)
(* top node points at its heir before it retires; a node is retired and    *)
(* the living node above is not told (Unannounced); and conversations that *)
(* overlap, or a repair and a conversation about the same node.            *)
(* FindsItsWay says which of them come back.                               *)
NeverTooFew == ~overlapped => \A c \in Node : Missing(c) => c \in strayed

(* A list names only children of types its node may hold, however they     *)
(* came there: issued, moved, handed on, repaired or checked in.           *)
KindsFit == \A n \in Node : \A c \in node[n].list : MayHold(Type[n], Type[c])

(* Pointers never come round: a cycle needs an operator to move a node     *)
(* under its own descendant, which Rehome here never does.                 *)
NoCycle == \A n \in Node : ~OnACycle(n)

(* A user or machine retired while away, once it is back and points at the *)
(* parent that marked it: the check-in is refused and it retires its own   *)
(* record, unless an operator moves it or removes that parent meanwhile.   *)
Unwelcome(p, c) == Active(p) /\ Active(c) /\ Parent(c) = p /\ c \in node[p].marked
Retirable == {c \in Node : Type[c] \in Seated}
MayHave(c) == {p \in Node : MayHold(Type[p], Type[c])}
RefusedForGood ==
  \A c \in Retirable : \A p \in MayHave(c) :
    Unwelcome(p, c) ~> ~Active(c) \/ Parent(c) # p \/ ~Active(p)

(* Retired "for good ... if it ever comes back its check-in is refused"    *)
(* (retireAway): the removal of that parent changes nothing about it.      *)
(* Violated: remove hands its list on without the marks, and the child     *)
(* repairs itself to the node that took the list and lives on there.       *)
RetiredForGood ==
  \A c \in Retirable : \A p \in MayHave(c) :
    Unwelcome(p, c) ~> ~Active(c) \/ (Active(p) /\ Parent(c) # p)

(* Every living node ends, again and again, on the list of a living parent *)
(* it points to: left behind by a removal, a move cut short or a sweep, it *)
(* finds its own way back.  Not where no living node is above it, nor      *)
(* where the nearest living one may not hold its type: then the repair is  *)
(* refused each time and it stays an orphan (a machine issued under a site *)
(* while that is removed from below an organization).                      *)
Settled(c) ==
  LET heir == Heir(c)
  IN Active(c) /\ heir # None /\ MayHold(Type[heir], Type[c]) =>
       Parent(c) = heir /\ c \in node[heir].list
FindsItsWay == \A c \in Node : []<>Settled(c)
=============================================================================
