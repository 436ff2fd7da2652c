------------------------------- MODULE KeyIds -------------------------------
(***************************************************************************)
(* How IDs are issued (src/topology/local-nodes.ts, src/topology/          *)
(* conversations.ts, src/host/prisma-host-store.ts).                       *)
(*                                                                         *)
(* A node has a basis and a counter; the ID it issues is its basis with    *)
(* the counter's next number after it.  There is no authority to ask: that *)
(* no ID is issued twice rests on each Core changing a basis and its       *)
(* counter together, and on a basis being taken up only once.  A node's    *)
(* basis changes when it rolls up to a shorter one issued by an ancestor,  *)
(* and when a ready basis, fetched early, takes over as the counter would  *)
(* pass a limit.  Both are conversations of several Cores: read, ask the   *)
(* issuer for a value, hand the value to the node, with anything between.  *)
(*                                                                         *)
(* An ID is the sequence of its segments' numbers (their Base56 text is    *)
(* abstracted), so <<3, 1>> is the first ID issued from the basis <<3>>.   *)
(* Where a node stands in the tree changes all the time and is left open:  *)
(* whoever it may ever ask may issue, at any time.                         *)
(***************************************************************************)
EXTENDS Naturals, Sequences, FiniteSets

CONSTANTS
  Nodes,        \* places for node records
  Cores,        \* the Cores
  CoreOf,       \* the Core that holds each record
  Machines,     \* the nodes that are a Core's own machine: they issue ordinary IDs
  MayAsk,       \* the nodes each may ask for a value: ever above it in the tree,
                \* or, for a new node, offered as its issuer
  FirstId,      \* the IDs some nodes were given elsewhere: first IDs
  Counts,       \* how many IDs a reservation asks for
  MaxValue,     \* the largest number the organization's length limit allows
  AdoptTo,      \* the Cores that are asked to make an issued ID a node
  Talks,        \* conversations under way at the same time
  MaxIds        \* bound: IDs issued in all

None == <<>>

(* An ID lies beneath a basis that it, or what it was issued from, has. *)
Beneath(id, basis) ==
  Len(basis) < Len(id) /\ SubSeq(id, 1, Len(basis)) = basis

Tops == DOMAIN FirstId
FirstIds == {FirstId[n] : n \in Tops}

ASSUME KeyIdsAssumption ==
  /\ CoreOf \in [Nodes -> Cores]
  /\ Machines \subseteq Nodes
  /\ MayAsk \in [Nodes -> SUBSET Nodes] /\ \A n \in Nodes : n \notin MayAsk[n]
  /\ Tops \subseteq Nodes
  /\ FirstId \in [Tops -> Seq(Nat) \ {None}]
  /\ \A m, n \in Tops : FirstId[m] = FirstId[n] => m = n
  /\ \A m, n \in Tops : ~Beneath(FirstId[m], FirstId[n])
  /\ Counts \subseteq Nat \ {0}
  /\ MaxValue \in Nat \ {0}
  /\ AdoptTo \subseteq Cores
  /\ MaxIds \in Nat

VARIABLES
  nodes,        \* the node records
  reserved,     \* the ledger's IDs that are reserved
  used,         \* and those that were taken into use
  talk,         \* the conversations
  ids,          \* history: every ID ever issued
  twice         \* history: those issued more than once (no action reads either)

vars == <<nodes, reserved, used, talk, ids, twice>>

ID == Seq(Nat)

LocalNode ==
  [id : ID, basis : ID, issued : Nat, nextBasis : ID, switchAt : Nat,
   status : {"NONE", "ACTIVE", "RETIRED"}]

NoNode == [id |-> None, basis |-> None, issued |-> 0, nextBasis |-> None,
           switchAt |-> 0, status |-> "NONE"]

Accepted(id) == [NoNode EXCEPT !.id = id, !.basis = id, !.status = "ACTIVE"]

Quiet == [pc |-> "idle", kind |-> "none", node |-> None, issuer |-> None, value |-> None]

Init ==
  /\ nodes = [n \in Nodes |-> IF n \in Tops THEN Accepted(FirstId[n]) ELSE NoNode]
  /\ reserved = {}
  /\ used = {}
  /\ talk = [t \in Talks |-> Quiet]
  /\ ids = {}
  /\ twice = {}

Placed(n) == nodes[n].status # "NONE"
Usable(n) == nodes[n].status = "ACTIVE"

-----------------------------------------------------------------------------
(* The counter.                                                            *)

(* The ID of a number issued from a basis, and the parts of an ID. *)
KeyId(basis, number) == Append(basis, number)
Basis(id) == SubSeq(id, 1, Len(id) - 1)
Number(id) == id[Len(id)]

(* Fault: the counter itself must have passed the limit, whatever is asked for. *)
SwitchesLate(node, count) ==
  node.nextBasis # None /\ node.issued > node.switchAt

(* A ready basis waits and the counter would pass switchAt. *)
Switches(node, count) ==
  node.nextBasis # None /\ node.issued + count > node.switchAt

(* Fault: the ready basis is not crossed out when it takes over. *)
AdvanceKeepsReady(node, count) ==
  IF Switches(node, count)
  THEN [node EXCEPT !.basis = node.nextBasis, !.issued = count]
  ELSE [node EXCEPT !.issued = @ + count]

Advance(node, count) ==
  IF Switches(node, count)
  THEN [node EXCEPT !.basis = node.nextBasis, !.issued = count,
                    !.nextBasis = None, !.switchAt = 0]
  ELSE [node EXCEPT !.issued = @ + count]

(* The IDs it gives: the last count numbers of the counter it leaves. *)
Values(node, count) ==
  {KeyId(node.basis, k) : k \in (node.issued - count + 1)..node.issued}

(* Node n issues so many IDs. *)
Issues(n, count) ==
  LET after == Advance(nodes[n], count)
  IN  /\ Usable(n)
      /\ Cardinality(ids) + count <= MaxIds
      /\ nodes' = [nodes EXCEPT ![n] = after]
      /\ ids' = ids \cup Values(after, count)
      /\ twice' = twice \cup (ids \cap Values(after, count))

-----------------------------------------------------------------------------
(* Ordinary IDs, from the machine's own node.                              *)

Reserve(n, count) ==
  /\ n \in Machines
  /\ Issues(n, count)
  /\ reserved' = reserved \cup Values(Advance(nodes[n], count), count)
  /\ UNCHANGED <<used, talk>>

(* consumeReservedIdentifier *)
TakeIntoUse(id) ==
  /\ id \in reserved
  /\ reserved' = reserved \ {id}
  /\ used' = used \cup {id}
  /\ UNCHANGED <<nodes, talk, ids, twice>>

-----------------------------------------------------------------------------
(* Conversations.                                                          *)

Begin(t, kind, n, i) ==
  /\ talk[t].pc = "idle"
  /\ talk' = [talk EXCEPT ![t] = [Quiet EXCEPT !.pc = "ask", !.kind = kind,
                                               !.node = n, !.issuer = i]]
  /\ UNCHANGED <<nodes, reserved, used, ids, twice>>

(* rollUp: the issuer's basis, as it was read, would give a shorter one. *)
RollUp(t, n, i) ==
  /\ Usable(n) /\ Usable(i) /\ i \in MayAsk[n]
  /\ Len(nodes[i].basis) + 1 < Len(nodes[n].basis)
  /\ Begin(t, "rollUp", n, i)

(* Nine tenths of the limit, or one short of it. *)
Early ==
  MaxValue - (IF MaxValue \div 10 > 0 THEN MaxValue \div 10 ELSE 1)

(* prepareNextBasis, by the check of the key limits *)
PrepareNextBasis(t, n, i) ==
  /\ Usable(n) /\ Usable(i) /\ i \in MayAsk[n]
  /\ nodes[n].nextBasis = None
  /\ nodes[n].issued >= Early
  /\ Begin(t, "nextBasis", n, i)

(* createNode, insertAbove, addParentAbove: issued first, then recorded. *)
CreateNode(t, n, i) ==
  /\ ~Placed(n) /\ Usable(i) /\ i \in MayAsk[n]
  /\ Begin(t, "create", n, i)

(* issueBasis or issueChildId, on the issuer's Core *)
Issue(t) ==
  LET i == talk[t].issuer
  IN  /\ talk[t].pc = "ask"
      /\ Issues(i, 1)
      /\ talk' = [talk EXCEPT ![t].pc = "set",
                    ![t].value = KeyId(Advance(nodes[i], 1).basis,
                                       Advance(nodes[i], 1).issued)]
      /\ UNCHANGED <<reserved, used>>

(* The value has reached the node's Core; the conversation is over. *)
Ends(t, kind, node) ==
  /\ talk[t].pc = "set" /\ talk[t].kind = kind
  /\ nodes' = [nodes EXCEPT ![talk[t].node] = node]
  /\ talk' = [talk EXCEPT ![t] = Quiet]
  /\ UNCHANGED <<reserved, used, ids, twice>>

(* Fault: the old basis is kept, to be taken up again later. *)
SetBasisKeepsOld(t) ==
  LET node == nodes[talk[t].node]
  IN  /\ talk[t].pc = "set"
      /\ Usable(talk[t].node)
      /\ Len(talk[t].value) < Len(node.basis)
      /\ Ends(t, "rollUp", [node EXCEPT !.basis = talk[t].value, !.issued = 0,
                                        !.nextBasis = node.basis, !.switchAt = MaxValue])

(* Fault: the limit of the ready basis stays. *)
SetBasisLeavesLimit(t) ==
  LET node == nodes[talk[t].node]
  IN  /\ talk[t].pc = "set"
      /\ Usable(talk[t].node)
      /\ Len(talk[t].value) < Len(node.basis)
      /\ Ends(t, "rollUp", [node EXCEPT !.basis = talk[t].value, !.issued = 0,
                                        !.nextBasis = None])

(* A ready basis was for the old one, and goes with it. *)
SetBasis(t) ==
  LET node == nodes[talk[t].node]
  IN  /\ talk[t].pc = "set"
      /\ Usable(talk[t].node)
      /\ Len(talk[t].value) < Len(node.basis)
      /\ Ends(t, "rollUp", [node EXCEPT !.basis = talk[t].value, !.issued = 0,
                                        !.nextBasis = None, !.switchAt = 0])

(* Issued by the node itself, or from its basis by another. *)
OwnIssue(node, value) ==
  \/ value \in {node.id, node.basis}
  \/ Beneath(value, node.basis)

(* One that is ready stays, and the new one is never used. *)
SetNextBasis(t) ==
  LET node == nodes[talk[t].node]
  IN  /\ talk[t].pc = "set"
      /\ Usable(talk[t].node)
      /\ ~OwnIssue(node, talk[t].value)
      /\ Ends(t, "nextBasis",
              IF node.nextBasis # None THEN node
              ELSE [node EXCEPT !.nextBasis = talk[t].value, !.switchAt = MaxValue])

(* The store refuses an ID its Core holds already, active or retired. *)
Free(n, id) ==
  /\ ~Placed(n)
  /\ \A m \in Nodes : CoreOf[m] = CoreOf[n] /\ Placed(m) => nodes[m].id # id

(* accept *)
Accept(t) ==
  /\ talk[t].pc = "set"
  /\ Free(talk[t].node, talk[t].value)
  /\ Ends(t, "create", Accepted(talk[t].value))

(* A Core cannot be reached or refuses (it may be shut down), or the       *)
(* process that held the conversation ended: nothing takes it up again.    *)
Fails(t) ==
  /\ talk[t].pc # "idle"
  /\ talk' = [talk EXCEPT ![t] = Quiet]
  /\ UNCHANGED <<nodes, reserved, used, ids, twice>>

-----------------------------------------------------------------------------
(* An issued ID is made a node, on whichever Core is asked; a node retires. *)

(* Fault: the ledger vouches for the ID, and no record is looked up. *)
AdoptUnchecked(n, id) ==
  /\ ~Placed(n) /\ CoreOf[n] \in AdoptTo
  /\ id \in used
  /\ nodes' = [nodes EXCEPT ![n] = Accepted(id)]
  /\ UNCHANGED <<reserved, used, talk, ids, twice>>

(* adopt-issued: "it is not a node yet" is asked of the Core it goes to. *)
AdoptIssued(n, id) ==
  /\ CoreOf[n] \in AdoptTo
  /\ id \in used
  /\ Free(n, id)
  /\ nodes' = [nodes EXCEPT ![n] = Accepted(id)]
  /\ UNCHANGED <<reserved, used, talk, ids, twice>>

Retire(n) ==
  /\ Usable(n)
  /\ nodes' = [nodes EXCEPT ![n].status = "RETIRED"]
  /\ UNCHANGED <<reserved, used, talk, ids, twice>>

Next ==
  \/ \E n \in Nodes, count \in Counts : Reserve(n, count)
  \/ \E id \in reserved : TakeIntoUse(id)
  \/ \E t \in Talks, n, i \in Nodes :
       RollUp(t, n, i) \/ PrepareNextBasis(t, n, i) \/ CreateNode(t, n, i)
  \/ \E t \in Talks :
       Issue(t) \/ SetBasis(t) \/ SetNextBasis(t) \/ Accept(t) \/ Fails(t)
  \/ \E n \in Nodes, id \in used : AdoptIssued(n, id)
  \/ \E n \in Nodes : Retire(n)

Spec == Init /\ [][Next]_vars

-----------------------------------------------------------------------------
(* Properties.                                                             *)

TalkState ==
  [pc : {"idle", "ask", "set"}, kind : {"none", "rollUp", "nextBasis", "create"},
   node : Nodes \cup {None}, issuer : Nodes \cup {None}, value : ID]

(* Records, ledger and conversations keep their types, and a ready basis   *)
(* and its limit are "set together, or neither" (LocalNode).               *)
TypeOK ==
  /\ nodes \in [Nodes -> LocalNode]
  /\ \A n \in Nodes : nodes[n].nextBasis = None <=> nodes[n].switchAt = 0
  /\ reserved \subseteq ID /\ used \subseteq ID
  /\ talk \in [Talks -> TalkState]
  /\ ids \subseteq ID /\ twice \subseteq ID

(* No ID is ever issued twice, by whichever node and whatever became of    *)
(* its basis: conversations overlap, arrive late and end halfway, counters *)
(* restart, and only the order of each Core's own steps keeps IDs apart.   *)
NoIdTwice == twice = {}

(* A node takes up only a basis nothing was ever issued from, its own old  *)
(* ones included: restarting the counter at 0 (setBasis) or at the values  *)
(* asked for (advance, reserve) is safe for that reason alone.             *)
BasisIsFresh ==
  [][\A n \in Nodes : nodes'[n].basis # nodes[n].basis
       => \A id \in ids : Basis(id) # nodes'[n].basis]_vars

(* While a ready basis waits, no number above switchAt is issued from the  *)
(* old one, not even by a reservation of several that begins below it.     *)
NoneBeyondSwitch ==
  [][\A n \in Nodes : Placed(n) /\ nodes[n].nextBasis # None
       => \A id \in ids' \ ids :
            Basis(id) = nodes[n].basis => Number(id) <= nodes[n].switchAt]_vars

(* An ID names one node: "refused unless ... it is not a node yet"         *)
(* (topologyAdoptIssued), and an ID issued for a node is no other's.       *)
OneNodePerId ==
  \A m, n \in Nodes :
    Placed(m) /\ Placed(n) /\ nodes[m].id = nodes[n].id => m = n

-----------------------------------------------------------------------------
(* Why no ID is issued twice: the inductive invariant.  Everything that    *)
(* may become a basis - a ready one, a value on its way, an ID of the      *)
(* ledger that is no node yet - was itself issued, has nothing issued from *)
(* it, and is nobody else's.                                               *)

Known == ids \cup FirstIds
Untouched(basis) == \A id \in ids : Basis(id) # basis
HasReady(n) == Placed(n) /\ nodes[n].nextBasis # None
OnItsWay(t) == talk[t].pc = "set"
Ledger == reserved \cup used
IsNode(id) == \E n \in Nodes : Placed(n) /\ nodes[n].id = id

TalkOK == \A t \in Talks : talk[t].pc # "idle" =>
  talk[t].node \in Nodes /\ talk[t].issuer \in Nodes

(* Every ID was issued from an ID, and lies beneath a first one. *)
Ancestry ==
  \A id \in ids : Basis(id) \in Known /\ \E first \in FirstIds : Beneath(id, first)

BasesKnown == \A n \in Nodes : Placed(n) => nodes[n].basis \in Known /\ nodes[n].id \in Known

CounterCovers ==
  \A n \in Nodes : Placed(n) =>
    \A id \in ids : Basis(id) = nodes[n].basis => Number(id) <= nodes[n].issued

ReadyFresh ==
  \A n \in Nodes : HasReady(n) =>
    nodes[n].nextBasis \in ids /\ Untouched(nodes[n].nextBasis)

ValueFresh ==
  \A t \in Talks : OnItsWay(t) => talk[t].value \in ids /\ Untouched(talk[t].value)

LedgerFresh ==
  \A id \in Ledger : id \in ids /\ (~IsNode(id) => Untouched(id))

BasesApart ==
  /\ \A m, n \in Nodes : Placed(m) /\ Placed(n) /\ nodes[m].basis = nodes[n].basis => m = n
  /\ \A m, n \in Nodes : Placed(m) /\ HasReady(n) => nodes[m].basis # nodes[n].nextBasis
  /\ \A m, n \in Nodes : HasReady(m) /\ HasReady(n)
                           /\ nodes[m].nextBasis = nodes[n].nextBasis => m = n

ValuesApart ==
  /\ \A t \in Talks, n \in Nodes : OnItsWay(t) /\ Placed(n) =>
       /\ talk[t].value \notin {nodes[n].id, nodes[n].basis}
       /\ HasReady(n) => talk[t].value # nodes[n].nextBasis
  /\ \A t, u \in Talks : OnItsWay(t) /\ OnItsWay(u) /\ talk[t].value = talk[u].value => t = u

LedgerApart ==
  /\ \A id \in Ledger, n \in Nodes : Placed(n) =>
       /\ ~IsNode(id) => id # nodes[n].basis
       /\ HasReady(n) => id # nodes[n].nextBasis
       /\ id = nodes[n].id => CoreOf[n] \in AdoptTo
  /\ \A id \in Ledger, t \in Talks : OnItsWay(t) => id # talk[t].value

Apart == BasesApart /\ ValuesApart /\ LedgerApart
Fresh == CounterCovers /\ ReadyFresh /\ ValueFresh /\ LedgerFresh

IssueInv ==
  /\ TypeOK /\ TalkOK
  /\ Ancestry /\ BasesKnown
  /\ Fresh /\ Apart
  /\ OneNodePerId
  /\ NoIdTwice
=============================================================================
