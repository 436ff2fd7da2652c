---------------------------- MODULE KeyIdsProofs ----------------------------
(***************************************************************************)
(* Proofs about KeyIds, for any Cores, nodes, conversations and first IDs: *)
(* as long as issued IDs are made nodes on one Core only, no ID is issued  *)
(* twice, no basis is taken up twice, none is used past its limit, and an  *)
(* ID names one node.                                                      *)
(***************************************************************************)
EXTENDS KeyIds, SequenceTheorems, TLAPS

(* The condition the code leaves to its operators. *)
OneAdopter == \A c, d \in AdoptTo : c = d

-----------------------------------------------------------------------------
(* IDs.  After these lemmas an ID's segments are not looked at again.      *)

LEMMA KeyIdParts ==
  ASSUME NEW basis \in ID, NEW k \in Nat
  PROVE  /\ KeyId(basis, k) \in ID
         /\ Basis(KeyId(basis, k)) = basis
         /\ Number(KeyId(basis, k)) = k
         /\ KeyId(basis, k) # basis
<1> DEFINE id == Append(basis, k)
<1>1. /\ id \in Seq(Nat) /\ Len(id) = Len(basis) + 1 /\ Len(basis) \in Nat
      /\ id[Len(id)] = k
      /\ \A j \in 1..Len(basis) : id[j] = basis[j]
  BY AppendProperties, LenProperties DEF ID
<1>2. SubSeq(id, 1, Len(id) - 1) = basis
  BY <1>1 DEF ID
<1>3. id # basis
  BY <1>1
<1>4. KeyId(basis, k) = id
  BY DEF KeyId
<1>5. Basis(id) = basis /\ Number(id) = k
  <2> HIDE DEF id
  <2> QED BY <1>1, <1>2 DEF Basis, Number
<1> HIDE DEF id
<1> QED BY <1>1, <1>3, <1>4, <1>5 DEF ID

LEMMA BeneathKeyId ==
  ASSUME NEW basis \in ID, NEW k \in Nat, NEW first \in ID,
         basis = first \/ Beneath(basis, first)
  PROVE  Beneath(KeyId(basis, k), first)
<1> DEFINE id == Append(basis, k)
<1>1. /\ id \in Seq(Nat) /\ Len(id) = Len(basis) + 1
      /\ Len(basis) \in Nat /\ Len(first) \in Nat /\ Len(first) <= Len(basis)
      /\ \A j \in 1..Len(basis) : id[j] = basis[j]
  BY AppendProperties, LenProperties DEF ID, Beneath
<1>2. SubSeq(basis, 1, Len(first)) = first
  BY SubSeqFull DEF ID, Beneath
<1>3. SubSeq(id, 1, Len(first)) = SubSeq(basis, 1, Len(first))
  BY <1>1 DEF ID
<1> QED BY <1>1, <1>2, <1>3 DEF KeyId, Beneath

LEMMA NumberIsNat ==
  ASSUME NEW id \in ID, NEW first \in ID, Beneath(id, first)
  PROVE  Number(id) \in Nat
<1>1. Len(id) \in 1..Len(id)
  BY LenProperties DEF ID, Beneath
<1> QED BY <1>1, LenProperties DEF ID, Number

(* First IDs lie beneath none, so no ID ever issued is one of them. *)
LEMMA FirstBeneathNone ==
  ASSUME NEW id \in FirstIds, NEW first \in FirstIds
  PROVE  ~Beneath(id, first)
BY KeyIdsAssumption DEF FirstIds

LEMMA FirstIdsAreIDs == FirstIds \subseteq ID \ {None}
BY KeyIdsAssumption DEF FirstIds, ID

LEMMA NoneIsID == None \in ID
BY DEF None, ID

-----------------------------------------------------------------------------
(* The initial state.                                                      *)

LEMMA InitIssue == ASSUME Init PROVE IssueInv
<1>1. NoNode \in LocalNode
  BY NoneIsID DEF NoNode, LocalNode
<1>2. \A id \in ID : /\ Accepted(id) \in LocalNode
                     /\ Accepted(id).id = id /\ Accepted(id).basis = id
                     /\ Accepted(id).nextBasis = None /\ Accepted(id).switchAt = 0
                     /\ Accepted(id).issued = 0 /\ Accepted(id).status = "ACTIVE"
  BY NoneIsID DEF NoNode, Accepted, LocalNode
<1>3. \A n \in Nodes :
        /\ n \in Tops => nodes[n] = Accepted(FirstId[n])
        /\ n \notin Tops => nodes[n] = NoNode
  BY DEF Init
<1>4. \A n \in Tops : FirstId[n] \in ID /\ FirstId[n] \in FirstIds
  BY KeyIdsAssumption DEF ID, FirstIds
<1>5. \A n \in Nodes : Placed(n) =>
        /\ n \in Tops
        /\ nodes[n].id = FirstId[n] /\ nodes[n].basis = FirstId[n]
        /\ nodes[n].nextBasis = None
  BY <1>2, <1>3, <1>4 DEF Placed, NoNode
<1>6. TypeOK
  <2>1. nodes \in [Nodes -> LocalNode]
    BY <1>1, <1>2, <1>4 DEF Init
  <2>2. \A n \in Nodes : nodes[n].nextBasis = None /\ nodes[n].switchAt = 0
    BY <1>2, <1>3, <1>4 DEF NoNode
  <2>3. Quiet \in TalkState
    BY NoneIsID DEF Quiet, TalkState
  <2>4. talk \in [Talks -> TalkState]
    BY <2>3 DEF Init
  <2> QED BY <2>1, <2>2, <2>4 DEF Init, TypeOK
<1>7. \A t \in Talks : talk[t].pc = "idle"
  BY DEF Init, Quiet
<1>8. ids = {} /\ twice = {} /\ Ledger = {}
  BY DEF Init, Ledger
<1>9. \A m, n \in Tops : FirstId[m] = FirstId[n] => m = n
  BY KeyIdsAssumption
<1>10. TalkOK /\ ValueFresh /\ ValuesApart
  BY <1>7 DEF TalkOK, ValueFresh, ValuesApart, OnItsWay
<1>11. Ancestry /\ CounterCovers /\ LedgerFresh /\ LedgerApart /\ NoIdTwice
  BY <1>8 DEF Ancestry, CounterCovers, LedgerFresh, LedgerApart, NoIdTwice
<1>12. ReadyFresh /\ BasesApart /\ OneNodePerId
  BY <1>5, <1>9 DEF ReadyFresh, HasReady, BasesApart, OneNodePerId
<1>13. BasesKnown
  BY <1>4, <1>5 DEF BasesKnown, Known
<1> QED BY <1>6, <1>10, <1>11, <1>12, <1>13 DEF IssueInv, Fresh, Apart

-----------------------------------------------------------------------------
(* A node issues.                                                          *)

(* What node n's issuing the values V does to the records and the history. *)
Grows(n, V) ==
  /\ n \in Nodes /\ Placed(n)
  /\ nodes' \in [Nodes -> LocalNode]
  /\ \A m \in Nodes : nodes'[m].id = nodes[m].id /\ nodes'[m].status = nodes[m].status
  /\ \A m \in Nodes \ {n} : nodes'[m] = nodes[m]
  /\ nodes'[n].nextBasis = None <=> nodes'[n].switchAt = 0
  /\ \/ /\ nodes'[n].basis = nodes[n].basis
        /\ nodes'[n].nextBasis = nodes[n].nextBasis
        /\ nodes'[n].issued >= nodes[n].issued
     \/ /\ HasReady(n)
        /\ nodes'[n].basis = nodes[n].nextBasis
        /\ nodes'[n].nextBasis = None
  /\ nodes'[n].basis \in Known
  /\ V \subseteq ID /\ V \cap Known = {}
  /\ \A v \in V : /\ Basis(v) = nodes'[n].basis
                  /\ Number(v) \in Nat /\ Number(v) <= nodes'[n].issued
                  /\ \E first \in FirstIds : Beneath(v, first)
  /\ ids' = ids \cup V /\ twice' = twice

LEMMA KnownAreIDs == ASSUME TypeOK PROVE Known \subseteq ID
BY FirstIdsAreIDs DEF TypeOK, Known

(* The two ways a counter advances. *)
LEMMA AdvanceParts ==
  ASSUME TypeOK, NEW n \in Nodes, NEW count \in Nat \ {0}
  PROVE  /\ Advance(nodes[n], count) \in LocalNode
         /\ Advance(nodes[n], count).id = nodes[n].id
         /\ Advance(nodes[n], count).status = nodes[n].status
         /\ \/ /\ ~Switches(nodes[n], count)
               /\ Advance(nodes[n], count).basis = nodes[n].basis
               /\ Advance(nodes[n], count).nextBasis = nodes[n].nextBasis
               /\ Advance(nodes[n], count).switchAt = nodes[n].switchAt
               /\ Advance(nodes[n], count).issued = nodes[n].issued + count
            \/ /\ Switches(nodes[n], count)
               /\ Advance(nodes[n], count).basis = nodes[n].nextBasis
               /\ Advance(nodes[n], count).nextBasis = None
               /\ Advance(nodes[n], count).switchAt = 0
               /\ Advance(nodes[n], count).issued = count
<1>1. nodes[n] \in LocalNode
  BY DEF TypeOK
<1>2. CASE Switches(nodes[n], count)
  BY <1>1, <1>2, NoneIsID DEF Advance, LocalNode
<1>3. CASE ~Switches(nodes[n], count)
  BY <1>1, <1>3 DEF Advance, LocalNode
<1> QED BY <1>2, <1>3

LEMMA IssuesGrow ==
  ASSUME IssueInv, NEW n \in Nodes, NEW count \in Nat \ {0}, Issues(n, count)
  PROVE  Grows(n, Values(Advance(nodes[n], count), count))
<1> DEFINE after == Advance(nodes[n], count)
           V == Values(after, count)
<1> USE DEF IssueInv
<1>a. TypeOK /\ nodes[n] \in LocalNode /\ Placed(n)
  BY DEF TypeOK, Issues, Usable, Placed
<1>b. /\ after \in LocalNode /\ after.id = nodes[n].id /\ after.status = nodes[n].status
      /\ \/ /\ ~Switches(nodes[n], count)
            /\ after.basis = nodes[n].basis /\ after.nextBasis = nodes[n].nextBasis
            /\ after.switchAt = nodes[n].switchAt
            /\ after.issued = nodes[n].issued + count
         \/ /\ Switches(nodes[n], count)
            /\ after.basis = nodes[n].nextBasis /\ after.nextBasis = None
            /\ after.switchAt = 0 /\ after.issued = count
  BY <1>a, AdvanceParts
<1>c. /\ nodes' = [nodes EXCEPT ![n] = after]
      /\ ids' = ids \cup V /\ twice' = twice \cup (ids \cap V)
  BY DEF Issues
<1>d. Switches(nodes[n], count) => HasReady(n)
  BY <1>a DEF Switches, HasReady
<1>e. /\ after.basis \in ID /\ after.issued \in Nat /\ nodes[n].issued \in Nat
      /\ nodes[n].basis \in ID /\ after.issued >= count
  BY <1>a, <1>b DEF LocalNode
<1> HIDE DEF after
<1>1. /\ nodes' \in [Nodes -> LocalNode] /\ nodes'[n] = after
      /\ \A m \in Nodes \ {n} : nodes'[m] = nodes[m]
  BY <1>a, <1>b, <1>c DEF TypeOK
<1>2. after.basis \in Known
  BY <1>a, <1>b, <1>d DEF BasesKnown, Fresh, ReadyFresh, Known
<1>3. ASSUME NEW v \in V
      PROVE  /\ v \in ID /\ Basis(v) = after.basis /\ Number(v) \in Nat
             /\ Number(v) <= after.issued /\ Number(v) > after.issued - count
             /\ \E first \in FirstIds : Beneath(v, first)
  <2>1. PICK k \in (after.issued - count + 1)..after.issued : v = KeyId(after.basis, k)
    BY <1>3 DEF Values
  <2>2. k \in Nat /\ k <= after.issued /\ k > after.issued - count
    BY <1>e
  <2>3. v \in ID /\ Basis(v) = after.basis /\ Number(v) = k
    BY <2>1, <2>2, <1>e, KeyIdParts
  <2>4. \E first \in FirstIds : after.basis = first \/ Beneath(after.basis, first)
    BY <1>2 DEF Known, Ancestry
  <2>5. \E first \in FirstIds : Beneath(v, first)
    BY <2>1, <2>2, <2>4, <1>e, BeneathKeyId, FirstIdsAreIDs
  <2> QED BY <2>2, <2>3, <2>5
<1>4. V \cap FirstIds = {}
  BY <1>3, FirstBeneathNone
<1>5. V \cap ids = {}
  <2> SUFFICES ASSUME NEW v \in V, v \in ids PROVE FALSE
    OBVIOUS
  <2>1. CASE Switches(nodes[n], count)
    <3>1. Untouched(nodes[n].nextBasis)
      BY <2>1, <1>d DEF Fresh, ReadyFresh
    <3> QED BY <3>1, <2>1, <1>b, <1>3 DEF Untouched
  <2>2. CASE ~Switches(nodes[n], count)
    <3>1. Number(v) <= nodes[n].issued
      BY <2>2, <1>a, <1>b, <1>3 DEF Fresh, CounterCovers
    <3>2. Number(v) > nodes[n].issued /\ Number(v) \in Nat
      BY <2>2, <1>b, <1>e, <1>3
    <3> QED BY <3>1, <3>2, <1>e
  <2> QED BY <2>1, <2>2
<1>6. nodes'[n].nextBasis = None <=> nodes'[n].switchAt = 0
  BY <1>1, <1>a, <1>b DEF TypeOK
<1>7. \/ /\ nodes'[n].basis = nodes[n].basis
         /\ nodes'[n].nextBasis = nodes[n].nextBasis
         /\ nodes'[n].issued >= nodes[n].issued
      \/ /\ HasReady(n)
         /\ nodes'[n].basis = nodes[n].nextBasis
         /\ nodes'[n].nextBasis = None
  BY <1>1, <1>b, <1>d, <1>e
<1>8. \A m \in Nodes : nodes'[m].id = nodes[m].id /\ nodes'[m].status = nodes[m].status
  BY <1>1, <1>b
<1>9. V \subseteq ID /\ V \cap Known = {}
  BY <1>3, <1>4, <1>5 DEF Known
<1>10. ids' = ids \cup V /\ twice' = twice
  BY <1>c, <1>5
<1>11. \A v \in V : /\ Basis(v) = nodes'[n].basis
                    /\ Number(v) \in Nat /\ Number(v) <= nodes'[n].issued
                    /\ \E first \in FirstIds : Beneath(v, first)
  BY <1>1, <1>3
<1> HIDE DEF V
<1>12. nodes'[n].basis \in Known
  BY <1>1, <1>2
<1>13. Grows(n, V)
  BY <1>a, <1>1, <1>6, <1>7, <1>8, <1>9, <1>10, <1>11, <1>12 DEF Grows
<1> QED BY <1>13 DEF V, after

(* Nothing has been issued from a basis after the step. *)
StaysUntouched(basis) == \A id \in ids' : Basis(id) # basis

(* What issuing keeps, whoever is given the values. *)
LEMMA GrowsKeeps ==
  ASSUME IssueInv, NEW n, NEW V, Grows(n, V)
  PROVE  /\ Ancestry' /\ BasesKnown' /\ CounterCovers' /\ ReadyFresh'
         /\ BasesApart' /\ OneNodePerId' /\ NoIdTwice'
         /\ \A b \in ID : Untouched(b) /\ b # nodes'[n].basis => StaysUntouched(b)
         /\ \A v \in V : StaysUntouched(v)
         /\ \A m \in Nodes : /\ Placed(m)' <=> Placed(m)
                             /\ HasReady(m)' => /\ HasReady(m)
                                                /\ nodes'[m].nextBasis = nodes[m].nextBasis
         /\ \A m \in Nodes : Placed(m) /\ nodes'[m].basis # nodes[m].basis
              => m = n /\ HasReady(n) /\ nodes'[n].basis = nodes[n].nextBasis
<1> USE DEF IssueInv
<1>a. /\ n \in Nodes /\ Placed(n)
      /\ \A m \in Nodes : nodes'[m].id = nodes[m].id /\ nodes'[m].status = nodes[m].status
      /\ \A m \in Nodes \ {n} : nodes'[m] = nodes[m]
      /\ \/ /\ nodes'[n].basis = nodes[n].basis
            /\ nodes'[n].nextBasis = nodes[n].nextBasis
            /\ nodes'[n].issued >= nodes[n].issued
         \/ /\ HasReady(n)
            /\ nodes'[n].basis = nodes[n].nextBasis
            /\ nodes'[n].nextBasis = None
      /\ ids' = ids \cup V /\ twice' = twice
  BY DEF Grows
<1>b. /\ nodes'[n].basis \in Known
      /\ V \subseteq ID /\ V \cap Known = {}
      /\ \A v \in V : /\ Basis(v) = nodes'[n].basis
                      /\ Number(v) \in Nat /\ Number(v) <= nodes'[n].issued
                      /\ \E first \in FirstIds : Beneath(v, first)
  BY DEF Grows
<1>c. /\ \A m \in Nodes : nodes[m] \in LocalNode /\ nodes'[m] \in LocalNode
      /\ ids \subseteq ID
  BY DEF Grows, TypeOK
<1>d. Known' = Known \cup V
  BY <1>a DEF Known, FirstIds
<1>e. \A m \in Nodes : Placed(m)' <=> Placed(m)
  BY <1>a DEF Placed
<1>f. \A m \in Nodes : HasReady(m)' =>
        HasReady(m) /\ nodes'[m].nextBasis = nodes[m].nextBasis
  BY <1>a, <1>e DEF HasReady
<1>g. \A m \in Nodes : Placed(m) /\ nodes'[m].basis # nodes[m].basis
              => m = n /\ HasReady(n) /\ nodes'[n].basis = nodes[n].nextBasis
  BY <1>a
<1>h. \A b \in ID : Untouched(b) /\ b # nodes'[n].basis => StaysUntouched(b)
  BY <1>a, <1>b DEF Untouched, StaysUntouched
<1>i. \A v \in V : StaysUntouched(v)
  <2> SUFFICES ASSUME NEW v \in V, NEW id \in ids' PROVE Basis(id) # v
    BY DEF Untouched, StaysUntouched
  <2>1. CASE id \in ids
    BY <2>1, <1>b DEF Ancestry
  <2>2. CASE id \in V
    BY <2>2, <1>b
  <2> QED BY <2>1, <2>2, <1>a
<1>1. Ancestry'
  <2> SUFFICES ASSUME NEW id \in ids'
               PROVE  Basis(id) \in Known' /\ \E first \in FirstIds : Beneath(id, first)
    BY DEF Ancestry, FirstIds, Beneath
  <2>1. CASE id \in ids
    BY <2>1, <1>d DEF Ancestry
  <2>2. CASE id \in V
    BY <2>2, <1>b, <1>d
  <2> QED BY <2>1, <2>2, <1>a
<1>2. BasesKnown'
  <2> SUFFICES ASSUME NEW m \in Nodes, Placed(m)'
               PROVE  nodes'[m].basis \in Known' /\ nodes'[m].id \in Known'
    BY DEF BasesKnown
  <2> QED BY <1>a, <1>b, <1>d, <1>e DEF BasesKnown
<1>3. CounterCovers'
  <2> SUFFICES ASSUME NEW m \in Nodes, Placed(m)', NEW id \in ids',
                      Basis(id) = nodes'[m].basis
               PROVE  Number(id) <= nodes'[m].issued
    BY DEF CounterCovers
  <2>0. Placed(m) /\ nodes[m].basis \in Known
    BY <1>e DEF BasesKnown
  <2>1. CASE id \in V
    <3>1. m = n
      <4> SUFFICES ASSUME m # n PROVE FALSE
        OBVIOUS
      <4>1. nodes[m].basis = nodes'[n].basis
        BY <2>1, <1>a, <1>b
      <4> QED BY <4>1, <2>0, <1>a DEF Apart, BasesApart
    <3> QED BY <3>1, <2>1, <1>b
  <2>2. CASE id \in ids /\ nodes'[m].basis = nodes[m].basis
    <3>1. Number(id) <= nodes[m].issued
      BY <2>0, <2>2 DEF Fresh, CounterCovers
    <3>2. CASE m # n
      BY <3>1, <3>2, <1>a
    <3>3. CASE m = n /\ ~(HasReady(n) /\ nodes'[n].basis = nodes[n].nextBasis)
      <4>1. nodes'[n].issued >= nodes[n].issued
        BY <3>3, <1>a
      <4>2. Number(id) \in Nat
        BY <2>2, <1>c, NumberIsNat, FirstIdsAreIDs DEF Ancestry
      <4>3. nodes[m].issued \in Nat /\ nodes'[m].issued \in Nat
        BY <1>c DEF LocalNode
      <4> QED BY <3>1, <3>3, <4>1, <4>2, <4>3
    <3>4. CASE m = n /\ HasReady(n) /\ nodes'[n].basis = nodes[n].nextBasis
      BY <3>4, <2>2, <2>0 DEF Apart, BasesApart
    <3> QED BY <3>2, <3>3, <3>4
  <2>3. CASE id \in ids /\ nodes'[m].basis # nodes[m].basis
    BY <2>3, <2>0, <1>g DEF Fresh, ReadyFresh, Untouched, StaysUntouched
  <2> QED BY <2>1, <2>2, <2>3, <1>a
<1>4. ReadyFresh'
  <2> SUFFICES ASSUME NEW m \in Nodes, HasReady(m)'
               PROVE  nodes'[m].nextBasis \in ids' /\ StaysUntouched(nodes[m].nextBasis)
    BY <1>f DEF ReadyFresh, Untouched, StaysUntouched
  <2>1. HasReady(m) /\ nodes'[m].nextBasis = nodes[m].nextBasis
    BY <1>f
  <2>2. nodes[m].nextBasis \in ids /\ Untouched(nodes[m].nextBasis)
    BY <2>1 DEF Fresh, ReadyFresh
  <2>3. nodes'[n].basis # nodes[m].nextBasis
    BY <2>1, <1>a DEF Apart, BasesApart, HasReady
  <2> QED BY <2>1, <2>2, <2>3, <1>a, <1>c, <1>h
<1>5. BasesApart'
  <2>1. ASSUME NEW k \in Nodes, NEW m \in Nodes, Placed(k)', Placed(m)',
               nodes'[k].basis = nodes'[m].basis
        PROVE  k = m
    BY <2>1, <1>a, <1>e DEF Apart, BasesApart
  <2>2. ASSUME NEW k \in Nodes, NEW m \in Nodes, Placed(k)', HasReady(m)'
        PROVE  nodes'[k].basis # nodes'[m].nextBasis
    BY <2>2, <1>a, <1>e, <1>f DEF Apart, BasesApart, HasReady
  <2>3. ASSUME NEW k \in Nodes, NEW m \in Nodes, HasReady(k)', HasReady(m)',
               nodes'[k].nextBasis = nodes'[m].nextBasis
        PROVE  k = m
    BY <2>3, <1>f DEF Apart, BasesApart
  <2> QED BY <2>1, <2>2, <2>3 DEF BasesApart
<1>6. OneNodePerId' /\ NoIdTwice'
  BY <1>a, <1>e DEF OneNodePerId, NoIdTwice
<1> QED BY <1>1, <1>2, <1>3, <1>4, <1>5, <1>6, <1>e, <1>f, <1>g, <1>h, <1>i

LEMMA ReserveKeeps ==
  ASSUME IssueInv, NEW n \in Nodes, NEW count \in Counts, Reserve(n, count)
  PROVE  IssueInv'
<1> DEFINE V == Values(Advance(nodes[n], count), count)
<1> USE DEF IssueInv
<1>a. count \in Nat \ {0}
  BY KeyIdsAssumption
<1>b. Issues(n, count) /\ reserved' = reserved \cup V /\ used' = used /\ talk' = talk
  BY DEF Reserve
<1>c. Grows(n, V)
  BY <1>a, <1>b, IssuesGrow
<1> HIDE DEF V
<1>d. /\ Ancestry' /\ BasesKnown' /\ CounterCovers' /\ ReadyFresh'
      /\ BasesApart' /\ OneNodePerId' /\ NoIdTwice'
      /\ \A b \in ID : Untouched(b) /\ b # nodes'[n].basis => StaysUntouched(b)
      /\ \A v \in V : StaysUntouched(v)
      /\ \A m \in Nodes : /\ Placed(m)' <=> Placed(m)
                          /\ HasReady(m)' => /\ HasReady(m)
                                             /\ nodes'[m].nextBasis = nodes[m].nextBasis
      /\ \A m \in Nodes : Placed(m) /\ nodes'[m].basis # nodes[m].basis
           => m = n /\ HasReady(n) /\ nodes'[n].basis = nodes[n].nextBasis
  BY <1>c, GrowsKeeps
<1>e. /\ n \in Nodes /\ Placed(n) /\ nodes' \in [Nodes -> LocalNode]
      /\ \A m \in Nodes : nodes'[m].id = nodes[m].id
      /\ \A m \in Nodes \ {n} : nodes'[m] = nodes[m]
      /\ nodes'[n].nextBasis = None <=> nodes'[n].switchAt = 0
      /\ nodes'[n].basis \in Known
      /\ V \subseteq ID /\ V \cap Known = {} /\ ids' = ids \cup V /\ twice' = twice
  BY <1>c DEF Grows
<1>f. Ledger' = Ledger \cup V /\ Ledger \subseteq ID /\ ids \subseteq Known
  BY <1>b DEF Ledger, TypeOK, Known
<1>g. \A id : IsNode(id)' <=> IsNode(id)
  BY <1>d, <1>e DEF IsNode
<1>h. \A u \in Talks : OnItsWay(u)' <=> OnItsWay(u)
  BY <1>b DEF OnItsWay
<1>1. TypeOK'
  BY <1>b, <1>e DEF TypeOK
<1>2. TalkOK'
  BY <1>b DEF TalkOK
<1>3. ValueFresh'
  <2> SUFFICES ASSUME NEW u \in Talks, OnItsWay(u)
               PROVE  talk[u].value \in ids' /\ StaysUntouched(talk[u].value)
    BY <1>b, <1>h DEF ValueFresh, Untouched, StaysUntouched
  <2>1. talk[u].value \in ids /\ Untouched(talk[u].value) /\ talk[u].value \in ID
    BY DEF Fresh, ValueFresh, TypeOK
  <2>2. nodes'[n].basis # talk[u].value
    BY <1>d, <1>e DEF Apart, ValuesApart
  <2> QED BY <2>1, <2>2, <1>d, <1>e
<1>4. LedgerFresh'
  <2> SUFFICES ASSUME NEW id \in Ledger'
               PROVE  id \in ids' /\ (~IsNode(id) => StaysUntouched(id))
    BY <1>g DEF LedgerFresh, Untouched, StaysUntouched
  <2>1. CASE id \in V
    BY <2>1, <1>d, <1>e
  <2>2. CASE id \in Ledger
    <3>1. id \in ids /\ (~IsNode(id) => Untouched(id)) /\ id \in ID
      BY <2>2, <1>f DEF Fresh, LedgerFresh
    <3>2. ~IsNode(id) => nodes'[n].basis # id
      BY <2>2, <1>d, <1>e DEF Apart, LedgerApart
    <3> QED BY <3>1, <3>2, <1>d, <1>e
  <2> QED BY <2>1, <2>2, <1>f
<1>5. ValuesApart'
  <2> SUFFICES ASSUME NEW u \in Talks, OnItsWay(u), NEW m \in Nodes, Placed(m)'
               PROVE  /\ talk[u].value \notin {nodes'[m].id, nodes'[m].basis}
                      /\ HasReady(m)' => talk[u].value # nodes'[m].nextBasis
    BY <1>b, <1>h DEF Apart, ValuesApart
  <2> QED BY <1>d, <1>e DEF Apart, ValuesApart
<1>6. LedgerApart'
  <2>1. ASSUME NEW id \in Ledger', NEW m \in Nodes, Placed(m)'
        PROVE  /\ ~IsNode(id) => id # nodes'[m].basis
               /\ HasReady(m)' => id # nodes'[m].nextBasis
               /\ id = nodes'[m].id => CoreOf[m] \in AdoptTo
    <3>1. CASE id \in Ledger
      BY <3>1, <2>1, <1>d, <1>e DEF Apart, LedgerApart
    <3>2. CASE id \in V
      <4>1. nodes'[m].basis \in Known /\ nodes[m].id \in Known
        BY <2>1, <1>d, <1>e DEF BasesKnown
      <4>2. HasReady(m)' => nodes'[m].nextBasis \in Known
        BY <1>d, <1>f DEF Fresh, ReadyFresh
      <4> QED BY <3>2, <4>1, <4>2, <1>e
    <3> QED BY <2>1, <3>1, <3>2, <1>f
  <2>2. ASSUME NEW id \in Ledger', NEW u \in Talks, OnItsWay(u)
        PROVE  id # talk[u].value
    <3>1. talk[u].value \in ids
      BY <2>2 DEF Fresh, ValueFresh
    <3> QED BY <3>1, <2>2, <1>e, <1>f DEF Apart, LedgerApart
  <2> QED BY <2>1, <2>2, <1>b, <1>g, <1>h DEF LedgerApart
<1> QED BY <1>1, <1>2, <1>3, <1>4, <1>5, <1>6, <1>d DEF Fresh, Apart

LEMMA IssueKeeps ==
  ASSUME IssueInv, NEW t \in Talks, Issue(t)
  PROVE  IssueInv'
<1> DEFINE n == talk[t].issuer
           after == Advance(nodes[n], 1)
           V == Values(after, 1)
           value == KeyId(after.basis, after.issued)
<1> USE DEF IssueInv
<1>a. /\ n \in Nodes /\ Issues(n, 1) /\ reserved' = reserved /\ used' = used
      /\ talk' = [talk EXCEPT ![t] = [talk[t] EXCEPT !.pc = "set", !.value = value]]
      /\ talk[t].pc = "ask"
  BY DEF Issue, TalkOK
<1>b. Grows(n, V)
  BY <1>a, IssuesGrow
<1>c. value \in V
  <2>1. after \in LocalNode /\ after.issued \in Nat
    BY <1>a, AdvanceParts DEF LocalNode
  <2> HIDE DEF after
  <2>2. after.issued \in (after.issued - 1 + 1)..after.issued
    BY <2>1
  <2> QED BY <2>2 DEF Values
<1> HIDE DEF value, V, after, n
<1>d. /\ Ancestry' /\ BasesKnown' /\ CounterCovers' /\ ReadyFresh'
      /\ BasesApart' /\ OneNodePerId' /\ NoIdTwice'
      /\ \A b \in ID : Untouched(b) /\ b # nodes'[n].basis => StaysUntouched(b)
      /\ \A v \in V : StaysUntouched(v)
      /\ \A m \in Nodes : /\ Placed(m)' <=> Placed(m)
                          /\ HasReady(m)' => /\ HasReady(m)
                                             /\ nodes'[m].nextBasis = nodes[m].nextBasis
      /\ \A m \in Nodes : Placed(m) /\ nodes'[m].basis # nodes[m].basis
           => m = n /\ HasReady(n) /\ nodes'[n].basis = nodes[n].nextBasis
  BY <1>b, GrowsKeeps
<1>e. /\ n \in Nodes /\ Placed(n) /\ nodes' \in [Nodes -> LocalNode]
      /\ \A m \in Nodes : nodes'[m].id = nodes[m].id
      /\ \A m \in Nodes \ {n} : nodes'[m] = nodes[m]
      /\ nodes'[n].nextBasis = None <=> nodes'[n].switchAt = 0
      /\ nodes'[n].basis \in Known
      /\ V \subseteq ID /\ V \cap Known = {} /\ ids' = ids \cup V /\ twice' = twice
  BY <1>b DEF Grows
<1>f. Ledger' = Ledger /\ Ledger \subseteq ID /\ ids \subseteq Known
  BY <1>a DEF Ledger, TypeOK, Known
<1>g. \A id : IsNode(id)' <=> IsNode(id)
  BY <1>d, <1>e DEF IsNode
<1>h. /\ talk' \in [Talks -> TalkState]
      /\ talk'[t].pc = "set" /\ talk'[t].value = value
      /\ talk'[t].node = talk[t].node /\ talk'[t].issuer = talk[t].issuer
      /\ \A u \in Talks \ {t} : talk'[u] = talk[u]
  <2>1. talk[t] \in TalkState /\ value \in ID
    BY <1>c, <1>e DEF TypeOK
  <2>2. /\ [talk[t] EXCEPT !.pc = "set", !.value = value] \in TalkState
        /\ [talk[t] EXCEPT !.pc = "set", !.value = value].pc = "set"
        /\ [talk[t] EXCEPT !.pc = "set", !.value = value].value = value
        /\ [talk[t] EXCEPT !.pc = "set", !.value = value].node = talk[t].node
        /\ [talk[t] EXCEPT !.pc = "set", !.value = value].issuer = talk[t].issuer
    BY <2>1 DEF TalkState
  <2> QED BY <2>2, <1>a DEF TypeOK
<1>i. value \notin Known /\ StaysUntouched(value) /\ value \in ids'
  BY <1>c, <1>d, <1>e
<1>1. TypeOK'
  BY <1>a, <1>e, <1>h DEF TypeOK
<1>2. TalkOK'
  <2> SUFFICES ASSUME NEW u \in Talks, talk'[u].pc # "idle"
               PROVE  talk'[u].node \in Nodes /\ talk'[u].issuer \in Nodes
    BY DEF TalkOK
  <2> QED BY <1>a, <1>h DEF TalkOK
<1>3. ValueFresh'
  <2> SUFFICES ASSUME NEW u \in Talks, OnItsWay(u)'
               PROVE  talk'[u].value \in ids' /\ StaysUntouched(talk'[u].value)
    BY DEF ValueFresh, Untouched, StaysUntouched
  <2>1. CASE u = t
    <3>1. StaysUntouched(talk'[u].value) <=> StaysUntouched(value)
      BY <2>1, <1>h DEF Untouched, StaysUntouched
    <3> QED BY <2>1, <3>1, <1>h, <1>i
  <2>2. CASE u # t
    <3>1. OnItsWay(u) /\ talk'[u] = talk[u]
      BY <2>2, <1>h DEF OnItsWay
    <3>2. talk[u].value \in ids /\ Untouched(talk[u].value) /\ talk[u].value \in ID
      BY <3>1 DEF Fresh, ValueFresh, TypeOK
    <3>3. nodes'[n].basis # talk[u].value
      BY <3>1, <1>d, <1>e DEF Apart, ValuesApart
    <3>4. StaysUntouched(talk[u].value)
      BY <3>2, <3>3, <1>d
    <3> QED BY <3>1, <3>2, <3>4, <1>e DEF Untouched, StaysUntouched
  <2> QED BY <2>1, <2>2
<1>4. LedgerFresh'
  <2> SUFFICES ASSUME NEW id \in Ledger
               PROVE  id \in ids' /\ (~IsNode(id) => StaysUntouched(id))
    BY <1>f, <1>g DEF LedgerFresh, Untouched, StaysUntouched
  <2>1. id \in ids /\ (~IsNode(id) => Untouched(id)) /\ id \in ID
    BY <1>f DEF Fresh, LedgerFresh
  <2>2. ~IsNode(id) => nodes'[n].basis # id
    BY <1>d, <1>e DEF Apart, LedgerApart
  <2> QED BY <2>1, <2>2, <1>d, <1>e
<1>5. ValuesApart'
  <2>1. ASSUME NEW u \in Talks, OnItsWay(u)', NEW m \in Nodes, Placed(m)'
        PROVE  /\ talk'[u].value \notin {nodes'[m].id, nodes'[m].basis}
               /\ HasReady(m)' => talk'[u].value # nodes'[m].nextBasis
    <3>1. CASE u = t
      <4>1. nodes'[m].basis \in Known /\ nodes[m].id \in Known
        BY <2>1, <1>d, <1>e DEF BasesKnown
      <4>2. HasReady(m)' => nodes'[m].nextBasis \in Known
        BY <1>d, <1>f DEF Fresh, ReadyFresh
      <4> QED BY <3>1, <4>1, <4>2, <1>e, <1>h, <1>i
    <3>2. CASE u # t
      <4>1. OnItsWay(u) /\ talk'[u] = talk[u]
        BY <2>1, <3>2, <1>h DEF OnItsWay
      <4> QED BY <4>1, <2>1, <1>d, <1>e DEF Apart, ValuesApart
    <3> QED BY <3>1, <3>2
  <2>2. ASSUME NEW u \in Talks, NEW w \in Talks, OnItsWay(u)', OnItsWay(w)',
               talk'[u].value = talk'[w].value
        PROVE  u = w
    <3>1. \A x \in Talks \ {t} : OnItsWay(x)' => OnItsWay(x) /\ talk'[x].value \in ids
      BY <1>h DEF OnItsWay, Fresh, ValueFresh
    <3> QED BY <2>2, <3>1, <1>f, <1>h, <1>i DEF Apart, ValuesApart
  <2> QED BY <2>1, <2>2 DEF ValuesApart
<1>6. LedgerApart'
  <2>1. ASSUME NEW id \in Ledger, NEW m \in Nodes, Placed(m)'
        PROVE  /\ ~IsNode(id) => id # nodes'[m].basis
               /\ HasReady(m)' => id # nodes'[m].nextBasis
               /\ id = nodes'[m].id => CoreOf[m] \in AdoptTo
    BY <2>1, <1>d, <1>e DEF Apart, LedgerApart
  <2>2. ASSUME NEW id \in Ledger, NEW u \in Talks, OnItsWay(u)'
        PROVE  id # talk'[u].value
    <3>1. CASE u = t
      BY <3>1, <1>f, <1>h, <1>i DEF Fresh, LedgerFresh
    <3>2. CASE u # t
      BY <3>2, <2>2, <1>h DEF OnItsWay, Apart, LedgerApart
    <3> QED BY <3>1, <3>2
  <2> QED BY <2>1, <2>2, <1>f, <1>g DEF LedgerApart
<1> QED BY <1>1, <1>2, <1>3, <1>4, <1>5, <1>6, <1>d DEF Fresh, Apart

-----------------------------------------------------------------------------
(* Steps that leave the nodes alone.                                       *)

(* No value is on its way that was not before. *)
NoNewValue ==
  \A u \in Talks : OnItsWay(u)' => OnItsWay(u) /\ talk'[u].value = talk[u].value

LEMMA NodesStay ==
  ASSUME IssueInv, nodes' = nodes, ids' = ids, twice' = twice, Ledger' = Ledger,
         talk' \in [Talks -> TalkState], TalkOK', NoNewValue
  PROVE  IssueInv'
<1> USE DEF IssueInv
<1>1. TypeOK'
  <2>1. reserved' \subseteq Ledger' /\ used' \subseteq Ledger' /\ Ledger \subseteq ID
    BY DEF Ledger, TypeOK
  <2> QED BY <2>1 DEF TypeOK
<1>2. /\ \A n \in Nodes : Placed(n)' <=> Placed(n)
      /\ \A n \in Nodes : HasReady(n)' <=> HasReady(n)
      /\ \A id : IsNode(id)' <=> IsNode(id)
  BY DEF Placed, HasReady, IsNode
<1>3. Ancestry' /\ BasesKnown' /\ CounterCovers' /\ OneNodePerId' /\ NoIdTwice'
  <2>1. Known' = Known
    BY DEF Known, FirstIds
  <2> QED BY <1>2, <2>1 DEF Ancestry, FirstIds, Beneath, BasesKnown, Fresh, CounterCovers,
         OneNodePerId, NoIdTwice
<1>4. ReadyFresh' /\ LedgerFresh'
  BY <1>2 DEF Fresh, ReadyFresh, LedgerFresh, Untouched
<1>5. ValueFresh'
  BY DEF Fresh, ValueFresh, Untouched, NoNewValue
<1>6. BasesApart'
  BY <1>2 DEF Apart, BasesApart
<1>7. ValuesApart'
  BY <1>2 DEF Apart, ValuesApart, NoNewValue
<1>8. LedgerApart'
  BY <1>2 DEF Apart, LedgerApart, NoNewValue
<1> QED BY <1>1, <1>3, <1>4, <1>5, <1>6, <1>7, <1>8 DEF Fresh, Apart

LEMMA TakeIntoUseKeeps ==
  ASSUME IssueInv, NEW id \in reserved, TakeIntoUse(id)
  PROVE  IssueInv'
<1>1. /\ nodes' = nodes /\ ids' = ids /\ twice' = twice /\ talk' = talk
      /\ Ledger' = Ledger
  BY DEF TakeIntoUse, Ledger
<1>2. talk' \in [Talks -> TalkState] /\ TalkOK' /\ NoNewValue
  BY <1>1 DEF IssueInv, TypeOK, TalkOK, NoNewValue, OnItsWay
<1> QED BY <1>1, <1>2, NodesStay

LEMMA BeginKeeps ==
  ASSUME IssueInv, NEW t \in Talks, NEW kind \in {"rollUp", "nextBasis", "create"},
         NEW n \in Nodes, NEW i \in Nodes, Begin(t, kind, n, i)
  PROVE  IssueInv'
<1> DEFINE begun == [Quiet EXCEPT !.pc = "ask", !.kind = kind, !.node = n, !.issuer = i]
<1>1. /\ nodes' = nodes /\ ids' = ids /\ twice' = twice /\ Ledger' = Ledger
      /\ talk' = [talk EXCEPT ![t] = begun]
  BY DEF Begin, Ledger
<1>2. Quiet \in TalkState
  BY NoneIsID DEF Quiet, TalkState
<1>3. begun \in TalkState /\ begun.pc = "ask" /\ begun.node = n /\ begun.issuer = i
  BY <1>2 DEF TalkState
<1> HIDE DEF begun
<1>4. talk' \in [Talks -> TalkState] /\ talk'[t] = begun
      /\ \A u \in Talks \ {t} : talk'[u] = talk[u]
  BY <1>1, <1>3 DEF IssueInv, TypeOK
<1>5. TalkOK' /\ NoNewValue
  BY <1>3, <1>4 DEF IssueInv, TalkOK, NoNewValue, OnItsWay
<1> QED BY <1>1, <1>4, <1>5, NodesStay

(* A conversation that is over. *)
LEMMA TalkOver ==
  ASSUME IssueInv, NEW t \in Talks, talk' = [talk EXCEPT ![t] = Quiet]
  PROVE  /\ talk' \in [Talks -> TalkState] /\ TalkOK' /\ NoNewValue
         /\ ~OnItsWay(t)'
         /\ \A u \in Talks \ {t} : talk'[u] = talk[u]
<1>1. Quiet \in TalkState /\ Quiet.pc = "idle"
  BY NoneIsID DEF Quiet, TalkState
<1>2. /\ talk' \in [Talks -> TalkState] /\ talk'[t] = Quiet
      /\ \A u \in Talks \ {t} : talk'[u] = talk[u]
  BY <1>1 DEF IssueInv, TypeOK
<1> QED BY <1>1, <1>2 DEF IssueInv, TalkOK, NoNewValue, OnItsWay

LEMMA FailsKeeps ==
  ASSUME IssueInv, NEW t \in Talks, Fails(t)
  PROVE  IssueInv'
<1>1. /\ nodes' = nodes /\ ids' = ids /\ twice' = twice /\ Ledger' = Ledger
      /\ talk' = [talk EXCEPT ![t] = Quiet]
  BY DEF Fails, Ledger
<1> QED BY <1>1, TalkOver, NodesStay

LEMMA NothingKeeps == ASSUME IssueInv, UNCHANGED vars PROVE IssueInv'
<1>1. /\ nodes' = nodes /\ ids' = ids /\ twice' = twice /\ talk' = talk
      /\ Ledger' = Ledger
  BY DEF vars, Ledger
<1>2. talk' \in [Talks -> TalkState] /\ TalkOK' /\ NoNewValue
  BY <1>1 DEF IssueInv, TypeOK, TalkOK, NoNewValue, OnItsWay
<1> QED BY <1>1, <1>2, NodesStay

-----------------------------------------------------------------------------
(* Steps that change one node and issue nothing.                           *)

LEMMA RetireKeeps ==
  ASSUME IssueInv, NEW n \in Nodes, Retire(n)
  PROVE  IssueInv'
<1> USE DEF IssueInv
<1>1. nodes[n] \in LocalNode /\ nodes[n].status = "ACTIVE"
  BY DEF TypeOK, Retire, Usable
<1>2. /\ [nodes[n] EXCEPT !.status = "RETIRED"] \in LocalNode
      /\ nodes' = [nodes EXCEPT ![n] = [nodes[n] EXCEPT !.status = "RETIRED"]]
  BY <1>1 DEF Retire, LocalNode
<1>3. /\ nodes' \in [Nodes -> LocalNode]
      /\ nodes'[n].status = "RETIRED"
      /\ \A m \in Nodes \ {n} : nodes'[m] = nodes[m]
      /\ \A m \in Nodes : /\ nodes'[m].id = nodes[m].id /\ nodes'[m].basis = nodes[m].basis
                          /\ nodes'[m].issued = nodes[m].issued
                          /\ nodes'[m].nextBasis = nodes[m].nextBasis
                          /\ nodes'[m].switchAt = nodes[m].switchAt
  BY <1>1, <1>2 DEF TypeOK, LocalNode
<1>4. /\ ids' = ids /\ twice' = twice /\ talk' = talk /\ reserved' = reserved
      /\ used' = used /\ Ledger' = Ledger
  BY DEF Retire, Ledger
<1>5. /\ \A m \in Nodes : Placed(m)' <=> Placed(m)
      /\ \A m \in Nodes : HasReady(m)' <=> HasReady(m)
  BY <1>1, <1>3 DEF Placed, HasReady
<1>6. /\ \A id : IsNode(id)' <=> IsNode(id)
      /\ \A u \in Talks : OnItsWay(u)' <=> OnItsWay(u)
  BY <1>3, <1>4, <1>5 DEF IsNode, OnItsWay
<1>7. TypeOK' /\ TalkOK'
  BY <1>3, <1>4 DEF TypeOK, TalkOK
<1>8. Ancestry' /\ BasesKnown' /\ CounterCovers' /\ OneNodePerId' /\ NoIdTwice'
  <2>1. Known' = Known
    BY <1>4 DEF Known, FirstIds
  <2> QED BY <1>3, <1>4, <1>5, <2>1 DEF Ancestry, FirstIds, Beneath, BasesKnown, Fresh,
         CounterCovers, OneNodePerId, NoIdTwice
<1>9. ReadyFresh' /\ ValueFresh' /\ LedgerFresh'
  BY <1>3, <1>4, <1>5, <1>6 DEF Fresh, ReadyFresh, ValueFresh, LedgerFresh, Untouched
<1>10. BasesApart'
  BY <1>3, <1>5 DEF Apart, BasesApart
<1>11. ValuesApart'
  BY <1>3, <1>4, <1>5, <1>6 DEF Apart, ValuesApart
<1>12. LedgerApart'
  BY <1>3, <1>4, <1>5, <1>6 DEF Apart, LedgerApart
<1> QED BY <1>7, <1>8, <1>9, <1>10, <1>11, <1>12 DEF Fresh, Apart

LEMMA SetBasisKeeps ==
  ASSUME IssueInv, NEW t \in Talks, SetBasis(t)
  PROVE  IssueInv'
<1> DEFINE n == talk[t].node
           value == talk[t].value
<1> USE DEF IssueInv
<1>a. /\ n \in Nodes /\ OnItsWay(t) /\ value \in ID
      /\ nodes[n] \in LocalNode /\ nodes[n].status = "ACTIVE"
  BY DEF SetBasis, Usable, OnItsWay, TalkOK, TypeOK, TalkState
<1>b. /\ nodes' = [nodes EXCEPT ![n] = [nodes[n] EXCEPT !.basis = value, !.issued = 0,
                                            !.nextBasis = None, !.switchAt = 0]]
      /\ talk' = [talk EXCEPT ![t] = Quiet]
      /\ UNCHANGED <<reserved, used, ids, twice>>
  BY DEF SetBasis, Ends
<1>c. /\ talk' \in [Talks -> TalkState] /\ TalkOK' /\ NoNewValue /\ ~OnItsWay(t)'
      /\ \A u \in Talks \ {t} : talk'[u] = talk[u]
  BY <1>b, TalkOver
<1>d. /\ value \in ids /\ Untouched(value)
      /\ \A m \in Nodes : Placed(m) =>
           /\ value \notin {nodes[m].id, nodes[m].basis}
           /\ HasReady(m) => value # nodes[m].nextBasis
      /\ \A u \in Talks : OnItsWay(u) /\ talk[u].value = value => u = t
      /\ value \notin Ledger
  BY <1>a DEF Fresh, ValueFresh, Apart, ValuesApart, LedgerApart
<1> HIDE DEF n, value
<1>e. LET now == [nodes[n] EXCEPT !.basis = value, !.issued = 0, !.nextBasis = None,
                                 !.switchAt = 0]
      IN  /\ now \in LocalNode
          /\ now.id = nodes[n].id /\ now.basis = value /\ now.issued = 0
          /\ now.nextBasis = None /\ now.switchAt = 0 /\ now.status = nodes[n].status
  BY <1>a, NoneIsID DEF LocalNode
<1>g. /\ nodes' \in [Nodes -> LocalNode]
      /\ nodes'[n].basis = value /\ nodes'[n].issued = 0
      /\ nodes'[n].nextBasis = None /\ nodes'[n].switchAt = 0
      /\ \A m \in Nodes \ {n} : nodes'[m] = nodes[m]
      /\ \A m \in Nodes : nodes'[m].id = nodes[m].id /\ nodes'[m].status = nodes[m].status
  BY <1>a, <1>b, <1>e DEF TypeOK
<1>h. /\ \A m \in Nodes : Placed(m)' <=> Placed(m)
      /\ \A m \in Nodes : HasReady(m)' => HasReady(m) /\ m # n
      /\ \A id : IsNode(id)' <=> IsNode(id)
      /\ Ledger' = Ledger
  BY <1>b, <1>g DEF Placed, HasReady, IsNode, Ledger
<1>i. Placed(n)
  BY <1>a DEF Placed
<1>1. TypeOK'
  BY <1>b, <1>c, <1>g DEF TypeOK
<1>2. Ancestry' /\ BasesKnown' /\ OneNodePerId' /\ NoIdTwice'
  <2>1. Known' = Known /\ value \in Known
    BY <1>b, <1>d DEF Known, FirstIds
  <2>2. BasesKnown'
    BY <1>g, <1>h, <2>1 DEF BasesKnown
  <2> QED BY <1>b, <1>g, <1>h, <2>1, <2>2 DEF Ancestry, FirstIds, Beneath, OneNodePerId, NoIdTwice
<1>3. CounterCovers'
  BY <1>b, <1>d, <1>g, <1>h DEF Fresh, CounterCovers, Untouched
<1>4. ReadyFresh' /\ LedgerFresh'
  BY <1>b, <1>g, <1>h DEF Fresh, ReadyFresh, LedgerFresh, Untouched
<1>5. ValueFresh'
  <2> SUFFICES ASSUME NEW u \in Talks, OnItsWay(u)'
               PROVE  talk'[u].value \in ids /\ \A id \in ids : Basis(id) # talk'[u].value
    BY <1>b DEF ValueFresh, Untouched
  <2> QED BY <1>c DEF Fresh, ValueFresh, Untouched, NoNewValue
<1>6. BasesApart'
  <2>1. ASSUME NEW k \in Nodes, NEW m \in Nodes, Placed(k), Placed(m),
               nodes'[k].basis = nodes'[m].basis
        PROVE  k = m
    <3>1. CASE k # n /\ m # n
      BY <2>1, <3>1, <1>g DEF Apart, BasesApart
    <3>2. CASE k = n \/ m = n
      BY <2>1, <3>2, <1>d, <1>g
    <3> QED BY <3>1, <3>2
  <2>2. ASSUME NEW k \in Nodes, NEW m \in Nodes, Placed(k), HasReady(m), m # n
        PROVE  nodes'[k].basis # nodes'[m].nextBasis
    <3>1. CASE k # n
      BY <2>2, <3>1, <1>g DEF Apart, BasesApart
    <3>2. CASE k = n
      BY <2>2, <3>2, <1>d, <1>g DEF HasReady
    <3> QED BY <3>1, <3>2
  <2>3. ASSUME NEW k \in Nodes, NEW m \in Nodes, HasReady(k), HasReady(m), k # n, m # n,
               nodes'[k].nextBasis = nodes'[m].nextBasis
        PROVE  k = m
    BY <2>3, <1>g DEF Apart, BasesApart
  <2> QED BY <2>1, <2>2, <2>3, <1>h DEF BasesApart
<1>7. ValuesApart'
  BY <1>c, <1>d, <1>g, <1>h DEF Apart, ValuesApart, NoNewValue
<1>8. LedgerApart'
  BY <1>c, <1>d, <1>g, <1>h DEF Apart, LedgerApart, NoNewValue
<1> QED BY <1>c, <1>1, <1>2, <1>3, <1>4, <1>5, <1>6, <1>7, <1>8 DEF Fresh, Apart

LEMMA SetNextBasisKeeps ==
  ASSUME IssueInv, NEW t \in Talks, SetNextBasis(t)
  PROVE  IssueInv'
<1> DEFINE n == talk[t].node
           value == talk[t].value
<1> USE DEF IssueInv
<1>a. /\ n \in Nodes /\ OnItsWay(t) /\ value \in ID
      /\ nodes[n] \in LocalNode /\ nodes[n].status = "ACTIVE"
  BY DEF SetNextBasis, Usable, OnItsWay, TalkOK, TypeOK, TalkState
<1>b. /\ nodes' = [nodes EXCEPT ![n] =
              IF nodes[n].nextBasis # None THEN nodes[n]
              ELSE [nodes[n] EXCEPT !.nextBasis = value, !.switchAt = MaxValue]]
      /\ talk' = [talk EXCEPT ![t] = Quiet]
      /\ UNCHANGED <<reserved, used, ids, twice>>
  BY DEF SetNextBasis, Ends
<1>c. /\ talk' \in [Talks -> TalkState] /\ TalkOK' /\ NoNewValue /\ ~OnItsWay(t)'
      /\ \A u \in Talks \ {t} : talk'[u] = talk[u]
  BY <1>b, TalkOver
<1>d. /\ value \in ids /\ Untouched(value)
      /\ \A m \in Nodes : Placed(m) =>
           /\ value \notin {nodes[m].id, nodes[m].basis}
           /\ HasReady(m) => value # nodes[m].nextBasis
      /\ \A u \in Talks : OnItsWay(u) /\ talk[u].value = value => u = t
      /\ value \notin Ledger
  BY <1>a DEF Fresh, ValueFresh, Apart, ValuesApart, LedgerApart
<1> HIDE DEF n, value
<1>1. CASE nodes[n].nextBasis # None
  <2>1. nodes' = nodes
    BY <1>1, <1>b DEF TypeOK
  <2> QED BY <2>1, <1>b, <1>c, NodesStay DEF Ledger
<1>2. CASE nodes[n].nextBasis = None
  <2>a. value # None /\ MaxValue \in Nat \ {0}
    <3>1. PICK first \in FirstIds : Beneath(value, first)
      BY <1>d DEF Ancestry
    <3>2. Len(first) \in Nat /\ Len(first) < Len(value)
      BY <3>1, FirstIdsAreIDs, LenProperties DEF Beneath, ID
    <3>3. Len(None) = 0
      BY DEF None
    <3> QED BY <3>2, <3>3, KeyIdsAssumption
  <2>e. LET now == [nodes[n] EXCEPT !.nextBasis = value, !.switchAt = MaxValue]
        IN  /\ now \in LocalNode
            /\ now.id = nodes[n].id /\ now.basis = nodes[n].basis
            /\ now.issued = nodes[n].issued /\ now.status = nodes[n].status
            /\ now.nextBasis = value /\ now.switchAt = MaxValue
    BY <1>a, <2>a DEF LocalNode
  <2>g. /\ nodes' \in [Nodes -> LocalNode]
        /\ nodes'[n].nextBasis = value /\ nodes'[n].switchAt # 0 /\ value # None
        /\ \A m \in Nodes \ {n} : nodes'[m] = nodes[m]
        /\ \A m \in Nodes : /\ nodes'[m].id = nodes[m].id
                            /\ nodes'[m].basis = nodes[m].basis
                            /\ nodes'[m].issued = nodes[m].issued
                            /\ nodes'[m].status = nodes[m].status
    BY <1>a, <1>b, <1>2, <2>a, <2>e DEF TypeOK
  <2>h. /\ \A m \in Nodes : Placed(m)' <=> Placed(m)
        /\ \A m \in Nodes \ {n} : HasReady(m)' <=> HasReady(m)
        /\ \A id : IsNode(id)' <=> IsNode(id)
        /\ Ledger' = Ledger
    BY <1>b, <2>g DEF Placed, HasReady, IsNode, Ledger
  <2>1. TypeOK'
    BY <1>b, <1>c, <2>g DEF TypeOK
  <2>2. Ancestry' /\ BasesKnown' /\ CounterCovers' /\ OneNodePerId' /\ NoIdTwice'
    <3>1. Known' = Known
      BY <1>b DEF Known, FirstIds
    <3> QED BY <1>b, <2>g, <2>h, <3>1 DEF Ancestry, FirstIds, Beneath, BasesKnown,
           OneNodePerId, NoIdTwice, Fresh, CounterCovers
  <2>3. ReadyFresh' /\ LedgerFresh'
    BY <1>b, <1>d, <2>g, <2>h DEF Fresh, ReadyFresh, LedgerFresh, Untouched
  <2>4. ValueFresh'
    <3> SUFFICES ASSUME NEW u \in Talks, OnItsWay(u)'
                 PROVE  talk'[u].value \in ids /\ \A id \in ids : Basis(id) # talk'[u].value
      BY <1>b DEF ValueFresh, Untouched
    <3> QED BY <1>c DEF Fresh, ValueFresh, Untouched, NoNewValue
  <2>5. BasesApart'
    <3>1. ASSUME NEW k \in Nodes, NEW m \in Nodes, Placed(k), HasReady(m)'
          PROVE  nodes'[k].basis # nodes'[m].nextBasis
      <4>1. CASE m # n
        BY <3>1, <4>1, <2>g, <2>h DEF Apart, BasesApart
      <4>2. CASE m = n
        BY <3>1, <4>2, <1>d, <2>g
      <4> QED BY <4>1, <4>2
    <3>2. ASSUME NEW k \in Nodes, NEW m \in Nodes, HasReady(k)', HasReady(m)',
                 nodes'[k].nextBasis = nodes'[m].nextBasis
          PROVE  k = m
      <4>1. CASE k # n /\ m # n
        BY <3>2, <4>1, <2>g, <2>h DEF Apart, BasesApart
      <4>2. \A j \in Nodes \ {n} : HasReady(j)' => nodes'[j].nextBasis # value
        BY <1>d, <2>g, <2>h DEF HasReady
      <4> QED BY <3>2, <4>1, <4>2, <2>g
    <3>3. \A k, m \in Nodes :
            Placed(k) /\ Placed(m) /\ nodes'[k].basis = nodes'[m].basis => k = m
      BY <2>g DEF Apart, BasesApart
    <3> QED BY <3>1, <3>2, <3>3, <2>h DEF BasesApart
  <2>6. ValuesApart'
    <3>1. ASSUME NEW u \in Talks, OnItsWay(u)', NEW m \in Nodes, Placed(m)
          PROVE  /\ talk'[u].value \notin {nodes'[m].id, nodes'[m].basis}
                 /\ HasReady(m)' => talk'[u].value # nodes'[m].nextBasis
      <4>1. u # t /\ OnItsWay(u) /\ talk'[u].value = talk[u].value
        BY <3>1, <1>c DEF NoNewValue
      <4>2. talk[u].value # value
        BY <4>1, <1>d
      <4>3. CASE m # n
        BY <3>1, <4>1, <4>3, <2>g, <2>h DEF Apart, ValuesApart
      <4>4. CASE m = n
        BY <3>1, <4>1, <4>2, <4>4, <2>g DEF Apart, ValuesApart
      <4> QED BY <4>3, <4>4
    <3>2. ASSUME NEW u \in Talks, NEW w \in Talks, OnItsWay(u)', OnItsWay(w)',
                 talk'[u].value = talk'[w].value
          PROVE  u = w
      BY <3>2, <1>c DEF NoNewValue, Apart, ValuesApart
    <3> QED BY <3>1, <3>2, <2>h DEF ValuesApart
  <2>7. LedgerApart'
    <3>1. ASSUME NEW id \in Ledger, NEW m \in Nodes, Placed(m)
          PROVE  /\ ~IsNode(id) => id # nodes'[m].basis
                 /\ HasReady(m)' => id # nodes'[m].nextBasis
                 /\ id = nodes'[m].id => CoreOf[m] \in AdoptTo
      <4>1. CASE m # n
        BY <3>1, <4>1, <2>g, <2>h DEF Apart, LedgerApart
      <4>2. CASE m = n
        BY <3>1, <4>2, <1>d, <2>g DEF Apart, LedgerApart
      <4> QED BY <4>1, <4>2
    <3>2. ASSUME NEW id \in Ledger, NEW u \in Talks, OnItsWay(u)'
          PROVE  id # talk'[u].value
      BY <3>2, <1>c DEF NoNewValue, Apart, LedgerApart
    <3> QED BY <3>1, <3>2, <2>h DEF LedgerApart
  <2> QED BY <1>c, <2>1, <2>2, <2>3, <2>4, <2>5, <2>6, <2>7 DEF Fresh, Apart
<1> QED BY <1>1, <1>2

-----------------------------------------------------------------------------
(* Steps that record a new node.                                           *)

(* An issued ID that is nobody's becomes node n. *)
LEMMA NewNodeKeeps ==
  ASSUME IssueInv, NEW n \in Nodes, NEW id \in ids,
         ~Placed(n), Untouched(id),
         \A m \in Nodes : Placed(m) =>
           /\ id \notin {nodes[m].id, nodes[m].basis}
           /\ HasReady(m) => id # nodes[m].nextBasis,
         id \in Ledger => CoreOf[n] \in AdoptTo,
         nodes' = [nodes EXCEPT ![n] = Accepted(id)],
         ids' = ids, twice' = twice, reserved' = reserved, used' = used,
         talk' \in [Talks -> TalkState], TalkOK', NoNewValue,
         \A u \in Talks : OnItsWay(u)' => talk'[u].value # id
  PROVE  IssueInv'
<1> USE DEF IssueInv
<1>a. /\ Accepted(id) \in LocalNode
      /\ Accepted(id).id = id /\ Accepted(id).basis = id
      /\ Accepted(id).nextBasis = None /\ Accepted(id).switchAt = 0
      /\ Accepted(id).issued = 0 /\ Accepted(id).status = "ACTIVE"
  BY NoneIsID DEF TypeOK, NoNode, Accepted, LocalNode
<1>b. /\ nodes' \in [Nodes -> LocalNode]
      /\ nodes'[n].id = id /\ nodes'[n].basis = id
      /\ nodes'[n].nextBasis = None /\ nodes'[n].switchAt = 0
      /\ nodes'[n].issued = 0 /\ nodes'[n].status = "ACTIVE"
      /\ \A m \in Nodes \ {n} : nodes'[m] = nodes[m]
  BY <1>a DEF TypeOK
<1>c. /\ \A m \in Nodes : Placed(m)' <=> Placed(m) \/ m = n
      /\ \A m \in Nodes : HasReady(m)' <=> HasReady(m) /\ m # n
      /\ \A m \in Nodes : Placed(m) => m # n
      /\ Ledger' = Ledger
  BY <1>b DEF Placed, HasReady, Ledger
<1>d. \A other : IsNode(other)' <=> IsNode(other) \/ other = id
  BY <1>b, <1>c DEF IsNode
<1>1. TypeOK'
  BY <1>b DEF TypeOK
<1>2. Ancestry' /\ BasesKnown' /\ NoIdTwice'
  <2>1. Known' = Known /\ id \in Known
    BY DEF Known, FirstIds
  <2>2. BasesKnown'
    BY <1>b, <1>c, <2>1 DEF BasesKnown
  <2> QED BY <2>1, <2>2 DEF Ancestry, FirstIds, Beneath, NoIdTwice
<1>3. CounterCovers'
  <2> SUFFICES ASSUME NEW m \in Nodes, Placed(m)', NEW other \in ids,
                      Basis(other) = nodes'[m].basis
               PROVE  Number(other) <= nodes'[m].issued
    BY DEF CounterCovers
  <2>1. m # n
    BY <1>b DEF Untouched
  <2> QED BY <2>1, <1>b, <1>c DEF Fresh, CounterCovers
<1>4. ReadyFresh' /\ LedgerFresh'
  BY <1>b, <1>c, <1>d DEF Fresh, ReadyFresh, LedgerFresh, Untouched
<1>5. ValueFresh'
  <2> SUFFICES ASSUME NEW u \in Talks, OnItsWay(u)'
               PROVE  /\ talk'[u].value \in ids
                      /\ \A other \in ids : Basis(other) # talk'[u].value
    BY DEF ValueFresh, Untouched
  <2> QED BY DEF Fresh, ValueFresh, Untouched, NoNewValue
<1>6. OneNodePerId' /\ BasesApart'
  <2>1. ASSUME NEW k \in Nodes, NEW m \in Nodes, Placed(k)', Placed(m)',
               nodes'[k].id = nodes'[m].id
        PROVE  k = m
    BY <2>1, <1>b, <1>c DEF OneNodePerId
  <2>2. ASSUME NEW k \in Nodes, NEW m \in Nodes, Placed(k)', Placed(m)',
               nodes'[k].basis = nodes'[m].basis
        PROVE  k = m
    BY <2>2, <1>b, <1>c DEF Apart, BasesApart
  <2>3. ASSUME NEW k \in Nodes, NEW m \in Nodes, Placed(k)', HasReady(m)'
        PROVE  nodes'[k].basis # nodes'[m].nextBasis
    BY <2>3, <1>b, <1>c DEF Apart, BasesApart, HasReady
  <2>4. ASSUME NEW k \in Nodes, NEW m \in Nodes, HasReady(k)', HasReady(m)',
               nodes'[k].nextBasis = nodes'[m].nextBasis
        PROVE  k = m
    BY <2>4, <1>b, <1>c DEF Apart, BasesApart
  <2> QED BY <2>1, <2>2, <2>3, <2>4 DEF OneNodePerId, BasesApart
<1>7. ValuesApart'
  <2>1. ASSUME NEW u \in Talks, OnItsWay(u)', NEW m \in Nodes, Placed(m)'
        PROVE  /\ talk'[u].value \notin {nodes'[m].id, nodes'[m].basis}
               /\ HasReady(m)' => talk'[u].value # nodes'[m].nextBasis
    <3>1. OnItsWay(u) /\ talk'[u].value = talk[u].value /\ talk'[u].value # id
      BY <2>1 DEF NoNewValue
    <3> QED BY <2>1, <3>1, <1>b, <1>c DEF Apart, ValuesApart
  <2>2. ASSUME NEW u \in Talks, NEW w \in Talks, OnItsWay(u)', OnItsWay(w)',
               talk'[u].value = talk'[w].value
        PROVE  u = w
    BY <2>2 DEF NoNewValue, Apart, ValuesApart
  <2> QED BY <2>1, <2>2 DEF ValuesApart
<1>8. LedgerApart'
  <2>1. ASSUME NEW other \in Ledger, NEW m \in Nodes, Placed(m)'
        PROVE  /\ ~IsNode(other)' => other # nodes'[m].basis
               /\ HasReady(m)' => other # nodes'[m].nextBasis
               /\ other = nodes'[m].id => CoreOf[m] \in AdoptTo
    BY <2>1, <1>b, <1>c, <1>d DEF Apart, LedgerApart
  <2>2. ASSUME NEW other \in Ledger, NEW u \in Talks, OnItsWay(u)'
        PROVE  other # talk'[u].value
    BY <2>2 DEF NoNewValue, Apart, LedgerApart
  <2> QED BY <2>1, <2>2, <1>c DEF LedgerApart
<1> QED BY <1>1, <1>2, <1>3, <1>4, <1>5, <1>6, <1>7, <1>8 DEF Fresh, Apart

LEMMA AcceptKeeps ==
  ASSUME IssueInv, NEW t \in Talks, Accept(t)
  PROVE  IssueInv'
<1> DEFINE n == talk[t].node
           value == talk[t].value
<1> USE DEF IssueInv
<1>a. n \in Nodes /\ OnItsWay(t) /\ ~Placed(n)
  BY DEF Accept, Free, OnItsWay, TalkOK
<1>b. /\ nodes' = [nodes EXCEPT ![n] = Accepted(value)]
      /\ talk' = [talk EXCEPT ![t] = Quiet]
      /\ ids' = ids /\ twice' = twice /\ reserved' = reserved /\ used' = used
  BY DEF Accept, Ends
<1>c. /\ talk' \in [Talks -> TalkState] /\ TalkOK' /\ NoNewValue /\ ~OnItsWay(t)'
      /\ \A u \in Talks \ {t} : talk'[u] = talk[u]
  BY <1>b, TalkOver
<1>d. /\ value \in ids /\ Untouched(value)
      /\ \A m \in Nodes : Placed(m) =>
           /\ value \notin {nodes[m].id, nodes[m].basis}
           /\ HasReady(m) => value # nodes[m].nextBasis
      /\ \A u \in Talks : OnItsWay(u) /\ talk[u].value = value => u = t
      /\ value \notin Ledger
  BY <1>a DEF Fresh, ValueFresh, Apart, ValuesApart, LedgerApart
<1> HIDE DEF n, value
<1>e. \A u \in Talks : OnItsWay(u)' => talk'[u].value # value
  BY <1>c, <1>d DEF NoNewValue
<1> HIDE DEF IssueInv
<1> QED BY <1>a, <1>b, <1>c, <1>d, <1>e, NewNodeKeeps

(* The ID is on no other Core, as none but this one adopts; on this one    *)
(* the store refuses it.                                                   *)
LEMMA AdoptIsFresh ==
  ASSUME IssueInv, OneAdopter, NEW n \in Nodes, NEW id \in used, AdoptIssued(n, id)
  PROVE  /\ id \in ids /\ id \in Ledger /\ ~Placed(n) /\ ~IsNode(id) /\ Untouched(id)
         /\ CoreOf[n] \in AdoptTo
<1> USE DEF IssueInv
<1>1. /\ CoreOf[n] \in AdoptTo /\ Free(n, id) /\ ~Placed(n) /\ id \in Ledger
  BY DEF AdoptIssued, Free, Ledger
<1>2. ~IsNode(id)
  <2> SUFFICES ASSUME NEW m \in Nodes, Placed(m), nodes[m].id = id PROVE FALSE
    BY DEF IsNode
  <2>1. CoreOf[m] = CoreOf[n]
    BY <1>1 DEF Apart, LedgerApart, OneAdopter
  <2> QED BY <2>1, <1>1 DEF Free
<1> QED BY <1>1, <1>2 DEF Fresh, LedgerFresh

LEMMA AdoptIssuedKeeps ==
  ASSUME IssueInv, OneAdopter, NEW n \in Nodes, NEW id \in used, AdoptIssued(n, id)
  PROVE  IssueInv'
<1>1. /\ id \in ids /\ id \in Ledger /\ ~Placed(n) /\ ~IsNode(id) /\ Untouched(id)
      /\ CoreOf[n] \in AdoptTo
  BY AdoptIsFresh
<1>2. /\ nodes' = [nodes EXCEPT ![n] = Accepted(id)]
      /\ ids' = ids /\ twice' = twice /\ reserved' = reserved /\ used' = used
      /\ talk' = talk
  BY DEF AdoptIssued
<1>3. talk' \in [Talks -> TalkState] /\ TalkOK' /\ NoNewValue
  BY <1>2 DEF IssueInv, TypeOK, TalkOK, NoNewValue, OnItsWay
<1>4. \A m \in Nodes : Placed(m) =>
           /\ id \notin {nodes[m].id, nodes[m].basis}
           /\ HasReady(m) => id # nodes[m].nextBasis
  BY <1>1 DEF IssueInv, Apart, LedgerApart, IsNode
<1>5. \A u \in Talks : OnItsWay(u)' => talk'[u].value # id
  BY <1>1, <1>2 DEF IssueInv, Apart, LedgerApart, OnItsWay
<1> QED BY <1>1, <1>2, <1>3, <1>4, <1>5, NewNodeKeeps

-----------------------------------------------------------------------------
(* Every step.                                                             *)

LEMMA NextKeeps ==
  ASSUME OneAdopter, IssueInv, [Next]_vars
  PROVE  IssueInv'
<1>1. ASSUME NEW n \in Nodes, NEW count \in Counts, Reserve(n, count) PROVE IssueInv'
  BY <1>1, ReserveKeeps
<1>2. ASSUME NEW id \in reserved, TakeIntoUse(id) PROVE IssueInv'
  BY <1>2, TakeIntoUseKeeps
<1>3. ASSUME NEW t \in Talks, NEW n \in Nodes, NEW i \in Nodes,
             RollUp(t, n, i) \/ PrepareNextBasis(t, n, i) \/ CreateNode(t, n, i)
      PROVE  IssueInv'
  <2>1. PICK kind \in {"rollUp", "nextBasis", "create"} : Begin(t, kind, n, i)
    BY <1>3 DEF RollUp, PrepareNextBasis, CreateNode
  <2> QED BY <2>1, BeginKeeps
<1>4. ASSUME NEW t \in Talks, Issue(t) PROVE IssueInv'
  BY <1>4, IssueKeeps
<1>5. ASSUME NEW t \in Talks, SetBasis(t) PROVE IssueInv'
  BY <1>5, SetBasisKeeps
<1>6. ASSUME NEW t \in Talks, SetNextBasis(t) PROVE IssueInv'
  BY <1>6, SetNextBasisKeeps
<1>7. ASSUME NEW t \in Talks, Accept(t) PROVE IssueInv'
  BY <1>7, AcceptKeeps
<1>8. ASSUME NEW t \in Talks, Fails(t) PROVE IssueInv'
  BY <1>8, FailsKeeps
<1>9. ASSUME NEW n \in Nodes, NEW id \in used, AdoptIssued(n, id) PROVE IssueInv'
  BY <1>9, AdoptIssuedKeeps
<1>10. ASSUME NEW n \in Nodes, Retire(n) PROVE IssueInv'
  BY <1>10, RetireKeeps
<1>11. CASE UNCHANGED vars
  BY <1>11, NothingKeeps
<1> QED BY <1>1, <1>2, <1>3, <1>4, <1>5, <1>6, <1>7, <1>8, <1>9, <1>10, <1>11 DEF Next

(* Everything that may become a basis was issued, is untouched and is      *)
(* nobody else's, always.                                                  *)
THEOREM IssueInvAlways == ASSUME OneAdopter PROVE Spec => []IssueInv
<1>1. Init => IssueInv
  BY InitIssue
<1>2. IssueInv /\ [Next]_vars => IssueInv'
  BY NextKeeps
<1> QED BY <1>1, <1>2, PTL DEF Spec

(* Records, ledger and conversations keep their types; a ready basis and   *)
(* its limit are set together, or neither.                                 *)
THEOREM KeyIdsTypeCorrect == ASSUME OneAdopter PROVE Spec => []TypeOK
<1>1. IssueInv => TypeOK
  BY DEF IssueInv
<1> QED BY <1>1, IssueInvAlways, PTL

(* No ID is ever issued twice, by any number of nodes, Cores and           *)
(* conversations, whatever IDs they start with and whichever fail halfway. *)
THEOREM NoIdIssuedTwice == ASSUME OneAdopter PROVE Spec => []NoIdTwice
<1>1. IssueInv => NoIdTwice
  BY DEF IssueInv
<1> QED BY <1>1, IssueInvAlways, PTL

(* An ID names one node, as long as issued IDs are adopted on one Core.    *)
THEOREM IdNamesOneNode == ASSUME OneAdopter PROVE Spec => []OneNodePerId
<1>1. IssueInv => OneNodePerId
  BY DEF IssueInv
<1> QED BY <1>1, IssueInvAlways, PTL

-----------------------------------------------------------------------------
(* A basis is taken up only once.                                          *)

LEMMA StepTakesFresh ==
  ASSUME OneAdopter, IssueInv, [Next]_vars,
         NEW m \in Nodes, nodes'[m].basis # nodes[m].basis
  PROVE  Untouched(nodes'[m].basis)
<1> USE DEF IssueInv
<1>1. \A n \in Nodes : nodes[n] \in LocalNode
  BY DEF TypeOK
<1>2. ASSUME NEW n \in Nodes, NEW V, Grows(n, V) PROVE Untouched(nodes'[m].basis)
  BY <1>2 DEF Grows, Fresh, ReadyFresh
<1>3. ASSUME NEW n \in Nodes, NEW count \in Counts, Reserve(n, count)
      PROVE  Untouched(nodes'[m].basis)
  BY <1>2, <1>3, IssuesGrow, KeyIdsAssumption DEF Reserve
<1>4. ASSUME NEW t \in Talks, Issue(t) PROVE Untouched(nodes'[m].basis)
  BY <1>2, <1>4, IssuesGrow DEF Issue, TalkOK
<1>5. ASSUME NEW t \in Talks, NEW node, Ends(t, talk[t].kind, node)
      PROVE  /\ m = talk[t].node /\ nodes'[m] = node
             /\ Untouched(talk[t].value)
  BY <1>5 DEF Ends, TypeOK, OnItsWay, Fresh, ValueFresh
<1>6. ASSUME NEW t \in Talks, SetBasis(t) PROVE Untouched(nodes'[m].basis)
  <2> DEFINE now == [nodes[talk[t].node] EXCEPT !.basis = talk[t].value, !.issued = 0,
                                                !.nextBasis = None, !.switchAt = 0]
  <2>1. Ends(t, talk[t].kind, now)
    BY <1>6 DEF SetBasis, Ends
  <2>2. m = talk[t].node /\ nodes'[m] = now /\ Untouched(talk[t].value)
    BY <2>1, <1>5
  <2> QED BY <2>2, <1>1 DEF LocalNode
<1>7. ASSUME NEW t \in Talks, SetNextBasis(t) PROVE FALSE
  <2> DEFINE node == nodes[talk[t].node]
             now == IF node.nextBasis # None THEN node
                    ELSE [node EXCEPT !.nextBasis = talk[t].value, !.switchAt = MaxValue]
  <2>1. Ends(t, talk[t].kind, now)
    BY <1>7 DEF SetNextBasis, Ends
  <2>2. m = talk[t].node /\ nodes'[m] = now
    BY <2>1, <1>5
  <2> QED BY <2>2, <1>1 DEF LocalNode
<1>8. ASSUME NEW t \in Talks, Accept(t) PROVE Untouched(nodes'[m].basis)
  <2>1. Ends(t, talk[t].kind, Accepted(talk[t].value))
    BY <1>8 DEF Accept, Ends
  <2>2. nodes'[m] = Accepted(talk[t].value) /\ Untouched(talk[t].value)
    BY <2>1, <1>5
  <2> QED BY <2>2 DEF Accepted, NoNode
<1>9. ASSUME NEW n \in Nodes, NEW id \in used, AdoptIssued(n, id)
      PROVE  Untouched(nodes'[m].basis)
  <2>1. Untouched(id)
    BY <1>9, AdoptIsFresh
  <2>2. nodes'[m] = Accepted(id)
    BY <1>9 DEF AdoptIssued, TypeOK
  <2> QED BY <2>1, <2>2 DEF Accepted, NoNode
<1>10. ASSUME NEW n \in Nodes, Retire(n) PROVE FALSE
  BY <1>1, <1>10 DEF Retire, TypeOK, LocalNode
<1>11. ASSUME nodes' = nodes PROVE FALSE
  BY <1>11
<1>12. ASSUME NEW id \in reserved, TakeIntoUse(id) PROVE FALSE
  BY <1>11, <1>12 DEF TakeIntoUse
<1>13. ASSUME NEW t \in Talks, NEW n \in Nodes, NEW i \in Nodes,
              RollUp(t, n, i) \/ PrepareNextBasis(t, n, i) \/ CreateNode(t, n, i)
       PROVE  FALSE
  BY <1>11, <1>13 DEF RollUp, PrepareNextBasis, CreateNode, Begin
<1>14. ASSUME NEW t \in Talks, Fails(t) PROVE FALSE
  BY <1>11, <1>14 DEF Fails
<1>15. CASE UNCHANGED vars
  BY <1>11, <1>15 DEF vars
<1> QED BY <1>3, <1>4, <1>6, <1>7, <1>8, <1>9, <1>10, <1>12, <1>13, <1>14, <1>15 DEF Next

(* A node takes up only a basis nothing was ever issued from: none comes   *)
(* back, so its counter may start over.                                    *)
THEOREM BasisTakenUpFresh == ASSUME OneAdopter PROVE Spec => BasisIsFresh
<1>1. IssueInv /\ [Next]_vars =>
        [\A n \in Nodes : nodes'[n].basis # nodes[n].basis
           => \A id \in ids : Basis(id) # nodes'[n].basis]_vars
  <2> SUFFICES ASSUME IssueInv, [Next]_vars,
                      NEW n \in Nodes, nodes'[n].basis # nodes[n].basis
               PROVE  \A id \in ids : Basis(id) # nodes'[n].basis
    OBVIOUS
  <2>1. Untouched(nodes'[n].basis)
    BY StepTakesFresh
  <2> QED BY <2>1 DEF Untouched
<1> QED BY <1>1, IssueInvAlways, PTL DEF Spec, BasisIsFresh

-----------------------------------------------------------------------------
(* The old basis is left in time.                                          *)

LEMMA NoneBeyond ==
  ASSUME IssueInv, NEW k \in Nodes, NEW count \in Nat \ {0}, Issues(k, count),
         NEW n \in Nodes, HasReady(n), NEW id \in ids' \ ids,
         Basis(id) = nodes[n].basis
  PROVE  Number(id) <= nodes[n].switchAt
<1> DEFINE after == Advance(nodes[k], count)
           V == Values(after, count)
<1> USE DEF IssueInv
<1>1. /\ after \in LocalNode
      /\ \/ /\ ~Switches(nodes[k], count)
            /\ after.basis = nodes[k].basis
            /\ after.issued = nodes[k].issued + count
         \/ /\ Switches(nodes[k], count)
            /\ after.basis = nodes[k].nextBasis
  BY AdvanceParts
<1>2. nodes' = [nodes EXCEPT ![k] = after] /\ ids' = ids \cup V /\ Placed(k)
  BY DEF Issues, Usable, Placed
<1>3. Grows(k, V)
  BY IssuesGrow
<1> HIDE DEF after, V
<1>4. nodes'[k] = after
  BY <1>2 DEF TypeOK
<1>5. Basis(id) = after.basis /\ Number(id) <= after.issued /\ Number(id) \in Nat
  BY <1>2, <1>3, <1>4 DEF Grows
<1>6. ~Switches(nodes[k], count) /\ k = n
  <2>1. CASE Switches(nodes[k], count)
    BY <1>1, <1>2, <1>5, <2>1 DEF Switches, HasReady, Apart, BasesApart
  <2>2. CASE ~Switches(nodes[k], count)
    BY <1>1, <1>2, <1>5, <2>2 DEF HasReady, Apart, BasesApart
  <2> QED BY <2>1, <2>2
<1>7. after.issued <= nodes[n].switchAt
  <2>1. nodes[n] \in LocalNode
    BY DEF TypeOK
  <2> QED BY <2>1, <1>1, <1>6 DEF Switches, HasReady, LocalNode
<1>8. after.issued \in Nat /\ nodes[n].switchAt \in Nat
  BY <1>1 DEF TypeOK, LocalNode
<1> QED BY <1>5, <1>7, <1>8

(* While a ready basis waits, no number above its limit is issued from the *)
(* old basis, whatever the reservation that reaches the limit asks for.    *)
THEOREM NoneIssuedBeyondSwitch == ASSUME OneAdopter PROVE Spec => NoneBeyondSwitch
<1>1. IssueInv /\ [Next]_vars =>
        [\A n \in Nodes : Placed(n) /\ nodes[n].nextBasis # None
           => \A id \in ids' \ ids :
                Basis(id) = nodes[n].basis => Number(id) <= nodes[n].switchAt]_vars
  <2> SUFFICES ASSUME IssueInv, [Next]_vars, NEW n \in Nodes, HasReady(n),
                      NEW id \in ids' \ ids, Basis(id) = nodes[n].basis
               PROVE  Number(id) <= nodes[n].switchAt
    BY DEF HasReady
  <2>1. ASSUME NEW k \in Nodes, NEW count \in Counts, Reserve(k, count)
        PROVE  Number(id) <= nodes[n].switchAt
    BY <2>1, NoneBeyond, KeyIdsAssumption DEF Reserve
  <2>2. ASSUME NEW t \in Talks, Issue(t) PROVE Number(id) <= nodes[n].switchAt
    BY <2>2, NoneBeyond DEF Issue, IssueInv, TalkOK
  <2>3. CASE ids' = ids
    BY <2>3
  <2> QED BY <2>1, <2>2, <2>3 DEF Next, vars, TakeIntoUse, RollUp, PrepareNextBasis,
         CreateNode, Begin, SetBasis, SetNextBasis, Accept, Ends, Fails, AdoptIssued, Retire
<1> QED BY <1>1, IssueInvAlways, PTL DEF Spec, NoneBeyondSwitch

=============================================================================
