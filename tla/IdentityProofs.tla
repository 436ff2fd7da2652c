---------------------------- MODULE IdentityProofs ----------------------------
(***************************************************************************)
(* Proofs about how a Core comes by IDs without another Core's help: what  *)
(* it assigns from its blocks of first IDs (FirstIds), and how it becomes  *)
(* a node itself (Joining).                                                *)
(***************************************************************************)
EXTENDS FirstIds, Joining, FiniteSetTheorems, TLAPS

(***************************************************************************)
(* FirstIds, for any Cores, blocks, sizes of a block and requests: no      *)
(* first ID is assigned twice.                                             *)
(*                                                                         *)
(* The argument: a block none of whose values was assigned may be granted; *)
(* the others must not be granted again.  Those are the block a Core holds *)
(* and the ones it held before, and a request still under way that brings  *)
(* one of them finds the row not used up, or finds the block it brings.    *)
(***************************************************************************)
Values(b) == RangeStart(b) .. RangeEnd(b) - 1
Unused(b) == \A v \in Values(b) : assigned[v] = 0

Row == [block : Block \cup {NoBlock}, issued : Nat, end : Nat]

Request ==
  [pc : {"idle", "read", "seed", "change"}, core : Core \cup {NoBlock},
   wants : Block \cup {NoBlock}, held : Row]

FirstIdsTypes ==
  /\ row \in [Core -> Row]
  /\ request \in [CodeRequest -> Request]
  /\ holder \in [Block -> Core \cup {NoBlock}]
  /\ latest \in [Core -> Block \cup {NoBlock}]
  /\ assigned \in [Value -> Nat]

(* What a row says is still to come was not assigned. *)
RowOK(c) ==
  LET r == row[c]
  IN IF r.block = NoBlock THEN r = NoRow
     ELSE /\ holder[r.block] = c
          /\ r.end = RangeEnd(r.block)
          /\ r.issued \in RangeStart(r.block) - 1 .. r.end - 1
          /\ \A v \in r.issued + 1 .. r.end - 1 : assigned[v] = 0

(* Blocks that were never granted, and the block that may be brought again. *)
HeldOK(c) ==
  /\ row[c] = NoRow => \A b \in Block : holder[b] = c => Unused(b)
  /\ row[c].block = 0 => \A b \in Block \ {0} : holder[b] = c => Unused(b)
  /\ latest[c] # NoBlock => /\ holder[latest[c]] = c
                            /\ row[c].block = latest[c] \/ Unused(latest[c])
  /\ latest[c] = 0 => row[c].block \in {NoBlock, 0}

HoldersOK ==
  /\ holder[0] = Original
  /\ \A b \in Block : holder[b] = NoBlock => Unused(b)

(* A request that may still set the row it reads. *)
MaySet(q) == request[q].pc # "idle" /\ (request[q].pc = "seed" \/ request[q].wants # NoBlock)

(* If it finds the row used up, it brings a block that was never used, or  *)
(* the very block that is used up, and it has read or will read so.        *)
RequestOK(q) ==
  LET r == request[q]
      held == row[r.core]
  IN /\ r.pc # "idle" => r.core \in Core
     /\ r.pc = "seed" => r.core = Original
     /\ r.pc # "idle" /\ r.wants # NoBlock =>
          holder[r.wants] = r.core /\ (r.wants # 0 => latest[r.core] # 0)
     /\ MaySet(q) /\ held # NoRow /\ UsedUp(held) =>
          /\ r.pc = "seed" => held.block = 0 /\ Unused(0)
          /\ r.wants = 0 => held.block = 0
          /\ r.wants # NoBlock =>
               /\ \/ Unused(r.wants)
                  \/ held.block = r.wants /\ (r.pc = "read" \/ r.held.block = r.wants)
               /\ held.block = r.wants \/ held.block # latest[r.core] \/ Unused(held.block)

FirstIdsInv ==
  /\ FirstIdsTypes
  /\ NoFirstIdTwice
  /\ HoldersOK
  /\ \A c \in Core : RowOK(c) /\ HeldOK(c)
  /\ \A q \in CodeRequest : RequestOK(q)

-----------------------------------------------------------------------------
(* Ranges.                                                                 *)

LEMMA NextMultiple ==
  ASSUME NEW a \in Nat, NEW b \in Nat, NEW s \in Nat, a < b
  PROVE  (a + 1) * s <= b * s
<1>1. PICK d \in Nat : b = a + 1 + d
  <2>1. b - (a + 1) \in Nat /\ b = a + 1 + (b - (a + 1))
    OBVIOUS
  <2> QED BY <2>1
<1>2. b * s = (a + 1) * s + d * s
  BY <1>1
<1>3. d * s \in Nat /\ (a + 1) * s \in Nat
  OBVIOUS
<1> QED BY <1>2, <1>3

LEMMA RangeOfBlock ==
  ASSUME NEW b \in Block
  PROVE  /\ RangeStart(b) \in Nat /\ RangeEnd(b) \in Nat
         /\ 2 <= RangeStart(b) /\ RangeStart(b) <= RangeEnd(b)
         /\ RangeEnd(b) <= RESERVED_TOP_LEVEL_LIMIT
         /\ b # 0 => RangeStart(b) < RangeEnd(b)
<1> DEFINE s == TOP_LEVEL_BLOCK_SIZE
<1>1. b \in Nat /\ s \in Nat /\ 2 <= s /\ b * s \in Nat /\ (b + 1) * s \in Nat
      /\ b * s < RESERVED_TOP_LEVEL_LIMIT
      /\ RESERVED_TOP_LEVEL_LIMIT \in Nat /\ 2 <= RESERVED_TOP_LEVEL_LIMIT
  BY FirstIdsAssumption
<1>2. (b + 1) * s = b * s + s
  BY <1>1
<1>3. CASE b = 0
  <2>1. b * s = 0
    BY <1>1, <1>3
  <2> HIDE DEF s
  <2> QED BY <1>1, <1>2, <1>3, <2>1 DEF RangeStart, RangeEnd, s
<1>4. CASE b # 0
  <2>1. s <= b * s
    <3>1. (0 + 1) * s <= b * s
      BY <1>1, <1>4, NextMultiple
    <3> QED BY <1>1, <3>1
  <2> HIDE DEF s
  <2> QED BY <1>1, <1>2, <1>4, <2>1 DEF RangeStart, RangeEnd, s
<1> QED BY <1>3, <1>4

LEMMA BlocksAreApart ==
  ASSUME NEW a \in Block, NEW b \in Block, a # b, NEW v \in Values(a)
  PROVE  v \notin Values(b)
<1> DEFINE s == TOP_LEVEL_BLOCK_SIZE
<1>1. ASSUME NEW x \in Block, NEW y \in Block, x < y
      PROVE  RangeEnd(x) <= RangeStart(y)
  <2>1. x \in Nat /\ y \in Nat /\ s \in Nat /\ (x + 1) * s \in Nat /\ y * s \in Nat
        /\ RESERVED_TOP_LEVEL_LIMIT \in Nat
    BY FirstIdsAssumption
  <2>2. (x + 1) * s <= y * s
    BY <1>1, <2>1, NextMultiple
  <2>3. RangeStart(y) = y * s
    BY <1>1, <2>1 DEF RangeStart
  <2>4. RangeEnd(x) <= (x + 1) * s
    BY <2>1 DEF RangeEnd
  <2>5. RangeEnd(x) \in Nat
    BY RangeOfBlock
  <2> QED BY <2>1, <2>2, <2>3, <2>4, <2>5
<1>2. a < b \/ b < a
  BY FirstIdsAssumption
<1>3. /\ RangeStart(a) \in Nat /\ RangeEnd(a) \in Nat
      /\ RangeStart(b) \in Nat /\ RangeEnd(b) \in Nat
  BY RangeOfBlock
<1>4. RangeEnd(a) <= RangeStart(b) \/ RangeEnd(b) <= RangeStart(a)
  BY <1>1, <1>2
<1> QED BY <1>3, <1>4 DEF Values

LEMMA ValuesAreFirstIds ==
  ASSUME NEW b \in Block, NEW v \in Values(b)
  PROVE  v \in Value /\ 2 <= v
BY RangeOfBlock, FirstIdsAssumption DEF Values, Value

LEMMA BlankRow ==
  /\ NoRow \in Row /\ NoRow.block = NoBlock /\ NoRow.issued = 0 /\ NoRow.end = 0
  /\ NoBlock # 0 /\ NoBlock \notin Block /\ NoBlock \notin Core /\ 0 \in Block
  /\ NoRequest \in Request /\ NoRequest.pc = "idle" /\ NoRequest.core = NoBlock
  /\ NoRequest.wants = NoBlock
  /\ Original \in Core
BY FirstIdsAssumption DEF NoRow, Row, NoRequest, Request

(* A block just granted has all its values to come, at least one but for   *)
(* block 0.                                                                *)
LEMMA GrantedRow ==
  ASSUME NEW b \in Block
  PROVE  /\ Granted(b) \in Row
         /\ Granted(b).block = b
         /\ Granted(b).end = RangeEnd(b)
         /\ Granted(b).issued = RangeStart(b) - 1
         /\ Granted(b).issued \in RangeStart(b) - 1 .. RangeEnd(b) - 1
         /\ Granted(b).issued + 1 .. Granted(b).end - 1 = Values(b)
         /\ Granted(b) # NoRow
         /\ UsedUp(Granted(b)) => b = 0
BY RangeOfBlock, BlankRow DEF Granted, Row, Values, UsedUp

-----------------------------------------------------------------------------

LEMMA InitFirstIds == ASSUME FirstIdsInit PROVE FirstIdsInv
<1>1. FirstIdsTypes
  BY BlankRow, FirstIdsAssumption DEF FirstIdsInit, FirstIdsTypes
<1>2. \A b \in Block : Unused(b)
  BY ValuesAreFirstIds DEF FirstIdsInit, Unused
<1>3. NoFirstIdTwice
  BY DEF FirstIdsInit, NoFirstIdTwice
<1>4. HoldersOK
  BY <1>2, BlankRow DEF FirstIdsInit, HoldersOK
<1>5. ASSUME NEW c \in Core PROVE RowOK(c) /\ HeldOK(c)
  BY <1>2, BlankRow DEF FirstIdsInit, RowOK, HeldOK
<1>6. ASSUME NEW q \in CodeRequest PROVE RequestOK(q)
  BY BlankRow DEF FirstIdsInit, RequestOK, MaySet
<1> QED BY <1>1, <1>3, <1>4, <1>5, <1>6 DEF FirstIdsInv

(* A request ends, whatever the reason. *)
LEMMA EndsKeeps ==
  ASSUME FirstIdsInv, NEW q \in CodeRequest, RequestEnds(q)
  PROVE  FirstIdsInv'
BY BlankRow DEF FirstIdsInv, FirstIdsTypes, NoFirstIdTwice, HoldersOK, RowOK, HeldOK, RequestOK,
                MaySet, Unused, RequestEnds

LEMMA ComesKeeps ==
  ASSUME FirstIdsInv, NEW q \in CodeRequest, NEW c \in Core, NEW b \in Block \cup {NoBlock},
         RequestComes(q, c, b)
  PROVE  FirstIdsInv'
<1> DEFINE new == [NoRequest EXCEPT !.pc = "read", !.core = c, !.wants = b]
<1>1. /\ new \in Request /\ new.pc = "read" /\ new.core = c /\ new.wants = b
      /\ request' = [request EXCEPT ![q] = new]
      /\ row' = row /\ assigned' = assigned
  BY BlankRow DEF RequestComes, NoRequest, Request
<1> HIDE DEF new
<1>2. \A x : Unused(x)' <=> Unused(x)
  BY <1>1 DEF Unused
<1>3. CASE b = NoBlock
  <2>1. holder' = holder /\ latest' = latest
    BY <1>3 DEF RequestComes
  <2>2. FirstIdsTypes' /\ NoFirstIdTwice' /\ HoldersOK'
    BY <1>1, <1>2, <2>1 DEF FirstIdsInv, FirstIdsTypes, NoFirstIdTwice, HoldersOK
  <2>3. \A d \in Core : RowOK(d)' /\ HeldOK(d)'
    BY <1>1, <1>2, <2>1 DEF FirstIdsInv, RowOK, HeldOK
  <2>4. \A p \in CodeRequest : RequestOK(p)'
    BY <1>1, <1>2, <1>3, <2>1 DEF FirstIdsInv, FirstIdsTypes, RequestOK, MaySet
  <2> QED BY <2>2, <2>3, <2>4 DEF FirstIdsInv
<1>4. CASE b # NoBlock
  <2>1. /\ b \in Block
        /\ holder[b] = NoBlock \/ (holder[b] = c /\ latest[c] = b)
        /\ holder' = [holder EXCEPT ![b] = c]
        /\ latest' = [latest EXCEPT ![c] = b]
    BY <1>4 DEF RequestComes
  <2>2. FirstIdsTypes'
    BY <1>1, <2>1 DEF FirstIdsInv, FirstIdsTypes
  <2>3. NoFirstIdTwice' /\ HoldersOK'
    BY <1>1, <1>2, <2>1, BlankRow DEF FirstIdsInv, FirstIdsTypes, NoFirstIdTwice, HoldersOK
  <2>4. holder[b] = NoBlock => Unused(b)
    BY <2>1 DEF FirstIdsInv, HoldersOK
  <2>5. \A x \in Block : holder[x] \in Core => holder'[x] = holder[x]
    BY <2>1, BlankRow DEF FirstIdsInv, FirstIdsTypes
  <2>6. b = 0 => holder[b] = c /\ latest[c] = 0
    BY <2>1, BlankRow DEF FirstIdsInv, HoldersOK
  <2>7. \A d \in Core : RowOK(d)'
    BY <1>1, <2>5 DEF FirstIdsInv, FirstIdsTypes, RowOK, Row
  <2>8. \A d \in Core : HeldOK(d)'
    <3>1. SUFFICES ASSUME NEW d \in Core PROVE HeldOK(d)'
      OBVIOUS
    <3>2. HeldOK(d) /\ HeldOK(c)
      BY DEF FirstIdsInv
    <3>3. \A x \in Block : holder'[x] = d => holder[x] = d \/ Unused(x)
      BY <2>1, <2>4, BlankRow DEF FirstIdsInv, FirstIdsTypes
    <3>4. latest'[d] # NoBlock => latest'[d] \in Block /\ holder'[latest'[d]] = d
      BY <2>1, <2>5, <3>2 DEF FirstIdsInv, FirstIdsTypes, HeldOK
    <3>5. latest'[d] # NoBlock => row[d].block = latest'[d] \/ Unused(latest'[d])
      BY <2>1, <2>4, <3>2, <1>4 DEF FirstIdsInv, FirstIdsTypes, HeldOK
    <3>6. latest'[d] = 0 => row[d].block \in {NoBlock, 0}
      BY <2>1, <2>6, <3>2 DEF FirstIdsInv, FirstIdsTypes, HeldOK
    <3> QED BY <1>1, <1>2, <3>2, <3>3, <3>4, <3>5, <3>6 DEF HeldOK
  <2>9. ASSUME NEW p \in CodeRequest PROVE RequestOK(p)'
    <3>1. HeldOK(c) /\ RowOK(c) /\ RequestOK(p)
      BY DEF FirstIdsInv
    <3>2. CASE p = q
      <4>1. request'[p] = new /\ holder'[b] = c /\ latest'[c] = b
        BY <1>1, <2>1, <3>2 DEF FirstIdsInv, FirstIdsTypes
      <4>2. b = 0 => row[c].block \in {NoBlock, 0}
        BY <2>6, <3>1 DEF HeldOK
      <4>3. row[c].block = b \/ Unused(b)
        BY <1>4, <2>1, <2>4, <3>1 DEF HeldOK
      <4>4. row[c].block = NoBlock => row[c] = NoRow
        BY <3>1 DEF RowOK
      <4> QED BY <1>1, <1>2, <4>1, <4>2, <4>3, <4>4 DEF RequestOK, MaySet
    <3>3. CASE p # q
      <4> DEFINE r == request[p]
      <4>1. request'[p] = r /\ r \in Request
        BY <1>1, <3>3 DEF FirstIdsInv, FirstIdsTypes
      <4>2. r.pc # "idle" => r.core \in Core
        BY <3>1 DEF RequestOK
      <4>3. r.pc # "idle" /\ r.wants # NoBlock =>
              holder'[r.wants] = r.core /\ (r.wants # 0 => latest'[r.core] # 0)
        <5>1. r.pc # "idle" /\ r.wants # NoBlock =>
                holder[r.wants] = r.core /\ (r.wants # 0 => latest[r.core] # 0)
          BY <3>1 DEF RequestOK
        <5> QED BY <2>1, <2>5, <2>6, <4>1, <4>2, <5>1
              DEF FirstIdsInv, FirstIdsTypes, Request
      <4>4. ASSUME r.pc # "idle", row[r.core] # NoRow, latest'[r.core] # latest[r.core]
            PROVE  row[r.core].block # latest'[r.core]
        <5>1. r.core = c /\ latest'[c] = b /\ latest[c] # b
          BY <2>1, <4>2, <4>4 DEF FirstIdsInv, FirstIdsTypes
        <5>2. holder[b] = NoBlock
          BY <2>1, <5>1
        <5>3. row[c].block # NoBlock => holder[row[c].block] = c
          BY <3>1 DEF RowOK
        <5> QED BY <1>4, <5>1, <5>2, <5>3, BlankRow
      <4>5. \A x \in Core : latest'[x] = latest[x] \/ latest'[x] # latest[x]
        OBVIOUS
      <4> HIDE DEF r
      <4>6. row'[r.core] = row[r.core] /\ r = request[p]
        BY <1>1 DEF r
      <4> QED BY <1>1, <1>2, <3>1, <4>1, <4>2, <4>3, <4>4, <4>6 DEF RequestOK, MaySet
    <3> QED BY <3>2, <3>3
  <2> QED BY <2>2, <2>3, <2>7, <2>8, <2>9 DEF FirstIdsInv
<1> QED BY <1>3, <1>4

LEMMA ReadsKeeps ==
  ASSUME FirstIdsInv, NEW q \in CodeRequest, Reads(q)
  PROVE  FirstIdsInv'
<1> DEFINE r == request[q]
           held == row[r.core]
           new == [r EXCEPT !.held = held,
                     !.pc = IF held = NoRow /\ r.core = Original THEN "seed" ELSE "change"]
<1>1. r \in Request /\ r.core \in Core /\ held \in Row /\ r.pc = "read"
  BY DEF FirstIdsInv, FirstIdsTypes, Reads, RequestOK
<1>2. /\ new \in Request /\ new.core = r.core /\ new.wants = r.wants /\ new.held = held
      /\ new.pc = IF held = NoRow /\ r.core = Original THEN "seed" ELSE "change"
  BY <1>1 DEF Request
<1>3. /\ request' = [request EXCEPT ![q] = new]
      /\ row' = row /\ holder' = holder /\ latest' = latest /\ assigned' = assigned
  BY DEF Reads
<1>4. \A x : Unused(x)' <=> Unused(x)
  BY <1>3 DEF Unused
<1> HIDE DEF new, held
<1>5. FirstIdsTypes'
  BY <1>2, <1>3 DEF FirstIdsInv, FirstIdsTypes
<1>6. NoFirstIdTwice' /\ HoldersOK' /\ \A c \in Core : RowOK(c)' /\ HeldOK(c)'
  BY <1>3, <1>4 DEF FirstIdsInv, NoFirstIdTwice, HoldersOK, RowOK, HeldOK
<1>7. ASSUME NEW p \in CodeRequest PROVE RequestOK(p)'
  <2>1. RequestOK(p) /\ RequestOK(q)
    BY DEF FirstIdsInv
  <2>2. CASE p = q
    <3>1. request'[p] = new
      BY <1>3, <2>2 DEF FirstIdsInv, FirstIdsTypes
    <3> QED BY <1>1, <1>2, <1>3, <1>4, <2>1, <3>1 DEF RequestOK, MaySet, held
  <2>3. CASE p # q
    BY <1>3, <1>4, <2>1, <2>3 DEF FirstIdsInv, FirstIdsTypes, RequestOK, MaySet
  <2> QED BY <2>2, <2>3
<1> QED BY <1>5, <1>6, <1>7 DEF FirstIdsInv

-----------------------------------------------------------------------------
(* Granting a block that was never used.                                   *)

MayGrant(c, b) ==
  /\ Free(c) /\ Unused(b) /\ holder[b] = c
  /\ b = 0 => row[c].block \in {NoBlock, 0}
  /\ b # 0 => latest[c] # 0
  /\ row[c] # NoRow => \/ row[c].block = b
                       \/ row[c].block # latest[c]
                       \/ Unused(row[c].block)

OnlyRowSet(c, b) ==
  /\ row' = [row EXCEPT ![c] = Granted(b)]
  /\ holder' = holder /\ latest' = latest /\ assigned' = assigned

LEMMA GrantKeepsRows ==
  ASSUME FirstIdsInv, NEW c \in Core, NEW b \in Block, MayGrant(c, b), OnlyRowSet(c, b),
         NEW d \in Core
  PROVE  RowOK(d)' /\ HeldOK(d)'
<1>1. \A x : Unused(x)' <=> Unused(x)
  BY DEF Unused, OnlyRowSet
<1>2. RowOK(d) /\ HeldOK(d) /\ RowOK(c) /\ HeldOK(c)
  BY DEF FirstIdsInv
<1>3. CASE d # c
  <2>1. row'[d] = row[d]
    BY <1>3 DEF OnlyRowSet, FirstIdsInv, FirstIdsTypes
  <2> QED BY <1>1, <1>2, <2>1 DEF OnlyRowSet, RowOK, HeldOK
<1>4. CASE d = c
  <2>1. row'[d] = Granted(b)
    BY <1>4 DEF OnlyRowSet, FirstIdsInv, FirstIdsTypes
  <2>2. RowOK(d)'
    <3>1. \A v \in Granted(b).issued + 1 .. Granted(b).end - 1 : assigned[v] = 0
      BY GrantedRow DEF MayGrant, Unused
    <3> QED BY <1>4, <2>1, <3>1, GrantedRow, BlankRow DEF MayGrant, OnlyRowSet, RowOK
  <2>3. row[c].block = NoBlock => row[c] = NoRow
    BY <1>2 DEF RowOK
  <2>4. b = 0 => \A x \in Block \ {0} : holder[x] = c => Unused(x)
    BY <1>2, <2>3 DEF MayGrant, HeldOK
  <2>5. latest[c] # NoBlock => holder[latest[c]] = c /\ (b = latest[c] \/ Unused(latest[c]))
    BY <1>2, <2>3 DEF MayGrant, HeldOK, FirstIdsInv, FirstIdsTypes
  <2> QED BY <1>1, <1>4, <2>1, <2>2, <2>4, <2>5, GrantedRow DEF MayGrant, OnlyRowSet, HeldOK
<1> QED BY <1>3, <1>4

LEMMA GrantKeepsRequest ==
  ASSUME FirstIdsInv, NEW c \in Core, NEW b \in Block, MayGrant(c, b), OnlyRowSet(c, b),
         NEW p \in CodeRequest, request'[p] = request[p]
  PROVE  RequestOK(p)'
<1>1. \A x : Unused(x)' <=> Unused(x)
  BY DEF Unused, OnlyRowSet
<1>2. RequestOK(p) /\ RowOK(c) /\ HeldOK(c)
  BY DEF FirstIdsInv
<1> DEFINE r == request[p]
<1>3. CASE r.core # c
  <2>1. row'[r.core] = row[r.core] \/ r.pc = "idle"
    BY <1>2, <1>3 DEF OnlyRowSet, FirstIdsInv, FirstIdsTypes, RequestOK
  <2> QED BY <1>1, <1>2, <2>1 DEF OnlyRowSet, RequestOK, MaySet
<1>4. CASE r.core = c
  <2>1. row'[c] = Granted(b) /\ row'[c].block = b /\ (UsedUp(row'[c]) => b = 0)
    BY GrantedRow DEF OnlyRowSet, FirstIdsInv, FirstIdsTypes
  <2>2. row[c].block = NoBlock => row[c] = NoRow
    BY <1>2 DEF RowOK
  <2>3. b = 0 => \A x \in Block \ {0} : holder[x] = c => Unused(x)
    BY <1>2, <2>2 DEF MayGrant, HeldOK
  <2>4. r \in Request
    BY DEF FirstIdsInv, FirstIdsTypes
  <2>5. r.pc # "idle" /\ r.wants # NoBlock /\ b = 0 => Unused(r.wants)
    BY <1>2, <1>4, <2>3, <2>4 DEF RequestOK, Request, MayGrant
  <2> QED BY <1>1, <1>2, <1>4, <2>1, <2>5 DEF MayGrant, OnlyRowSet, RequestOK, MaySet
<1> QED BY <1>3, <1>4

LEMMA GrantKeepsRest ==
  ASSUME FirstIdsInv, NEW c \in Core, NEW b \in Block, OnlyRowSet(c, b),
         request' \in [CodeRequest -> Request]
  PROVE  FirstIdsTypes' /\ NoFirstIdTwice' /\ HoldersOK'
<1>1. \A x : Unused(x)' <=> Unused(x)
  BY DEF Unused, OnlyRowSet
<1> QED BY <1>1, GrantedRow
     DEF OnlyRowSet, FirstIdsInv, FirstIdsTypes, NoFirstIdTwice, HoldersOK

(* The original system's row is made: block 0 was never used. *)
LEMMA SeedsKeeps ==
  ASSUME FirstIdsInv, NEW q \in CodeRequest, Seeds(q)
  PROVE  FirstIdsInv'
<1> DEFINE r == request[q]
           c == request[q].core
<1>1. r \in Request /\ c \in Core /\ c = Original /\ r.pc = "seed" /\ RequestOK(q)
      /\ RowOK(c) /\ HeldOK(c)
  BY BlankRow DEF FirstIdsInv, FirstIdsTypes, Seeds, RequestOK
<1>2. CASE /\ Grants(c, 0)
           /\ request' = [request EXCEPT ![q].pc = "change", ![q].held = Granted(0)]
           /\ UNCHANGED <<holder, latest, assigned>>
  <2> DEFINE new == [r EXCEPT !.pc = "change", !.held = Granted(0)]
  <2>1. /\ request' = [request EXCEPT ![q] = new]
        /\ new \in Request /\ new.pc = "change" /\ new.core = c /\ new.wants = r.wants
    <3>1. Granted(0) \in Row
      BY BlankRow, GrantedRow
    <3> QED BY <1>1, <1>2, <3>1 DEF FirstIdsInv, FirstIdsTypes, Request
  <2>2. Free(c) /\ OnlyRowSet(c, 0)
    BY <1>2 DEF Grants, OnlyRowSet
  <2> HIDE DEF new
  <2>3. row[c] # NoRow => row[c].block = 0 /\ Unused(0)
    BY <1>1, <2>2 DEF Free, RequestOK, MaySet
  <2>4. holder[0] = c
    BY <1>1 DEF FirstIdsInv, HoldersOK
  <2>5. Unused(0) /\ row[c].block \in {NoBlock, 0}
    BY <1>1, <2>3, <2>4, BlankRow DEF HeldOK
  <2>6. MayGrant(c, 0)
    BY <2>2, <2>3, <2>4, <2>5 DEF MayGrant
  <2>7. FirstIdsTypes' /\ NoFirstIdTwice' /\ HoldersOK'
    BY <1>1, <2>1, <2>2, BlankRow, GrantKeepsRest DEF FirstIdsInv, FirstIdsTypes
  <2>8. \A d \in Core : RowOK(d)' /\ HeldOK(d)'
    BY <1>1, <2>2, <2>6, BlankRow, GrantKeepsRows
  <2>9. ASSUME NEW p \in CodeRequest PROVE RequestOK(p)'
    <3>1. CASE p # q
      <4>1. request'[p] = request[p]
        BY <2>1, <3>1 DEF FirstIdsInv, FirstIdsTypes
      <4> QED BY <1>1, <2>2, <2>6, <4>1, BlankRow, GrantKeepsRequest
    <3>2. CASE p = q
      <4>1. request'[p] = new
        BY <2>1, <3>2 DEF FirstIdsInv, FirstIdsTypes
      <4>2. row'[c].block = 0 /\ \A x : Unused(x)' <=> Unused(x)
        BY <1>1, <2>2, BlankRow, GrantedRow DEF OnlyRowSet, Unused, FirstIdsInv, FirstIdsTypes
      <4>3. RequestOK(q) /\ holder' = holder /\ latest' = latest
        BY <1>1, <2>2 DEF OnlyRowSet
      <4>4. \A x \in Block \ {0} : holder[x] = c => Unused(x)
        BY <1>1, <2>8, <4>2, <4>3 DEF HeldOK
      <4>5. r.wants # NoBlock => Unused(r.wants)
        BY <1>1, <2>5, <4>2, <4>3, <4>4 DEF RequestOK, Request
      <4> QED BY <1>1, <2>1, <2>5, <4>1, <4>2, <4>3, <4>5 DEF RequestOK, MaySet
    <3> QED BY <3>1, <3>2
  <2> QED BY <2>7, <2>8, <2>9 DEF FirstIdsInv
<1>3. CASE /\ request' = [request EXCEPT ![q] = NoRequest]
           /\ UNCHANGED <<row, holder, latest, assigned>>
  BY <1>1, <1>3, EndsKeeps DEF RequestEnds
<1> QED BY <1>2, <1>3 DEF Seeds

(* A block that a request brings was never used. *)
LEMMA GrantWritesKeeps ==
  ASSUME FirstIdsInv, NEW q \in CodeRequest, GrantWrites(q)
  PROVE  FirstIdsInv'
<1> DEFINE r == request[q]
           c == request[q].core
           b == request[q].wants
<1>1. /\ r \in Request /\ c \in Core /\ b \in Block /\ r.pc = "change" /\ b # NoBlock
      /\ RequestOK(q) /\ RowOK(c) /\ HeldOK(c)
  BY BlankRow DEF FirstIdsInv, FirstIdsTypes, Request, GrantWrites, RequestOK
<1>2. /\ Free(c) /\ OnlyRowSet(c, b) /\ MayBeGranted(r.held, b)
      /\ request' = [request EXCEPT ![q] = NoRequest]
  BY DEF GrantWrites, Grants, OnlyRowSet
<1>3. holder[b] = c /\ (b # 0 => latest[c] # 0)
  BY <1>1 DEF RequestOK
<1>4. r.held.block # b
  BY <1>1, <1>2, BlankRow DEF MayBeGranted
<1>5. MayGrant(c, b)
  <2>1. CASE row[c] = NoRow
    BY <1>1, <1>2, <1>3, <2>1, BlankRow DEF HeldOK, MayGrant
  <2>2. CASE row[c] # NoRow
    <3>1. UsedUp(row[c])
      BY <1>2, <2>2 DEF Free
    <3> QED BY <1>1, <1>2, <1>3, <1>4, <2>2, <3>1 DEF RequestOK, MaySet, MayGrant
  <2> QED BY <2>1, <2>2
<1>6. FirstIdsTypes' /\ NoFirstIdTwice' /\ HoldersOK'
  BY <1>1, <1>2, BlankRow, GrantKeepsRest DEF FirstIdsInv, FirstIdsTypes
<1>7. \A d \in Core : RowOK(d)' /\ HeldOK(d)'
  BY <1>1, <1>2, <1>5, GrantKeepsRows
<1>8. ASSUME NEW p \in CodeRequest PROVE RequestOK(p)'
  <2>1. CASE p # q
    <3>1. request'[p] = request[p]
      BY <1>2, <2>1 DEF FirstIdsInv, FirstIdsTypes
    <3> QED BY <1>1, <1>2, <1>5, <3>1, GrantKeepsRequest
  <2>2. CASE p = q
    <3>1. request'[p] = NoRequest
      BY <1>2, <2>2 DEF FirstIdsInv, FirstIdsTypes
    <3> QED BY <3>1, BlankRow DEF RequestOK, MaySet
  <2> QED BY <2>1, <2>2
<1> QED BY <1>6, <1>7, <1>8 DEF FirstIdsInv

-----------------------------------------------------------------------------
(* Assigning the next value: it was not assigned before.                   *)

LEMMA AssignsKeeps ==
  ASSUME FirstIdsInv, NEW q \in CodeRequest, AssignsValue(q)
  PROVE  FirstIdsInv'
<1> DEFINE c == request[q].core
           b == row[c].block
           value == row[c].issued + 1
<1>1. /\ request[q] \in Request /\ c \in Core /\ row[c] \in Row /\ ~UsedUp(row[c])
      /\ RowOK(c) /\ HeldOK(c)
  BY DEF FirstIdsInv, FirstIdsTypes, AssignsValue, RequestOK
<1>2. row[c] # NoRow /\ b # NoBlock /\ b \in Block
  BY <1>1, BlankRow DEF UsedUp, RowOK, Row
<1>3. /\ holder[b] = c /\ row[c].end = RangeEnd(b)
      /\ row[c].issued \in RangeStart(b) - 1 .. row[c].end - 1
      /\ value < row[c].end /\ value \in Values(b) /\ value \in Value /\ 2 <= value
      /\ assigned[value] = 0
  <2>1. /\ holder[b] = c /\ row[c].end = RangeEnd(b)
        /\ row[c].issued \in RangeStart(b) - 1 .. row[c].end - 1
        /\ \A v \in row[c].issued + 1 .. row[c].end - 1 : assigned[v] = 0
    BY <1>1, <1>2 DEF RowOK
  <2>2. RangeStart(b) \in Nat /\ RangeEnd(b) \in Nat /\ row[c].issued \in Nat
    BY <1>1, <1>2, RangeOfBlock DEF Row
  <2>3. value < row[c].end /\ value \in Values(b)
    BY <1>1, <2>1, <2>2 DEF UsedUp, Values
  <2> QED BY <1>2, <2>1, <2>2, <2>3, ValuesAreFirstIds
<1>4. /\ row' = [row EXCEPT ![c].issued = value]
      /\ assigned' = [assigned EXCEPT ![value] = @ + 1]
      /\ request' = [request EXCEPT ![q] = NoRequest]
      /\ holder' = holder /\ latest' = latest
      /\ LastOfBlock(c) => ~Watched(c, q)
  BY DEF AssignsValue
<1>5. /\ row'[c] \in Row /\ row'[c].block = b /\ row'[c].issued = value
      /\ row'[c].end = row[c].end
      /\ \A d \in Core \ {c} : row'[d] = row[d]
      /\ row' \in [Core -> Row]
  <2> DEFINE new == [row[c] EXCEPT !.issued = value]
  <2>1. row' = [row EXCEPT ![c] = new]
    BY <1>4
  <2>2. value \in Nat
    BY <1>1 DEF Row
  <2>3. new \in Row /\ new.block = b /\ new.issued = value /\ new.end = row[c].end
    <3> HIDE DEF value
    <3> QED BY <1>1, <2>2 DEF Row
  <2> HIDE DEF new, value, b
  <2> QED BY <1>1, <2>1, <2>3 DEF FirstIdsInv, FirstIdsTypes
<1>6. \A x \in Block \ {b} : Unused(x) => Unused(x)'
  <2>1. SUFFICES ASSUME NEW x \in Block \ {b}, Unused(x), NEW v \in Values(x)
                 PROVE  assigned'[v] = 0
    BY DEF Unused, Values, RangeStart, RangeEnd
  <2>2. v # value
    BY <1>2, <1>3, BlocksAreApart
  <2>3. v \in Value /\ assigned[v] = 0
    BY <2>1, ValuesAreFirstIds DEF Unused
  <2> QED BY <1>4, <2>2, <2>3 DEF FirstIdsInv, FirstIdsTypes
<1> HIDE DEF c, b, value
<1>7. FirstIdsTypes'
  BY <1>3, <1>4, <1>5, BlankRow DEF FirstIdsInv, FirstIdsTypes
<1>8. NoFirstIdTwice'
  <2>1. ASSUME NEW v \in Value PROVE assigned'[v] <= (IF v < 2 THEN 0 ELSE 1)
    <3>1. assigned[v] <= (IF v < 2 THEN 0 ELSE 1)
      BY DEF FirstIdsInv, NoFirstIdTwice
    <3>2. CASE v = value
      <4>1. assigned'[v] = 0 + 1
        BY <1>3, <1>4, <3>2 DEF FirstIdsInv, FirstIdsTypes
      <4>2. ~(v < 2)
        BY <1>3, <3>2, FirstIdsAssumption DEF Value
      <4> QED BY <4>1, <4>2
    <3>3. CASE v # value
      <4>1. assigned'[v] = assigned[v]
        BY <1>4, <3>3 DEF FirstIdsInv, FirstIdsTypes
      <4> QED BY <3>1, <4>1
    <3> QED BY <3>2, <3>3
  <2> QED BY <2>1 DEF NoFirstIdTwice
<1>9. HoldersOK'
  BY <1>1, <1>3, <1>4, <1>6, BlankRow DEF FirstIdsInv, HoldersOK
<1>10. ASSUME NEW d \in Core PROVE RowOK(d)'
  <2>1. CASE d = c
    <3>1. \A v \in value + 1 .. row[c].end - 1 : assigned'[v] = 0
      <4>1. \A v \in row[c].issued + 1 .. row[c].end - 1 : assigned[v] = 0 /\ v \in Value
        <5>1. \A v \in row[c].issued + 1 .. row[c].end - 1 : v \in Values(b)
          BY <1>1, <1>2, <1>3, RangeOfBlock DEF Values, Row
        <5> QED BY <1>1, <1>2, <5>1, ValuesAreFirstIds DEF RowOK, b
      <4> QED BY <1>1, <1>3, <1>4, <4>1 DEF FirstIdsInv, FirstIdsTypes, Row, value
    <3>2. value \in RangeStart(b) - 1 .. row[c].end - 1
      BY <1>1, <1>2, <1>3, RangeOfBlock DEF Row, value
    <3> QED BY <1>2, <1>3, <1>4, <1>5, <2>1, <3>1, <3>2 DEF RowOK
  <2>2. CASE d # c
    <3>1. RowOK(d) /\ row'[d] = row[d] /\ row[d] \in Row
      BY <1>5, <2>2 DEF FirstIdsInv, FirstIdsTypes
    <3>2. CASE row[d].block = NoBlock
      BY <3>1, <3>2 DEF RowOK
    <3>3. CASE row[d].block # NoBlock
      <4> DEFINE e == row[d].block
      <4>1. e \in Block /\ e # b /\ holder[e] = d
        BY <1>3, <2>2, <3>1, <3>3 DEF RowOK, Row
      <4>2. \A v \in row[d].issued + 1 .. row[d].end - 1 : v \in Values(e) /\ assigned[v] = 0
        BY <3>1, <3>3, <4>1, RangeOfBlock DEF RowOK, Row, Values
      <4>3. \A v \in Values(e) : v # value /\ v \in Value
        BY <1>2, <1>3, <4>1, BlocksAreApart, ValuesAreFirstIds
      <4>4. \A v \in row[d].issued + 1 .. row[d].end - 1 : assigned'[v] = 0
        BY <1>4, <4>2, <4>3 DEF FirstIdsInv, FirstIdsTypes
      <4> QED BY <1>4, <3>1, <3>3, <4>4 DEF RowOK
    <3> QED BY <3>2, <3>3
  <2> QED BY <2>1, <2>2
<1>11. ASSUME NEW d \in Core PROVE HeldOK(d)'
  <2>1. HeldOK(d) /\ (latest[d] # NoBlock => latest[d] \in Block)
    BY DEF FirstIdsInv, FirstIdsTypes
  <2>2. CASE d = c
    BY <1>2, <1>4, <1>5, <1>6, <2>1, <2>2, BlankRow DEF HeldOK, b
  <2>3. CASE d # c
    <3>1. \A x \in Block : holder[x] = d => x # b
      BY <1>3, <2>3
    <3> QED BY <1>4, <1>5, <1>6, <2>1, <2>3, <3>1 DEF HeldOK
  <2> QED BY <2>2, <2>3
<1>12. ASSUME NEW p \in CodeRequest PROVE RequestOK(p)'
  <2>1. RequestOK(p) /\ request[p] \in Request
    BY DEF FirstIdsInv, FirstIdsTypes
  <2>2. CASE p = q
    <3>1. request'[p] = NoRequest
      BY <1>4, <2>2 DEF FirstIdsInv, FirstIdsTypes
    <3> QED BY <3>1, BlankRow DEF RequestOK, MaySet
  <2>3. CASE p # q
    <3> DEFINE r == request[p]
    <3>1. request'[p] = r
      BY <1>4, <2>3 DEF FirstIdsInv, FirstIdsTypes
    <3>2. CASE r.core = c
      <4>1. MaySet(p) => ~LastOfBlock(c)
        BY <1>4, <2>3, <3>2 DEF MaySet, Watched
      <4>2. MaySet(p) => ~UsedUp(row'[c])
        BY <1>1, <1>3, <1>5, <4>1 DEF LastOfBlock, UsedUp, Row, value
      <4> QED BY <1>4, <2>1, <3>1, <3>2, <4>2 DEF RequestOK, MaySet
    <3>3. CASE r.core # c /\ r.pc # "idle"
      <4>1. r.core \in Core /\ row'[r.core] = row[r.core]
        BY <1>5, <2>1, <3>3 DEF RequestOK
      <4>2. r.wants # NoBlock => r.wants \in Block \ {b}
        BY <1>3, <2>1, <3>3 DEF RequestOK, Request
      <4>3. RowOK(r.core) /\ row[r.core] \in Row
        BY <4>1 DEF FirstIdsInv, FirstIdsTypes
      <4>4. row[r.core] # NoRow => row[r.core].block \in Block \ {b}
        BY <1>3, <3>3, <4>3 DEF RowOK, Row
      <4> QED BY <1>4, <1>6, <2>1, <3>1, <3>3, <4>1, <4>2, <4>4 DEF RequestOK, MaySet
    <3>4. CASE r.pc = "idle"
      BY <3>1, <3>4 DEF RequestOK, MaySet
    <3> QED BY <3>2, <3>3, <3>4
  <2> QED BY <2>2, <2>3
<1> QED BY <1>7, <1>8, <1>9, <1>10, <1>11, <1>12 DEF FirstIdsInv

-----------------------------------------------------------------------------

LEMMA StepFirstIds ==
  ASSUME FirstIdsInv, [FirstIdsNext]_firstIdVars PROVE FirstIdsInv'
<1>1. ASSUME NEW q \in CodeRequest,
             \/ \E c \in Core, b \in Block \cup {NoBlock} : RequestComes(q, c, b)
             \/ Reads(q) \/ Seeds(q) \/ GrantWrites(q) \/ AssignsValue(q) \/ RequestEnds(q)
      PROVE  FirstIdsInv'
  BY <1>1, ComesKeeps, ReadsKeeps, SeedsKeeps, GrantWritesKeeps, AssignsKeeps, EndsKeeps
<1>2. CASE UNCHANGED firstIdVars
  BY <1>2 DEF firstIdVars, FirstIdsInv, FirstIdsTypes, NoFirstIdTwice, HoldersOK, RowOK, HeldOK,
              RequestOK, MaySet, Unused
<1> QED BY <1>1, <1>2 DEF FirstIdsNext

LEMMA FirstIdsInvHolds == FirstIdsSpec => []FirstIdsInv
<1>1. FirstIdsInit => FirstIdsInv
  BY InitFirstIds
<1>2. FirstIdsInv /\ [FirstIdsNext]_firstIdVars => FirstIdsInv'
  BY StepFirstIds
<1> QED BY <1>1, <1>2, PTL DEF FirstIdsSpec

(* The rows and records are of the right types, and no row is used past    *)
(* the last value of the one block it holds (grantTopLevelBlock and        *)
(* issueTopLevelValue in prisma-host-store.ts).                            *)
THEOREM FirstIdsTypesHold == FirstIdsSpec => []FirstIdsTypeOK
<1>1. ASSUME FirstIdsInv PROVE FirstIdsTypeOK
  <2>1. ASSUME NEW c \in Core, row[c] # NoRow
        PROVE  /\ row[c].block \in Block
               /\ row[c].issued \in RangeStart(row[c].block) - 1 .. RangeEnd(row[c].block) - 1
               /\ row[c].end = RangeEnd(row[c].block)
    BY <1>1, <2>1 DEF FirstIdsInv, FirstIdsTypes, RowOK, Row
  <2> QED BY <1>1, <2>1 DEF FirstIdsInv, FirstIdsTypes, FirstIdsTypeOK
<1> QED BY <1>1, FirstIdsInvHolds, PTL

(* No first ID is assigned twice, by any Core: requests that read the row  *)
(* and change it later, brought blocks that are repeated, and Core's ends  *)
(* included (grantFirstIdBlock, assignFirstId in sema-core-host.ts).       *)
THEOREM FirstIdsAreFirst == FirstIdsSpec => []NoFirstIdTwice
<1>1. FirstIdsInv => NoFirstIdTwice
  BY DEF FirstIdsInv
<1> QED BY <1>1, FirstIdsInvHolds, PTL

-----------------------------------------------------------------------------
(***************************************************************************)
(* Joining, for any IDs, any requests to join and any number of starts: a  *)
(* Core becomes one node, tells one request so, and stays it.              *)
(***************************************************************************)
JoinState == {"unsent", "reading", "writing", "recorded", "joined", "refused", "cut"}
Process ==
  [pc : {"down", "waiting", "initializing", "recording", "running"}, as : Id \cup {NoId}]

JoiningTypes ==
  /\ identity \in Id \cup {NoId}
  /\ machines \subseteq {identity} \cap Id
  /\ settings \in Settings
  /\ process \in Process
  /\ join \in [JoinRequest -> JoinState]

(* Requests are served only while the process waits. *)
ServedWhileWaiting ==
  \A r \in JoinRequest : join[r] \in {"reading", "writing", "recorded"} => process.pc = "waiting"

(* The request whose ID was recorded: there is one at most. *)
Won(r) == join[r] \in {"recorded", "joined"}
OneWins ==
  /\ \A r \in JoinRequest : Won(r) => identity = IdOf[r]
  /\ \A r, s \in JoinRequest : Won(r) /\ Won(s) => r = s

(* The process goes on as the node that is stored. *)
RunsAsStored ==
  /\ process.pc = "initializing" => process.as \in Id
  /\ process.pc \in {"recording", "running"} => process.as = identity /\ identity \in Id
  /\ process.pc = "running" => machines = {identity}

JoiningInv == JoiningTypes /\ ServedWhileWaiting /\ OneWins /\ RunsAsStored

-----------------------------------------------------------------------------

LEMMA InitJoining == ASSUME JoiningInit PROVE JoiningInv
BY DEF JoiningInit, Down, JoiningInv, JoiningTypes, Process, JoinState, ServedWhileWaiting,
       OneWins, Won, RunsAsStored

(* Whatever is recorded is recorded once. *)
LEMMA RecordingJoins ==
  ASSUME JoiningInv, NEW r \in JoinRequest, JoinRecorded(r)
  PROVE  JoiningInv'
<1>1. /\ identity = NoId /\ identity' = IdOf[r] /\ machines' = {IdOf[r]}
      /\ IdOf[r] \in Id /\ IdOf[r] # NoId
  BY JoiningAssumption DEF JoiningInv, JoiningTypes, JoinRecorded, Records
<1>2. \A s \in JoinRequest : ~Won(s)
  BY <1>1, JoiningAssumption DEF JoiningInv, OneWins
<1>3. process.pc = "waiting"
  BY DEF JoiningInv, ServedWhileWaiting, JoinRecorded
<1>4. \A s \in JoinRequest : Won(s)' => s = r
  BY <1>2 DEF JoinRecorded, Won, JoiningInv, JoiningTypes
<1>5. JoiningTypes'
  BY <1>1 DEF JoiningInv, JoiningTypes, JoinRecorded, JoinState
<1>6. ServedWhileWaiting'
  BY <1>3 DEF JoiningInv, JoiningTypes, ServedWhileWaiting, JoinRecorded
<1>7. OneWins'
  BY <1>1, <1>4 DEF OneWins
<1>8. RunsAsStored'
  BY <1>3 DEF RunsAsStored, JoinRecorded
<1> QED BY <1>5, <1>6, <1>7, <1>8 DEF JoiningInv

(* The request that is answered is the one recorded. *)
LEMMA AnsweringJoins ==
  ASSUME JoiningInv, NEW r \in JoinRequest, JoinAnswered(r)
  PROVE  JoiningInv'
<1> USE DEF JoiningInv, JoiningTypes, JoinAnswered
<1>1. Won(r) /\ IdOf[r] \in Id /\ \A s \in JoinRequest \ {r} : ~Won(s)
  BY JoiningAssumption DEF OneWins, Won
<1>2. \A s \in JoinRequest : join'[s] \in {"unsent", "refused", "cut", "joined"}
                          /\ (join'[s] = "joined" => s = r)
  BY <1>1 DEF Won, JoinState
<1>3. JoiningTypes'
  BY <1>1, <1>2 DEF JoinState, Process
<1>4. ServedWhileWaiting'
  BY <1>2 DEF ServedWhileWaiting
<1>5. OneWins'
  BY <1>1, <1>2 DEF OneWins, Won
<1>6. RunsAsStored'
  BY <1>1 DEF RunsAsStored
<1> QED BY <1>3, <1>4, <1>5, <1>6

(* The other steps record no request's ID. *)
LEMMA StepJoining == ASSUME JoiningInv, [JoiningNext]_joiningVars PROVE JoiningInv'
<1> USE DEF JoiningInv, JoiningTypes, Process, JoinState, Won
<1>1. CASE Starts
  <2>1. PICK as \in Id \cup {NoId} :
          /\ StartsAs(as)
          /\ process' = IF as = NoId THEN [pc |-> "waiting", as |-> NoId]
                        ELSE [pc |-> "initializing", as |-> as]
    BY <1>1 DEF Starts
  <2> QED BY <1>1, <2>1 DEF Starts, Down, ServedWhileWaiting, OneWins, RunsAsStored
<1>2. CASE StoresIdentity
  <2>1. \A r \in JoinRequest : Won(r) => identity # NoId
    BY JoiningAssumption DEF OneWins
  <2> QED BY <1>2, <2>1, JoiningAssumption
        DEF StoresIdentity, Down, ServedWhileWaiting, OneWins, RunsAsStored
<1>3. CASE RecordsNode
  BY <1>3 DEF RecordsNode, ServedWhileWaiting, OneWins, RunsAsStored
<1>4. CASE ProcessEnds
  BY <1>4 DEF ProcessEnds, Down, ServedWhileWaiting, OneWins, RunsAsStored
<1>5. CASE SettingsEdited
  BY <1>5 DEF SettingsEdited, ServedWhileWaiting, OneWins, RunsAsStored
<1>6. ASSUME NEW r \in JoinRequest, JoinComes(r) \/ JoinRead(r) \/ JoinNotRecorded(r)
      PROVE  JoiningInv'
  BY <1>6 DEF JoinComes, JoinRead, JoinNotRecorded, ServedWhileWaiting, OneWins, RunsAsStored
<1>7. ASSUME NEW r \in JoinRequest, JoinRecorded(r) \/ JoinAnswered(r)
      PROVE  JoiningInv'
  BY <1>7, RecordingJoins, AnsweringJoins
<1>8. CASE UNCHANGED joiningVars
  BY <1>8 DEF joiningVars, ServedWhileWaiting, OneWins, RunsAsStored
<1> QED BY <1>1, <1>2, <1>3, <1>4, <1>5, <1>6, <1>7, <1>8 DEF JoiningNext

LEMMA JoiningInvHolds == JoiningSpec => []JoiningInv
<1>1. JoiningInit => JoiningInv
  BY InitJoining
<1>2. JoiningInv /\ [JoiningNext]_joiningVars => JoiningInv'
  BY StepJoining
<1> QED BY <1>1, <1>2, PTL DEF JoiningSpec

-----------------------------------------------------------------------------

(* The stored identity, the machine nodes and the process's own idea of    *)
(* itself are of the right types, and no machine node but its own is       *)
(* recorded: join.ts and prisma-host-store.ts at every step.               *)
THEOREM JoiningTypesHold == JoiningSpec => []JoiningTypeOK
<1>1. JoiningInv => JoiningTypeOK
  BY DEF JoiningInv, JoiningTypes, Process, JoiningTypeOK
<1> QED BY <1>1, JoiningInvHolds, PTL

(* However many requests to join overlap, one is told it joined, and the   *)
(* Core runs as that one, or as its install code said, ever after.         *)
THEOREM JoinsOnce == JoiningSpec => []OneIdentity
<1>1. ASSUME JoiningInv PROVE OneIdentity
  <2> DEFINE joinedOnes == {r \in JoinRequest : join[r] = "joined"}
  <2>1. joinedOnes = {} \/ \E r : joinedOnes = {r}
    BY <1>1 DEF JoiningInv, OneWins, Won
  <2>2. Cardinality(joinedOnes) \in {0, 1}
    <3> HIDE DEF joinedOnes
    <3> QED BY <2>1, FS_EmptySet, FS_Singleton, Zenon
  <2>3. Cardinality(joinedOnes) <= 1
    <3> HIDE DEF joinedOnes
    <3> QED BY <2>2
  <2> QED BY <1>1, <2>3 DEF OneIdentity, JoiningInv, OneWins, Won, RunsAsStored
<1> QED BY <1>1, JoiningInvHolds, PTL
=============================================================================
