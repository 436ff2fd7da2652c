------------------------------ MODULE FirstIds ------------------------------
(***************************************************************************)
(* The first IDs of systems (src/host/sema-core-host.ts,                   *)
(* src/host/install-code.ts, src/host/prisma-host-store.ts).               *)
(*                                                                         *)
(* The reserved values are split into blocks.  A Core that assigns first   *)
(* IDs holds one block, in one row, and gives out its values one by one in *)
(* install codes; the original system holds block 0 without being given    *)
(* it.  A request reads the row and changes it in a later call, with other *)
(* requests in between; Core may end at any time.                          *)
(*                                                                         *)
(* A block is given to one Core only, once: that is tracked by hand.  A    *)
(* block has a million values: a whole one is not used up between a        *)
(* request's read of the row and its change of it.                         *)
(***************************************************************************)
EXTENDS Naturals

CONSTANTS
  Core,         \* the Cores that may assign first IDs
  Original,     \* the original system's
  CodeRequest,  \* requests under way at the same time
  Block,        \* the blocks' numbers
  TOP_LEVEL_BLOCK_SIZE, RESERVED_TOP_LEVEL_LIMIT,
  NoBlock       \* no Core, no block

ASSUME FirstIdsAssumption ==
  /\ Original \in Core
  /\ NoBlock \notin Core \cup Block
  /\ Block \subseteq Nat /\ 0 \in Block
  /\ TOP_LEVEL_BLOCK_SIZE \in Nat \ {0, 1}       \* values 0 and 1 are taken
  /\ RESERVED_TOP_LEVEL_LIMIT \in Nat \ {0, 1}
  /\ \A b \in Block : b * TOP_LEVEL_BLOCK_SIZE < RESERVED_TOP_LEVEL_LIMIT

VARIABLES
  row,          \* the block each Core holds: sema_top_level_counter
  request,      \* the requests under way
  holder,       \* the Core the operator gave each block to
  latest,       \* the last one given to each
  assigned      \* history: how often each value was assigned

firstIdVars == <<row, request, holder, latest, assigned>>

Value == 0 .. RESERVED_TOP_LEVEL_LIMIT - 1

(* topLevelBlockRange: value 0 is never used, value 1 is the original system. *)
RangeStart(b) == IF b = 0 THEN 2 ELSE b * TOP_LEVEL_BLOCK_SIZE

RangeEnd(b) ==
  LET last == (b + 1) * TOP_LEVEL_BLOCK_SIZE
  IN IF last > RESERVED_TOP_LEVEL_LIMIT THEN RESERVED_TOP_LEVEL_LIMIT ELSE last

NoRow == [block |-> NoBlock, issued |-> 0, end |-> 0]
Granted(b) == [block |-> b, issued |-> RangeStart(b) - 1, end |-> RangeEnd(b)]
NoRequest == [pc |-> "idle", core |-> NoBlock, wants |-> NoBlock, held |-> NoRow]

FirstIdsInit ==
  /\ row = [c \in Core |-> NoRow]
  /\ request = [q \in CodeRequest |-> NoRequest]
  /\ holder = [b \in Block |-> IF b = 0 THEN Original ELSE NoBlock]
  /\ latest = [c \in Core |-> IF c = Original THEN 0 ELSE NoBlock]
  /\ assigned = [v \in Value |-> 0]

(* Fault: the row moves on when its block has no values left. *)
UsedUpLater(r) == r.issued >= r.end

UsedUp(r) == r.issued + 1 >= r.end

(* A request asks for a code (wants none) or brings a block for the Core: a *)
(* new one, or the last one once more.                                      *)
RequestComes(q, c, b) ==
  /\ request[q].pc = "idle"
  /\ IF b = NoBlock THEN UNCHANGED <<holder, latest>>
     ELSE /\ holder[b] = NoBlock \/ (holder[b] = c /\ latest[c] = b)
          /\ holder' = [holder EXCEPT ![b] = c]
          /\ latest' = [latest EXCEPT ![c] = b]
  /\ request' = [request EXCEPT ![q] = [NoRequest EXCEPT !.pc = "read", !.core = c, !.wants = b]]
  /\ UNCHANGED <<row, assigned>>

(* firstIdBlock: the original system's row is made when it has none. *)
Reads(q) ==
  LET r == request[q]
      held == row[r.core]
  IN /\ r.pc = "read"
     /\ request' = [request EXCEPT ![q].held = held,
          ![q].pc = IF held = NoRow /\ r.core = Original THEN "seed" ELSE "change"]
     /\ UNCHANGED <<row, holder, latest, assigned>>

(* Fault: a block replaces whatever the Core holds. *)
FreeAlways(c) == TRUE

(* grantTopLevelBlock: only a Core without a block, or with one used up. *)
Free(c) == row[c] = NoRow \/ UsedUp(row[c])

Grants(c, b) == Free(c) /\ row' = [row EXCEPT ![c] = Granted(b)]

(* Another request may have been first; this one then fails. *)
Seeds(q) ==
  LET c == request[q].core
  IN /\ request[q].pc = "seed"
     /\ \/ /\ Grants(c, 0)
           /\ request' = [request EXCEPT ![q].pc = "change", ![q].held = Granted(0)]
        \/ /\ ~Free(c)
           /\ request' = [request EXCEPT ![q] = NoRequest]
           /\ UNCHANGED row
     /\ UNCHANGED <<holder, latest, assigned>>

(* Fault: the block just used up may be granted again. *)
MayBeGrantedAgain(held, b) == held = NoRow \/ UsedUp(held)

(* grantFirstIdBlock's conditions, on the row as it was read. *)
MayBeGranted(held, b) == held = NoRow \/ (UsedUp(held) /\ held.block # b)

GrantWrites(q) ==
  LET r == request[q]
  IN /\ r.pc = "change"
     /\ r.wants # NoBlock
     /\ MayBeGranted(r.held, r.wants)
     /\ Grants(r.core, r.wants)
     /\ request' = [request EXCEPT ![q] = NoRequest]
     /\ UNCHANGED <<holder, latest, assigned>>

(* A whole block is not used up while a request is to set the row. *)
LastOfBlock(c) == row[c].issued + 2 = row[c].end
Watched(c, q) == \E other \in CodeRequest \ {q} :
  /\ request[other].core = c
  /\ request[other].pc = "seed" \/ request[other].wants # NoBlock

(* issueTopLevelValue: the row moves on by one, and stops at its end. *)
AssignsValue(q) ==
  LET c == request[q].core
      value == row[c].issued + 1
  IN /\ request[q].pc = "change"
     /\ request[q].wants = NoBlock
     /\ request[q].held # NoRow
     /\ ~UsedUp(row[c])
     /\ LastOfBlock(c) => ~Watched(c, q)
     /\ row' = [row EXCEPT ![c].issued = value]
     /\ assigned' = [assigned EXCEPT ![value] = @ + 1]
     /\ request' = [request EXCEPT ![q] = NoRequest]
     /\ UNCHANGED <<holder, latest>>

(* Refused, or Core ends: nothing is changed. *)
RequestEnds(q) ==
  /\ request[q].pc # "idle"
  /\ request' = [request EXCEPT ![q] = NoRequest]
  /\ UNCHANGED <<row, holder, latest, assigned>>

FirstIdsNext == \E q \in CodeRequest :
  \/ \E c \in Core, b \in Block \cup {NoBlock} : RequestComes(q, c, b)
  \/ Reads(q) \/ Seeds(q) \/ GrantWrites(q) \/ AssignsValue(q) \/ RequestEnds(q)

FirstIdsSpec == FirstIdsInit /\ [][FirstIdsNext]_firstIdVars

-----------------------------------------------------------------------------

(* The rows and records are of the right types: what a Core holds is one   *)
(* block, no further used than to its last value.                          *)
FirstIdsTypeOK ==
  /\ \A c \in Core : row[c] = NoRow \/
       /\ row[c].block \in Block
       /\ row[c].issued \in RangeStart(row[c].block) - 1 .. RangeEnd(row[c].block) - 1
       /\ row[c].end = RangeEnd(row[c].block)
  /\ holder \in [Block -> Core \cup {NoBlock}]
  /\ latest \in [Core -> Block \cup {NoBlock}]
  /\ assigned \in [Value -> Nat]

(* No first ID is assigned twice, by any Core, and never the two that are  *)
(* taken: whatever requests for codes and blocks overlap or are repeated.  *)
NoFirstIdTwice == \A v \in Value : assigned[v] <= (IF v < 2 THEN 0 ELSE 1)
=============================================================================
