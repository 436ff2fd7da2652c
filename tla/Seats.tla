-------------------------------- MODULE Seats --------------------------------
(***************************************************************************)
(* Seats (src/topology/conversations.ts, src/topology/local-nodes.ts): a   *)
(* person's user node, and in the same way a machine, takes a seat in      *)
(* every organization above it.                                            *)
(*                                                                         *)
(* Organizations are on different machines.  A conversation takes the      *)
(* seats, nearest organization first, then changes the tree, then gives    *)
(* back what is not held any more; each is a call of its own that may      *)
(* fail, done or not.  A count may so be too high, never too low.  A       *)
(* recount walks the lists and sets the number it found.                   *)
(*                                                                         *)
(* One kind of seat is modelled; organizations do not move.  Conversations *)
(* about the same person do not overlap, others do.                        *)
(***************************************************************************)
EXTENDS Integers, FiniteSets

CONSTANTS
  Org,          \* the organizations
  Over,         \* the next organization above each, or Nowhere
  Spot,         \* the nodes a person may sit under
  Base,         \* the nearest organization of each
  Person,       \* who may take a seat
  Nowhere,      \* no organization, no place
  Number,       \* the numbers of seats an administrator allows
  NoLimit,      \* a number no count reaches: no limit set
  MaxSeatTalks, \* bound: conversations
  MaxLimits,    \* bound: limits set
  MaxRecounts,  \* bound: recounts
  MaxFailures,  \* bound: calls that fail
  MaxExtra      \* bound: entries a list holds too many

ASSUME SeatsAssumption ==
  /\ Nowhere \notin Org \cup Spot
  /\ IsFiniteSet(Person) /\ IsFiniteSet(Org)
  /\ Over \in [Org -> Org \cup {Nowhere}]
  /\ Base \in [Spot -> Org]
  /\ Number \subseteq Nat
  /\ {NoLimit, MaxSeatTalks, MaxLimits, MaxRecounts, MaxFailures, MaxExtra} \subseteq Nat

VARIABLES
  used, allowed,  \* each organization's counts
  at, status,   \* each person's place and node
  talk,         \* the conversation about each person
  recount,      \* the recount of each organization
  seatTalks, limits, recounts, failures,  \* how many of each so far
  seat,         \* history: how often each organization's seat is taken for each person
  suspect,      \* history: organizations where a seat was given back that was not
                \* taken, or a recount overlapped a conversation
  peak          \* history: the most each organization allowed, or a recount found

seatVars == <<used, allowed, at, status, talk, recount, seatTalks, limits, recounts, failures,
              seat, suspect, peak>>

Idle == [pc |-> "idle", take |-> {}, taken |-> {}, act |-> "none", to |-> Nowhere, give |-> {}]
Still == [pc |-> "idle", left |-> {}, counted |-> 0, complete |-> TRUE, overlapped |-> FALSE]

SeatsInit ==
  /\ used = [o \in Org |-> 0]
  /\ allowed \in [Org -> Number \cup {NoLimit}]
  /\ at = [x \in Person |-> Nowhere]
  /\ status = [x \in Person |-> "none"]
  /\ talk = [x \in Person |-> Idle]
  /\ recount = [o \in Org |-> Still]
  /\ seatTalks = 0
  /\ limits = 0
  /\ recounts = 0
  /\ failures = 0
  /\ seat = [x \in Person |-> [o \in Org |-> 0]]
  /\ suspect = {}
  /\ peak = allowed

(* An organization and all above it: every set that holds one of these and *)
(* is closed under divisions holds o.                                      *)
ClosedOrgs == {S \in SUBSET Org : \A d \in Org : Over[d] \in S => d \in S}
SelfAndAboveOrg(o) == {a \in Org : \A S \in ClosedOrgs : a \in S => o \in S}

(* All that count a node placed at p. *)
CountingAt(p) == IF p = Nowhere THEN {} ELSE SelfAndAboveOrg(Base[p])
CountedAt(x) == CountingAt(at[x])
Below(o) == {x \in Person : status[x] = "active" /\ o \in CountedAt(x)}

(* All others are above it. *)
Nearest(orgs) == {o \in orgs : orgs \subseteq SelfAndAboveOrg(o)}

Cut == failures < MaxFailures /\ failures' = failures + 1

-----------------------------------------------------------------------------
(* Conversations.                                                          *)

BeginTalk(x, take, act, to, give) ==
  /\ talk[x].pc = "idle"
  /\ seatTalks < MaxSeatTalks
  /\ seatTalks' = seatTalks + 1
  /\ talk' = [talk EXCEPT ![x] =
       [pc |-> "take", take |-> take, taken |-> {}, act |-> act, to |-> to, give |-> give]]
  /\ recount' = [o \in Org |-> [recount[o] EXCEPT !.overlapped = TRUE]]
  /\ UNCHANGED <<used, allowed, at, status, limits, recounts, failures, seat, suspect, peak>>

(* createNode, placeIssued *)
CreateSeats(x, p) ==
  /\ status[x] = "none"
  /\ BeginTalk(x, CountingAt(p), "place", p, {})

(* An old parent above which somebody does not answer is as if it had no   *)
(* organizations: all are taken again, and none given back.                *)
RehomeSeats(x, q, known) ==
  LET old == IF known THEN CountedAt(x) ELSE {}
  IN /\ status[x] = "active"
     /\ at[x] # q
     /\ BeginTalk(x, CountingAt(q) \ old, "move", q, old \ CountingAt(q))

(* remove *)
RemoveSeats(x, known) ==
  /\ status[x] = "active"
  /\ BeginTalk(x, {}, "retire", at[x], IF known THEN CountedAt(x) ELSE {})

(* retireAway: its machine does not answer and is not heard of again. *)
RetireAwaySeats(x, known) ==
  /\ status[x] = "active"
  /\ BeginTalk(x, {}, "mark", at[x], IF known THEN CountedAt(x) ELSE {})

(* replaceLost: whether or not it has been retired while away. *)
ReplaceLostSeats(x, known) ==
  /\ status[x] \in {"active", "away"}
  /\ BeginTalk(x, {}, "replace", at[x], IF known THEN CountedAt(x) ELSE {})

(* A seat is taken, and remembered as taken. *)
SeatTaken(o, x) ==
  /\ used' = [used EXCEPT ![o] = @ + 1]
  /\ seat' = [seat EXCEPT ![x][o] = @ + 1]

(* Fault: a seat is taken also when the last one is in use. *)
HasRoomAtLimit(o) == used[o] <= allowed[o]

(* changeSeats *)
HasRoom(o) == used[o] + 1 <= allowed[o]

(* Nearest first. *)
Take(x) ==
  LET t == talk[x]
  IN /\ t.pc = "take"
     /\ \E o \in Nearest(t.take) :
          /\ HasRoom(o)
          /\ SeatTaken(o, x)
          /\ talk' = [talk EXCEPT ![x].take = @ \ {o}, ![x].taken = @ \cup {o}]
     /\ UNCHANGED <<allowed, at, status, recount, seatTalks, limits, recounts, failures, suspect, peak>>

GiveBack(t, orgs) == [t EXCEPT !.pc = "give", !.give = orgs]

(* One refuses or fails: those taken are given back.  The one that failed  *)
(* may have taken it.                                                      *)
TakeRefused(x) ==
  LET t == talk[x]
  IN /\ t.pc = "take"
     /\ talk' = [talk EXCEPT ![x] = GiveBack(t, t.taken)]
     /\ \E o \in Nearest(t.take) :
          \/ ~HasRoom(o) /\ UNCHANGED <<used, seat, failures>>
          \/ Cut /\ UNCHANGED <<used, seat>>
          \/ Cut /\ HasRoom(o) /\ SeatTaken(o, x)
     /\ UNCHANGED <<allowed, at, status, recount, seatTalks, limits, recounts, suspect, peak>>

Becomes(act) ==
  CASE act \in {"place", "move"} -> "active"
    [] act = "mark" -> "away"
    [] OTHER -> "retired"

Acted(x) ==
  /\ at' = [at EXCEPT ![x] = talk[x].to]
  /\ status' = [status EXCEPT ![x] = Becomes(talk[x].act)]

Acts(x) ==
  /\ talk[x].pc = "take"
  /\ talk[x].take = {}
  /\ Acted(x)
  /\ talk' = [talk EXCEPT ![x] = GiveBack(@, @.give)]
  /\ UNCHANGED <<used, allowed, recount, seatTalks, limits, recounts, failures, seat, suspect, peak>>

(* A placement that failed gives its seats back, when the new node's Core  *)
(* says that it does not hold the node; all else is left as it is.         *)
AfterFailure(t) ==
  {GiveBack(t, {})} \cup (IF t.act = "place" THEN {GiveBack(t, t.taken)} ELSE {})

ActFails(x) ==
  /\ talk[x].pc = "take"
  /\ talk[x].take = {}
  /\ Cut
  /\ \/ /\ \E t \in AfterFailure(talk[x]) : talk' = [talk EXCEPT ![x] = t]
        /\ UNCHANGED <<at, status>>
     \/ Acted(x) /\ talk' = [talk EXCEPT ![x] = Idle]
  /\ UNCHANGED <<used, allowed, recount, seatTalks, limits, recounts, seat, suspect, peak>>

(* Fault: a count goes below zero. *)
OneLessAnyhow(n) == n - 1

OneLess(n) == IF n = 0 THEN 0 ELSE n - 1

(* A seat given back that was not taken leaves the count in doubt. *)
Given(o, x) ==
  /\ used' = [used EXCEPT ![o] = OneLess(@)]
  /\ IF seat[x][o] = 0
     THEN suspect' = suspect \cup {o} /\ UNCHANGED seat
     ELSE seat' = [seat EXCEPT ![x][o] = @ - 1] /\ UNCHANGED suspect

Gives(x) ==
  LET t == talk[x]
  IN /\ t.pc = "give"
     /\ \/ /\ t.give = {}
           /\ talk' = [talk EXCEPT ![x] = Idle]
           /\ UNCHANGED <<used, seat, suspect>>
        \/ \E o \in Nearest(t.give) :
             /\ Given(o, x)
             /\ talk' = [talk EXCEPT ![x].give = @ \ {o}]
     /\ UNCHANGED <<allowed, at, status, recount, seatTalks, limits, recounts, failures, peak>>

(* One that does not answer keeps its count. *)
GiveMissed(x) ==
  LET t == talk[x]
  IN /\ t.pc = "give"
     /\ Cut
     /\ \E o \in Nearest(t.give) :
          /\ talk' = [talk EXCEPT ![x].give = @ \ {o}]
          /\ UNCHANGED <<used, seat, suspect>> \/ Given(o, x)
     /\ UNCHANGED <<allowed, at, status, recount, seatTalks, limits, recounts, peak>>

-----------------------------------------------------------------------------
(* Limits and recounts.                                                    *)

(* On the organization's own machine. *)
LimitSet(o, n) ==
  /\ allowed' = [allowed EXCEPT ![o] = n]
  /\ peak' = [peak EXCEPT ![o] = IF @ < n THEN n ELSE @]

(* A division allows no more than the organization above it. *)
SetSeatLimits(o, n) ==
  /\ limits < MaxLimits
  /\ limits' = limits + 1
  /\ n # NoLimit /\ Over[o] # Nowhere => n <= allowed[Over[o]]
  /\ LimitSet(o, n)
  /\ UNCHANGED <<used, at, status, talk, recount, seatTalks, recounts, failures, seat, suspect>>

Divisions(o) == {d \in Org : Over[d] = o}
Own(o) == {x \in Below(o) : Base[at[x]] = o}

(* The walk: first the organization's own people.  A list may hold too     *)
(* many; one that could not be read, or may miss some, is known.           *)
RecountBegins(o) ==
  /\ recount[o].pc = "idle"
  /\ recounts < MaxRecounts
  /\ recounts' = recounts + 1
  /\ \E extra \in 0 .. MaxExtra, unread \in SUBSET Own(o) :
       recount' = [recount EXCEPT ![o] =
         [pc |-> "read",
          left |-> Divisions(o),
          counted |-> Cardinality(Own(o) \ unread) + extra,
          complete |-> unread = {},
          overlapped |-> \E x \in Person : talk[x].pc # "idle"]]
  /\ UNCHANGED <<used, allowed, at, status, talk, seatTalks, limits, failures, seat, suspect, peak>>

(* Then each division's own count, asked of the division. *)
RecountReads(o, d) ==
  LET r == recount[o]
  IN /\ r.pc = "read"
     /\ d \in r.left
     /\ \/ recount' = [recount EXCEPT ![o] =
             [r EXCEPT !.left = @ \ {d}, !.counted = @ + used[d], !.overlapped = @ \/ d \in suspect]]
        \/ recount' = [recount EXCEPT ![o] = [r EXCEPT !.left = @ \ {d}, !.complete = FALSE]]
     /\ UNCHANGED <<used, allowed, at, status, talk, seatTalks, limits, recounts, failures, seat,
                    suspect, peak>>

(* Fault: a recount that did not reach everything lowers the count too. *)
RecountedAnyhow(o) == recount[o].counted

(* setSeatsUsed: what was not reached may only raise the count. *)
Recounted(o) ==
  LET r == recount[o]
  IN IF r.complete \/ r.counted > used[o] THEN r.counted ELSE used[o]

RecountWrites(o) ==
  LET r == recount[o]
  IN /\ r.pc = "read"
     /\ r.left = {}
     /\ used' = [used EXCEPT ![o] = Recounted(o)]
     /\ recount' = [recount EXCEPT ![o] = Still]
     /\ IF ~r.complete
        THEN UNCHANGED <<seat, suspect, peak>>
        ELSE IF r.overlapped
        THEN suspect' = suspect \cup {o} /\ UNCHANGED <<seat, peak>>
        ELSE /\ suspect' = suspect \ {o}
             /\ seat' = [x \in Person |->
                           [seat[x] EXCEPT ![o] = IF x \in Below(o) THEN 1 ELSE 0]]
             /\ peak' = [peak EXCEPT ![o] = IF @ < r.counted THEN r.counted ELSE @]
     /\ UNCHANGED <<allowed, at, status, talk, seatTalks, limits, recounts, failures>>

(* One that cannot set what it read changes nothing. *)
RecountFails(o) ==
  /\ recount[o].pc = "read"
  /\ Cut
  /\ recount' = [recount EXCEPT ![o] = Still]
  /\ UNCHANGED <<used, allowed, at, status, talk, seatTalks, limits, recounts, seat, suspect, peak>>

SeatsNext ==
  \/ \E x \in Person, p \in Spot : CreateSeats(x, p)
  \/ \E x \in Person, q \in Spot, known \in BOOLEAN : RehomeSeats(x, q, known)
  \/ \E x \in Person, known \in BOOLEAN :
       RemoveSeats(x, known) \/ RetireAwaySeats(x, known) \/ ReplaceLostSeats(x, known)
  \/ \E x \in Person :
       Take(x) \/ TakeRefused(x) \/ Acts(x) \/ ActFails(x) \/ Gives(x) \/ GiveMissed(x)
  \/ \E o \in Org, n \in Number \cup {NoLimit} : SetSeatLimits(o, n)
  \/ \E o, d \in Org : RecountReads(o, d)
  \/ \E o \in Org : RecountBegins(o) \/ RecountWrites(o) \/ RecountFails(o)

SeatsSpec == SeatsInit /\ [][SeatsNext]_seatVars

-----------------------------------------------------------------------------

(* The counts and records are of the right types: no count falls below     *)
(* zero.                                                                   *)
SeatsTypeOK ==
  /\ used \in [Org -> Nat]
  /\ allowed \in [Org -> Nat]
  /\ at \in [Person -> Spot \cup {Nowhere}]
  /\ status \in [Person -> {"none", "active", "away", "retired"}]
  /\ seat \in [Person -> [Org -> Nat]]
  /\ suspect \subseteq Org

(* The count in use may be too high, never too low: wherever conversations *)
(* stop, each organization counts at least the living people below it.     *)
(* Two ways around it are open and counted as suspect: a recount during a  *)
(* conversation, and the seat of a node retired while away, which is given *)
(* back once more when the node is replaced as lost.                       *)
NeverTooLow == \A o \in Org \ suspect : Cardinality(Below(o)) <= used[o]

(* An organization never has more people than it once allowed, or than a   *)
(* recount found there, however additions and moves into it and its        *)
(* divisions interleave.                                                   *)
NoneBeyondLimit == \A o \in Org \ suspect : Cardinality(Below(o)) <= peak[o]
=============================================================================
