----------------------------- MODULE SeatsProofs -----------------------------
(***************************************************************************)
(* Proofs about the seats: no count falls below zero, none is too low, and *)
(* no organization has more people than it once allowed, for any           *)
(* organizations, places and people, and any number of conversations.      *)
(*                                                                         *)
(* The history `seat` is read as a set of tokens, one for each time a seat *)
(* is taken for a person and not given back.  An organization counts at    *)
(* least its tokens and never had more than it allowed, and every living   *)
(* person below it has a token that no conversation is about to give back. *)
(***************************************************************************)
EXTENDS Seats, FiniteSetTheorems, TLAPS

Acting == {"place", "move", "retire", "mark", "replace"}

SeatTalk ==
  [pc : {"idle", "take", "give"}, take : SUBSET Org, taken : SUBSET Org, act : Acting \cup {"none"},
   to : Spot \cup {Nowhere}, give : SUBSET Org]
Walk ==
  [pc : {"idle", "read"}, left : SUBSET Org, counted : Nat, complete : BOOLEAN,
   overlapped : BOOLEAN]

Typed ==
  /\ SeatsTypeOK
  /\ peak \in [Org -> Nat]
  /\ talk \in [Person -> SeatTalk]
  /\ recount \in [Org -> Walk]

(* One for each seat of o that is taken. *)
Tokens(o) == UNION {{x} \X (1 .. seat[x][o]) : x \in Person}

TokenCounted(o) ==
  /\ Cardinality(Tokens(o)) <= used[o]
  /\ Cardinality(Tokens(o)) <= peak[o]

TokensCounted ==
  \A o \in Org :
    /\ IsFiniteSet(Tokens(o))
    /\ allowed[o] <= peak[o]
    /\ o \notin suspect => TokenCounted(o)

(* A seat of o that the conversation about x may still give back. *)
Due(x, o) ==
  \/ talk[x].pc = "take" /\ o \in talk[x].taken
  \/ talk[x].pc = "give" /\ o \in talk[x].give

(* A living person has a seat wherever counted, and another where one may  *)
(* still be given back.                                                    *)
Held(x, o) == seat[x][o] >= 1 /\ (Due(x, o) => seat[x][o] >= 2)

AllHeld ==
  \A x \in Person, o \in Org \ suspect :
    status[x] = "active" /\ o \in CountedAt(x) => Held(x, o)

(* While seats are taken, one of a new place is held or still to be taken, *)
(* and none of them will be given back.                                    *)
TalkReady(x) ==
  LET t == talk[x]
  IN /\ t.act \in Acting
     /\ t.act = "place" => status[x] = "none" /\ t.give = {}
     /\ t.act \in {"place", "move"} =>
          /\ t.give \cap CountingAt(t.to) = {}
          /\ \A o \in CountingAt(t.to) \ suspect : seat[x][o] >= 1 \/ o \in t.take

TalksReady == \A x \in Person : talk[x].pc = "take" => TalkReady(x)

(* What a walk has reached: nobody below it is counted too few times. *)
Reached(o) == Own(o) \cup UNION {Below(d) : d \in Divisions(o) \ recount[o].left}

WalkSound(o) ==
  /\ \A x \in Person : talk[x].pc = "idle"
  /\ recount[o].complete => Cardinality(Reached(o)) <= recount[o].counted

WalksSound ==
  \A o \in Org : recount[o].pc = "read" /\ ~recount[o].overlapped => WalkSound(o)

SeatsInv == Typed /\ TokensCounted /\ AllHeld /\ TalksReady /\ WalksSound

-----------------------------------------------------------------------------
(* The organizations above.                                                *)

(* An organization is among those it counts in, and what is above the next *)
(* one is above it.                                                        *)
LEMMA InItself == ASSUME NEW o \in Org PROVE o \in SelfAndAboveOrg(o)
BY DEF SelfAndAboveOrg

LEMMA AboveTheNext ==
  ASSUME NEW e \in Org, NEW c \in Org, Over[e] = c, NEW d \in SelfAndAboveOrg(c)
  PROVE  d \in SelfAndAboveOrg(e)
BY DEF SelfAndAboveOrg, ClosedOrgs

(* Who counts in an organization has it as the nearest, or counts in one   *)
(* of its divisions.                                                       *)
LEMMA NearestOrDivision ==
  ASSUME NEW b \in Org, NEW o \in SelfAndAboveOrg(b), b # o
  PROVE  \E d \in Divisions(o) : d \in SelfAndAboveOrg(b)
<1> DEFINE S == {o} \cup {c \in Org : \E d \in Divisions(o) : d \in SelfAndAboveOrg(c)}
<1>1. o \in Org
  BY DEF SelfAndAboveOrg
<1>2. S \in ClosedOrgs
  <2>1. S \in SUBSET Org
    BY <1>1
  <2>2. ASSUME NEW e \in Org, Over[e] \in S PROVE e \in S
    <3>1. CASE Over[e] = o
      <4>1. e \in Divisions(o)
        BY <3>1 DEF Divisions
      <4> QED BY <4>1, InItself
    <3>2. CASE Over[e] # o
      <4>1. PICK d \in Divisions(o) : d \in SelfAndAboveOrg(Over[e])
        BY <2>2, <3>2
      <4>2. Over[e] \in Org
        BY <2>2, <3>2
      <4>3. d \in SelfAndAboveOrg(e)
        BY <4>1, <4>2, AboveTheNext
      <4> QED BY <4>1, <4>3
    <3> QED BY <3>1, <3>2
  <2> QED BY <2>1, <2>2 DEF ClosedOrgs
<1>3. b \in S
  BY <1>2 DEF SelfAndAboveOrg
<1> QED BY <1>3

LEMMA PlaceCounts == ASSUME NEW p PROVE CountingAt(p) \subseteq Org
BY DEF CountingAt, SelfAndAboveOrg

LEMMA NearestIn == ASSUME NEW S, NEW o \in Nearest(S) PROVE o \in S
BY DEF Nearest

(* A complete walk reaches everybody: its own people, and those of each    *)
(* division.                                                               *)
LEMMA AllReached ==
  ASSUME Typed, NEW o \in Org, recount[o].left = {}
  PROVE  Below(o) \subseteq Reached(o)
<1>1. SUFFICES ASSUME NEW x \in Below(o) PROVE x \in Reached(o)
  OBVIOUS
<1>2. x \in Person /\ status[x] = "active" /\ o \in CountingAt(at[x])
  BY DEF Below, CountedAt
<1>3. at[x] \in Spot /\ Base[at[x]] \in Org /\ o \in SelfAndAboveOrg(Base[at[x]])
  BY <1>2, SeatsAssumption DEF CountingAt, Typed, SeatsTypeOK
<1>4. CASE Base[at[x]] = o
  BY <1>4 DEF Own, Reached
<1>5. CASE Base[at[x]] # o
  <2>1. PICK d \in Divisions(o) : d \in SelfAndAboveOrg(Base[at[x]])
    BY <1>3, <1>5, NearestOrDivision
  <2>2. d \in CountedAt(x)
    BY <2>1, <1>3, SeatsAssumption DEF CountedAt, CountingAt
  <2>3. x \in Below(d)
    BY <2>2, <1>2 DEF Below
  <2> QED BY <2>1, <2>3 DEF Reached
<1> QED BY <1>4, <1>5

-----------------------------------------------------------------------------
(* Tokens.                                                                 *)

LEMMA TokenIs ==
  ASSUME NEW o \in Org, NEW t
  PROVE  t \in Tokens(o) <=> \E x \in Person : \E i \in 1 .. seat[x][o] : t = <<x, i>>
BY DEF Tokens

LEMMA TokenTaken ==
  ASSUME Typed, NEW x \in Person, NEW o \in Org, seat' = [seat EXCEPT ![x][o] = @ + 1]
  PROVE  /\ Tokens(o)' = Tokens(o) \cup {<<x, seat[x][o] + 1>>}
         /\ <<x, seat[x][o] + 1>> \notin Tokens(o)
         /\ \A c \in Org : c # o => Tokens(c)' = Tokens(c)
<1>1. /\ seat \in [Person -> [Org -> Nat]] /\ seat' \in [Person -> [Org -> Nat]]
      /\ seat'[x][o] = seat[x][o] + 1
      /\ \A y \in Person : y # x => seat'[y][o] = seat[y][o]
      /\ \A y \in Person, c \in Org : c # o => seat'[y][c] = seat[y][c]
  BY DEF Typed, SeatsTypeOK
<1>2. ASSUME NEW t PROVE t \in Tokens(o)' <=> t \in Tokens(o) \cup {<<x, seat[x][o] + 1>>}
  <2>1. t \in Tokens(o)' <=> \E y \in Person : \E i \in 1 .. seat'[y][o] : t = <<y, i>>
    BY DEF Tokens
  <2>2. t \in Tokens(o) <=> \E y \in Person : \E i \in 1 .. seat[y][o] : t = <<y, i>>
    BY DEF Tokens
  <2>3. 1 .. seat'[x][o] = (1 .. seat[x][o]) \cup {seat[x][o] + 1}
    BY <1>1
  <2> QED BY <2>1, <2>2, <2>3, <1>1
<1>3. <<x, seat[x][o] + 1>> \notin Tokens(o)
  BY <1>1 DEF Tokens
<1>4. ASSUME NEW c \in Org, c # o PROVE Tokens(c)' = Tokens(c)
  BY <1>1, <1>4 DEF Tokens
<1> QED BY <1>2, <1>3, <1>4

LEMMA TokenGiven ==
  ASSUME Typed, NEW x \in Person, NEW o \in Org, seat[x][o] # 0,
         seat' = [seat EXCEPT ![x][o] = @ - 1]
  PROVE  /\ Tokens(o)' = Tokens(o) \ {<<x, seat[x][o]>>}
         /\ <<x, seat[x][o]>> \in Tokens(o)
         /\ \A c \in Org : c # o => Tokens(c)' = Tokens(c)
<1>1. /\ seat \in [Person -> [Org -> Nat]] /\ seat[x][o] \in Nat \ {0}
      /\ seat'[x][o] = seat[x][o] - 1
      /\ \A y \in Person : y # x => seat'[y][o] = seat[y][o]
      /\ \A y \in Person, c \in Org : c # o => seat'[y][c] = seat[y][c]
  BY DEF Typed, SeatsTypeOK
<1>2. ASSUME NEW t PROVE t \in Tokens(o)' <=> t \in Tokens(o) \ {<<x, seat[x][o]>>}
  <2>1. t \in Tokens(o)' <=> \E y \in Person : \E i \in 1 .. seat'[y][o] : t = <<y, i>>
    BY DEF Tokens
  <2>2. t \in Tokens(o) <=> \E y \in Person : \E i \in 1 .. seat[y][o] : t = <<y, i>>
    BY DEF Tokens
  <2>3. 1 .. seat'[x][o] = (1 .. seat[x][o]) \ {seat[x][o]}
    BY <1>1
  <2> QED BY <2>1, <2>2, <2>3, <1>1
<1>3. <<x, seat[x][o]>> \in Tokens(o)
  <2>1. seat[x][o] \in 1 .. seat[x][o]
    BY <1>1
  <2> QED BY <2>1 DEF Tokens
<1>4. ASSUME NEW c \in Org, c # o PROVE Tokens(c)' = Tokens(c)
  BY <1>1, <1>4 DEF Tokens
<1> QED BY <1>2, <1>3, <1>4

(* Each person below who has a seat has a token of their own. *)
LEMMA BelowFits ==
  ASSUME Typed, NEW o \in Org, IsFiniteSet(Tokens(o)), \A x \in Below(o) : seat[x][o] >= 1
  PROVE  Cardinality(Below(o)) <= Cardinality(Tokens(o))
<1> DEFINE f == [x \in Below(o) |-> <<x, 1>>]
<1>1. f \in [Below(o) -> Tokens(o)]
  <2>1. ASSUME NEW x \in Below(o) PROVE <<x, 1>> \in Tokens(o)
    <3>1. x \in Person /\ seat[x][o] \in Nat /\ seat[x][o] >= 1
      BY <2>1 DEF Below, Typed, SeatsTypeOK
    <3>2. 1 \in 1 .. seat[x][o]
      BY <3>1
    <3> QED BY <3>1, <3>2 DEF Tokens
  <2> QED BY <2>1
<1>2. f \in Injection(Below(o), Tokens(o))
  BY <1>1 DEF Injection, IsInjective
<1> QED BY <1>2, FS_Injection

-----------------------------------------------------------------------------
(* What the steps have in common.                                          *)

(* While a conversation runs no walk is sound, whatever it has counted. *)
LEMMA TalkingNoWalk ==
  ASSUME WalksSound, NEW x \in Person, talk[x].pc # "idle", UNCHANGED recount
  PROVE  WalksSound'
BY DEF WalksSound, WalkSound

LEMMA SameTokens ==
  ASSUME TokensCounted, UNCHANGED <<used, allowed, seat, suspect, peak>>
  PROVE  TokensCounted'
BY DEF TokensCounted, TokenCounted, Tokens

LEMMA TakenCounted ==
  ASSUME Typed, TokensCounted, NEW x \in Person, NEW o \in Org, HasRoom(o), SeatTaken(o, x),
         UNCHANGED <<allowed, suspect, peak>>
  PROVE  TokensCounted'
<1> DEFINE new == <<x, seat[x][o] + 1>>
<1>1. Tokens(o)' = Tokens(o) \cup {new} /\ new \notin Tokens(o)
  BY TokenTaken DEF SeatTaken
<1>2. /\ IsFiniteSet(Tokens(o)) /\ IsFiniteSet(Tokens(o)')
      /\ Cardinality(Tokens(o)') = Cardinality(Tokens(o)) + 1
  <2>1. IsFiniteSet(Tokens(o))
    BY DEF TokensCounted
  <2> HIDE DEF new
  <2> QED BY <1>1, <2>1, FS_AddElement
<1>3. Cardinality(Tokens(o)) \in Nat
  BY <1>2, FS_CardinalityType
<1>4. /\ used[o] \in Nat /\ used'[o] = used[o] + 1 /\ allowed[o] \in Nat /\ peak[o] \in Nat
      /\ \A c \in Org : c # o => used'[c] = used[c]
  BY DEF SeatTaken, Typed, SeatsTypeOK
<1>5. allowed[o] <= peak[o] /\ used[o] + 1 <= allowed[o]
  BY DEF TokensCounted, HasRoom
<1>6. /\ IsFiniteSet(Tokens(o))'
      /\ (allowed[o] <= peak[o])'
      /\ (o \notin suspect => TokenCounted(o))'
  <2>1. ASSUME o \notin suspect PROVE Cardinality(Tokens(o)') <= used'[o] /\ Cardinality(Tokens(o)') <= peak[o]
    <3>1. Cardinality(Tokens(o)) <= used[o]
      BY <2>1 DEF TokensCounted, TokenCounted
    <3> QED BY <3>1, <1>2, <1>3, <1>4, <1>5
  <2> QED BY <2>1, <1>2, <1>5 DEF TokenCounted
<1>7. ASSUME NEW c \in Org, c # o
      PROVE  /\ IsFiniteSet(Tokens(c))'
             /\ (allowed[c] <= peak[c])'
             /\ (c \notin suspect => TokenCounted(c))'
  <2>1. Tokens(c)' = Tokens(c)
    BY <1>7, TokenTaken DEF SeatTaken
  <2> QED BY <2>1, <1>4, <1>7 DEF TokensCounted, TokenCounted
<1> QED BY <1>6, <1>7 DEF TokensCounted

LEMMA GivenCounted ==
  ASSUME Typed, TokensCounted, NEW x \in Person, NEW o \in Org, Given(o, x),
         UNCHANGED <<allowed, peak>>
  PROVE  TokensCounted'
<1>1. /\ used[o] \in Nat /\ used'[o] = OneLess(used[o])
      /\ \A c \in Org : c # o => used'[c] = used[c]
  BY DEF Given, Typed, SeatsTypeOK
<1>2. CASE seat[x][o] = 0
  <2>1. \A c \in Org : Tokens(c)' = Tokens(c)
    BY <1>2 DEF Given, Tokens
  <2>2. suspect' = suspect \cup {o}
    BY <1>2 DEF Given
  <2> QED BY <2>1, <2>2, <1>1 DEF TokensCounted, TokenCounted
<1>3. CASE seat[x][o] # 0
  <2>0. seat' = [seat EXCEPT ![x][o] = @ - 1] /\ UNCHANGED suspect
    BY <1>3 DEF Given
  <2> DEFINE old == <<x, seat[x][o]>>
  <2>1. Tokens(o)' = Tokens(o) \ {old} /\ old \in Tokens(o)
    BY <2>0, <1>3, TokenGiven
  <2>2. \A c \in Org : c # o => Tokens(c)' = Tokens(c)
    BY <2>0, <1>3, TokenGiven
  <2> HIDE DEF old
  <2>3. IsFiniteSet(Tokens(o))
    BY DEF TokensCounted
  <2>4. IsFiniteSet(Tokens(o)') /\ Cardinality(Tokens(o)') = Cardinality(Tokens(o)) - 1
    BY <2>1, <2>3, FS_RemoveElement
  <2>5. Cardinality(Tokens(o)) \in Nat
    BY <2>3, FS_CardinalityType
  <2>6. peak[o] \in Nat
    BY DEF Typed
  <2>7. ASSUME o \notin suspect
        PROVE  Cardinality(Tokens(o)') <= used'[o] /\ Cardinality(Tokens(o)') <= peak[o]
    <3>1. Cardinality(Tokens(o)) <= used[o] /\ Cardinality(Tokens(o)) <= peak[o]
      BY <2>7 DEF TokensCounted, TokenCounted
    <3>2. Cardinality(Tokens(o)) # 0
      BY <2>1, <2>3, FS_EmptySet
    <3> QED BY <3>1, <3>2, <2>4, <2>5, <2>6, <1>1 DEF OneLess
  <2> QED BY <2>0, <2>2, <2>4, <2>7, <1>1 DEF TokensCounted, TokenCounted
<1> QED BY <1>2, <1>3

-----------------------------------------------------------------------------
(* Conversations.                                                          *)

LEMMA BeginKeeps ==
  ASSUME SeatsInv, NEW x \in Person, NEW take \in SUBSET Org, NEW act \in Acting,
         NEW to \in Spot \cup {Nowhere}, NEW give \in SUBSET Org,
         BeginTalk(x, take, act, to, give),
         act = "place" => status[x] = "none" /\ give = {},
         act \in {"place", "move"} =>
           /\ give \cap CountingAt(to) = {}
           /\ \A o \in CountingAt(to) \ suspect : seat[x][o] >= 1 \/ o \in take
  PROVE  SeatsInv'
<1> DEFINE new == [pc |-> "take", take |-> take, taken |-> {}, act |-> act, to |-> to, give |-> give]
<1>0. new \in SeatTalk
  BY DEF SeatTalk
<1>1. /\ talk \in [Person -> SeatTalk] /\ new \in SeatTalk
      /\ talk' = [talk EXCEPT ![x] = new]
  BY <1>0 DEF SeatsInv, Typed, BeginTalk
<1>2. /\ new.pc = "take" /\ new.take = take /\ new.taken = {} /\ new.act = act /\ new.to = to
      /\ new.give = give
  OBVIOUS
<1> HIDE DEF new
<1>3. /\ UNCHANGED <<used, allowed, at, status, seat, suspect, peak>>
      /\ recount' = [o \in Org |-> [recount[o] EXCEPT !.overlapped = TRUE]]
  BY DEF BeginTalk
<1>4. Typed'
  BY <1>1, <1>3 DEF SeatsInv, Typed, SeatsTypeOK, Walk
<1>5. TokensCounted'
  BY <1>3, SameTokens DEF SeatsInv
<1>6. AllHeld'
  BY <1>1, <1>2, <1>3 DEF SeatsInv, AllHeld, Held, Due, CountedAt
<1>7. TalksReady'
  BY <1>1, <1>2, <1>3 DEF SeatsInv, TalksReady, TalkReady
<1>8. WalksSound'
  BY <1>3 DEF SeatsInv, Typed, Walk, WalksSound
<1> QED BY <1>4, <1>5, <1>6, <1>7, <1>8 DEF SeatsInv

LEMMA CreateKeeps ==
  ASSUME SeatsInv, NEW x \in Person, NEW p \in Spot, CreateSeats(x, p)
  PROVE  SeatsInv'
<1>1. CountingAt(p) \in SUBSET Org
  BY PlaceCounts
<1> QED BY <1>1, BeginKeeps DEF CreateSeats, Acting

LEMMA RehomeKeeps ==
  ASSUME SeatsInv, NEW x \in Person, NEW q \in Spot, NEW known \in BOOLEAN,
         RehomeSeats(x, q, known)
  PROVE  SeatsInv'
<1> DEFINE old == IF known THEN CountedAt(x) ELSE {}
<1>1. /\ CountingAt(q) \ old \in SUBSET Org /\ old \ CountingAt(q) \in SUBSET Org
      /\ status[x] = "active" /\ old \subseteq CountedAt(x)
      /\ BeginTalk(x, CountingAt(q) \ old, "move", q, old \ CountingAt(q))
  BY PlaceCounts DEF RehomeSeats, CountedAt
<1>2. ASSUME NEW o \in CountingAt(q) \ suspect PROVE seat[x][o] >= 1 \/ o \in CountingAt(q) \ old
  BY <1>1, <1>2, PlaceCounts DEF SeatsInv, AllHeld, Held
<1>3. (old \ CountingAt(q)) \cap CountingAt(q) = {}
  OBVIOUS
<1> HIDE DEF old
<1> QED BY <1>1, <1>2, <1>3, BeginKeeps DEF Acting

LEMMA RetireKeeps ==
  ASSUME SeatsInv, NEW x \in Person, NEW known \in BOOLEAN, NEW act \in {"retire", "mark", "replace"},
         BeginTalk(x, {}, act, at[x], IF known THEN CountedAt(x) ELSE {})
  PROVE  SeatsInv'
<1> DEFINE give == IF known THEN CountedAt(x) ELSE {}
<1>1. give \in SUBSET Org
  BY PlaceCounts DEF CountedAt
<1>2. at[x] \in Spot \cup {Nowhere}
  BY DEF SeatsInv, Typed, SeatsTypeOK
<1>3. BeginTalk(x, {}, act, at[x], give)
  OBVIOUS
<1> HIDE DEF give
<1> QED BY <1>1, <1>2, <1>3, BeginKeeps DEF Acting

LEMMA TakeKeeps ==
  ASSUME SeatsInv, NEW x \in Person, Take(x)
  PROVE  SeatsInv'
<1> DEFINE t == talk[x]
<1>1. PICK o \in Nearest(t.take) :
        /\ HasRoom(o)
        /\ SeatTaken(o, x)
        /\ talk' = [talk EXCEPT ![x].take = @ \ {o}, ![x].taken = @ \cup {o}]
  BY DEF Take
<1>2. /\ t.pc = "take"
      /\ UNCHANGED <<allowed, at, status, recount, seatTalks, limits, recounts, failures, suspect, peak>>
  BY DEF Take
<1>3. /\ talk \in [Person -> SeatTalk] /\ t \in SeatTalk /\ o \in t.take /\ o \in Org
  BY NearestIn DEF SeatsInv, Typed, SeatTalk
<1> DEFINE new == [t EXCEPT !.take = @ \ {o}, !.taken = @ \cup {o}]
<1>4. /\ new \in SeatTalk /\ new.pc = "take" /\ new.take = t.take \ {o} /\ new.taken = t.taken \cup {o}
      /\ new.act = t.act /\ new.to = t.to /\ new.give = t.give
  BY <1>2, <1>3 DEF SeatTalk
<1>5. talk' = [talk EXCEPT ![x] = new]
  BY <1>1, <1>3
<1> HIDE DEF new
<1>6. /\ seat \in [Person -> [Org -> Nat]] /\ seat' \in [Person -> [Org -> Nat]]
      /\ seat'[x][o] = seat[x][o] + 1
      /\ \A y \in Person, c \in Org : y # x \/ c # o => seat'[y][c] = seat[y][c]
  BY <1>1, <1>3 DEF SeatTaken, SeatsInv, Typed, SeatsTypeOK
<1>7. Typed'
  <2>1. used' \in [Org -> Nat]
    BY <1>1, <1>3 DEF SeatsInv, Typed, SeatsTypeOK, SeatTaken
  <2>2. talk' \in [Person -> SeatTalk]
    BY <1>3, <1>4, <1>5
  <2> QED BY <2>1, <2>2, <1>2, <1>6 DEF SeatsInv, Typed, SeatsTypeOK
<1>8. TokensCounted'
  BY <1>1, <1>2, <1>3, TakenCounted DEF SeatsInv
<1>9. AllHeld'
  <2>1. SUFFICES ASSUME NEW y \in Person, NEW c \in Org \ suspect, status[y] = "active",
                        c \in CountedAt(y)
                 PROVE  Held(y, c)'
    BY <1>2 DEF AllHeld, CountedAt
  <2>2. Held(y, c)
    BY <2>1 DEF SeatsInv, AllHeld
  <2>3. CASE y = x /\ c = o
    BY <2>2, <2>3, <1>6 DEF Held
  <2>4. CASE y # x \/ c # o
    <3>1. Due(y, c)' <=> Due(y, c)
      BY <2>4, <1>2, <1>3, <1>4, <1>5 DEF Due
    <3> QED BY <2>2, <2>4, <3>1, <1>6 DEF Held
  <2> QED BY <2>3, <2>4
<1>10. TalksReady'
  <2>1. SUFFICES ASSUME NEW y \in Person, talk'[y].pc = "take" PROVE TalkReady(y)'
    BY DEF TalksReady
  <2>2. TalkReady(y)
    BY <2>1, <1>2, <1>3, <1>5 DEF SeatsInv, TalksReady
  <2>3. CASE y = x
    <3>1. talk'[x] = new
      BY <1>3, <1>5
    <3>2. /\ t.act \in Acting
          /\ t.act = "place" => status[x] = "none" /\ t.give = {}
          /\ t.act \in {"place", "move"} =>
               /\ t.give \cap CountingAt(t.to) = {}
               /\ \A c \in CountingAt(t.to) \ suspect : seat[x][c] >= 1 \/ c \in t.take
      BY <2>2, <2>3 DEF TalkReady
    <3>3. ASSUME NEW c \in CountingAt(t.to) \ suspect, seat[x][c] >= 1 \/ c \in t.take
          PROVE  seat'[x][c] >= 1 \/ c \in t.take \ {o}
      <4>1. c \in Org
        BY PlaceCounts
      <4> QED BY <3>3, <4>1, <1>6
    <3>4. new.act \in {"place", "move"} =>
            \A c \in CountingAt(new.to) \ suspect : seat'[x][c] >= 1 \/ c \in new.take
      BY <3>2, <3>3, <1>4
    <3> QED BY <2>3, <3>1, <3>2, <3>4, <1>2, <1>4 DEF TalkReady
  <2>4. CASE y # x
    BY <2>2, <2>4, <1>2, <1>3, <1>5, <1>6, PlaceCounts DEF TalkReady
  <2> QED BY <2>3, <2>4
<1>11. WalksSound'
  BY <1>2, TalkingNoWalk DEF SeatsInv
<1> QED BY <1>7, <1>8, <1>9, <1>10, <1>11 DEF SeatsInv

LEMMA RefusedKeeps ==
  ASSUME SeatsInv, NEW x \in Person, TakeRefused(x)
  PROVE  SeatsInv'
<1> DEFINE t == talk[x]
<1>1. /\ t.pc = "take"
      /\ talk' = [talk EXCEPT ![x] = GiveBack(t, t.taken)]
      /\ UNCHANGED <<allowed, at, status, recount, suspect, peak>>
  BY DEF TakeRefused
<1>2. PICK o \in Nearest(t.take) :
        UNCHANGED <<used, seat>> \/ (HasRoom(o) /\ SeatTaken(o, x))
  BY DEF TakeRefused
<1>3. /\ talk \in [Person -> SeatTalk] /\ t \in SeatTalk /\ o \in t.take /\ o \in Org
  BY NearestIn DEF SeatsInv, Typed, SeatTalk
<1> DEFINE new == [t EXCEPT !.pc = "give", !.give = t.taken]
<1>4. new \in SeatTalk /\ new.pc = "give" /\ new.give = t.taken
  BY <1>3 DEF SeatTalk
<1>5. talk' = [talk EXCEPT ![x] = new]
  BY <1>1 DEF GiveBack
<1> HIDE DEF new
<1>6. /\ seat \in [Person -> [Org -> Nat]] /\ seat' \in [Person -> [Org -> Nat]]
      /\ \A y \in Person, c \in Org : seat'[y][c] >= seat[y][c]
  <2>0. seat \in [Person -> [Org -> Nat]]
    BY DEF SeatsInv, Typed, SeatsTypeOK
  <2>1. CASE UNCHANGED seat
    BY <2>0, <2>1
  <2>2. CASE seat' = [seat EXCEPT ![x][o] = @ + 1]
    BY <2>0, <2>2, <1>3
  <2> QED BY <2>1, <2>2, <1>2 DEF SeatTaken
<1>7. Typed'
  <2>1. used' \in [Org -> Nat]
    BY <1>2, <1>3 DEF SeatsInv, Typed, SeatsTypeOK, SeatTaken
  <2>2. talk' \in [Person -> SeatTalk]
    BY <1>3, <1>4, <1>5
  <2> QED BY <2>1, <2>2, <1>1, <1>6 DEF SeatsInv, Typed, SeatsTypeOK
<1>8. TokensCounted'
  <2>1. CASE UNCHANGED <<used, seat>>
    BY <2>1, <1>1, SameTokens DEF SeatsInv
  <2>2. CASE HasRoom(o) /\ SeatTaken(o, x)
    BY <2>2, <1>1, <1>3, TakenCounted DEF SeatsInv
  <2> QED BY <2>1, <2>2, <1>2
<1>9. AllHeld'
  <2>1. SUFFICES ASSUME NEW y \in Person, NEW c \in Org \ suspect, status[y] = "active",
                        c \in CountedAt(y)
                 PROVE  Held(y, c)'
    BY <1>1 DEF AllHeld, CountedAt
  <2>2. Held(y, c)
    BY <2>1 DEF SeatsInv, AllHeld
  <2>3. Due(y, c)' <=> Due(y, c)
    BY <1>1, <1>3, <1>4, <1>5 DEF Due
  <2>4. seat[y][c] \in Nat /\ seat'[y][c] \in Nat /\ seat'[y][c] >= seat[y][c]
    BY <1>6
  <2> QED BY <2>2, <2>3, <2>4 DEF Held
<1>10. TalksReady'
  <2>1. SUFFICES ASSUME NEW y \in Person, talk'[y].pc = "take" PROVE TalkReady(y)'
    BY DEF TalksReady
  <2>2. y # x /\ talk'[y] = talk[y]
    BY <2>1, <1>3, <1>4, <1>5
  <2>3. TalkReady(y)
    BY <2>1, <2>2 DEF SeatsInv, TalksReady
  <2>4. UNCHANGED seat[y]
    BY <2>2, <1>2, <1>3 DEF SeatTaken, SeatsInv, Typed, SeatsTypeOK
  <2> QED BY <2>2, <2>3, <2>4, <1>1 DEF TalkReady
<1>11. WalksSound'
  BY <1>1, TalkingNoWalk DEF SeatsInv
<1> QED BY <1>7, <1>8, <1>9, <1>10, <1>11 DEF SeatsInv

(* The step a conversation is about: the place is changed, and a new place *)
(* is one whose seats are all held.                                        *)
LEMMA ActedKeeps ==
  ASSUME SeatsInv, NEW x \in Person, talk[x].pc = "take", talk[x].take = {}, Acted(x),
         NEW new \in SeatTalk, talk' = [talk EXCEPT ![x] = new],
         new.pc = "idle" \/ (new.pc = "give" /\ new.give = talk[x].give),
         UNCHANGED <<used, allowed, recount, seat, suspect, peak>>
  PROVE  SeatsInv'
<1> DEFINE t == talk[x]
<1>1. /\ talk \in [Person -> SeatTalk] /\ t \in SeatTalk
      /\ at \in [Person -> Spot \cup {Nowhere}]
      /\ status \in [Person -> {"none", "active", "away", "retired"}]
  BY DEF SeatsInv, Typed, SeatsTypeOK
<1>2. /\ at'[x] = t.to /\ status'[x] = Becomes(t.act)
      /\ \A y \in Person : y # x => at'[y] = at[y] /\ status'[y] = status[y] /\ talk'[y] = talk[y]
      /\ talk'[x] = new
  BY <1>1 DEF Acted
<1>3. Typed'
  <2>1. talk' \in [Person -> SeatTalk] /\ at' \in [Person -> Spot \cup {Nowhere}]
    BY <1>1 DEF Acted, SeatTalk
  <2>2. status' \in [Person -> {"none", "active", "away", "retired"}]
    BY <1>1 DEF Acted, Becomes
  <2> QED BY <2>1, <2>2 DEF SeatsInv, Typed, SeatsTypeOK
<1>4. TokensCounted'
  BY SameTokens DEF SeatsInv
<1>5. AllHeld'
  <2>1. SUFFICES ASSUME NEW y \in Person, NEW c \in Org \ suspect, status'[y] = "active",
                        c \in CountedAt(y)'
                 PROVE  Held(y, c)'
    BY DEF AllHeld
  <2>2. CASE y # x
    <3>1. Held(y, c)
      BY <2>1, <2>2, <1>2 DEF SeatsInv, AllHeld, CountedAt
    <3> QED BY <3>1, <2>2, <1>2 DEF Held, Due
  <2>3. CASE y = x
    <3>1. t.act \in {"place", "move"}
      BY <2>1, <2>3, <1>2 DEF Becomes
    <3>2. TalkReady(x)
      BY DEF SeatsInv, TalksReady
    <3>3. c \in CountingAt(t.to)
      BY <2>1, <2>3, <1>2 DEF CountedAt
    <3>4. c \notin t.give /\ seat[x][c] >= 1
      BY <3>1, <3>2, <3>3 DEF TalkReady
    <3>5. ~Due(x, c)'
      BY <3>4, <1>2 DEF Due
    <3> QED BY <2>3, <3>4, <3>5 DEF Held
  <2> QED BY <2>2, <2>3
<1>6. TalksReady'
  <2>1. SUFFICES ASSUME NEW y \in Person, talk'[y].pc = "take" PROVE TalkReady(y)'
    BY DEF TalksReady
  <2>2. y # x
    BY <2>1, <1>2
  <2>3. TalkReady(y)
    BY <2>1, <2>2, <1>2 DEF SeatsInv, TalksReady
  <2> QED BY <2>2, <2>3, <1>2 DEF TalkReady
<1>7. WalksSound'
  BY TalkingNoWalk DEF SeatsInv
<1> QED BY <1>3, <1>4, <1>5, <1>6, <1>7 DEF SeatsInv

LEMMA ActsKeeps ==
  ASSUME SeatsInv, NEW x \in Person, Acts(x)
  PROVE  SeatsInv'
<1> DEFINE new == [talk[x] EXCEPT !.pc = "give", !.give = talk[x].give]
<1>1. talk[x] \in SeatTalk
  BY DEF SeatsInv, Typed
<1>2. new \in SeatTalk /\ new.pc = "give" /\ new.give = talk[x].give
  BY <1>1 DEF SeatTalk
<1>3. talk' = [talk EXCEPT ![x] = new]
  BY DEF Acts, GiveBack, SeatsInv, Typed
<1> HIDE DEF new
<1> QED BY <1>2, <1>3, ActedKeeps DEF Acts

(* The failed step: nothing has changed, and no seat of a living person is *)
(* given back.                                                             *)
LEMMA ActFailsKeeps ==
  ASSUME SeatsInv, NEW x \in Person, ActFails(x)
  PROVE  SeatsInv'
<1> DEFINE t == talk[x]
<1>1. /\ t.pc = "take" /\ t.take = {}
      /\ UNCHANGED <<used, allowed, recount, seat, suspect, peak>>
      /\ \/ /\ \E n \in AfterFailure(t) : talk' = [talk EXCEPT ![x] = n]
            /\ UNCHANGED <<at, status>>
         \/ Acted(x) /\ talk' = [talk EXCEPT ![x] = Idle]
  BY DEF ActFails
<1>2. talk \in [Person -> SeatTalk] /\ t \in SeatTalk
  BY DEF SeatsInv, Typed
<1>3. CASE Acted(x) /\ talk' = [talk EXCEPT ![x] = Idle]
  <2>1. Idle \in SeatTalk /\ Idle.pc = "idle"
    BY DEF Idle, SeatTalk
  <2> QED BY <2>1, <1>1, <1>3, ActedKeeps
<1>4. CASE /\ \E n \in AfterFailure(t) : talk' = [talk EXCEPT ![x] = n]
           /\ UNCHANGED <<at, status>>
  <2>1. PICK n \in AfterFailure(t) : talk' = [talk EXCEPT ![x] = n]
    BY <1>4
  <2>2. /\ n \in SeatTalk /\ n.pc = "give"
        /\ n.give = {} \/ (n.give = t.taken /\ t.act = "place")
    BY <2>1, <1>2 DEF AfterFailure, GiveBack, SeatTalk
  <2>3. /\ talk'[x] = n
        /\ \A y \in Person : y # x => talk'[y] = talk[y]
    BY <2>1, <1>2
  <2>4. Typed'
    <3>1. talk' \in [Person -> SeatTalk]
      BY <2>1, <2>2, <1>2
    <3> QED BY <3>1, <1>1, <1>4 DEF SeatsInv, Typed, SeatsTypeOK
  <2>5. TokensCounted'
    BY <1>1, SameTokens DEF SeatsInv
  <2>6. AllHeld'
    <3>1. SUFFICES ASSUME NEW y \in Person, NEW c \in Org \ suspect, status[y] = "active",
                          c \in CountedAt(y)
                   PROVE  Held(y, c)'
      BY <1>1, <1>4 DEF AllHeld, CountedAt
    <3>2. Held(y, c)
      BY <3>1 DEF SeatsInv, AllHeld
    <3>3. Due(y, c)' => Due(y, c)
      <4>1. CASE y = x
        <5>1. t.act # "place"
          BY <4>1, <3>1, <1>1 DEF SeatsInv, TalksReady, TalkReady
        <5> QED BY <5>1, <4>1, <2>2, <2>3 DEF Due
      <4>2. CASE y # x
        BY <4>2, <2>3 DEF Due
      <4> QED BY <4>1, <4>2
    <3> QED BY <3>2, <3>3, <1>1 DEF Held
  <2>7. TalksReady'
    <3>1. SUFFICES ASSUME NEW y \in Person, talk'[y].pc = "take" PROVE TalkReady(y)'
      BY DEF TalksReady
    <3>2. y # x /\ talk'[y] = talk[y]
      BY <3>1, <2>2, <2>3
    <3>3. TalkReady(y)
      BY <3>1, <3>2 DEF SeatsInv, TalksReady
    <3> QED BY <3>2, <3>3, <1>1, <1>4 DEF TalkReady
  <2>8. WalksSound'
    BY <1>1, TalkingNoWalk DEF SeatsInv
  <2> QED BY <2>4, <2>5, <2>6, <2>7, <2>8 DEF SeatsInv
<1> QED BY <1>1, <1>3, <1>4

(* Seats are given back. *)
LEMMA GivingKeeps ==
  ASSUME SeatsInv, NEW x \in Person, talk[x].pc = "give",
         NEW new \in SeatTalk, talk' = [talk EXCEPT ![x] = new],
         new.pc = "idle" \/ (new.pc = "give" /\ new.give \subseteq talk[x].give),
         UNCHANGED <<used, allowed, at, status, recount, seat, suspect, peak>>
  PROVE  SeatsInv'
<1>1. talk \in [Person -> SeatTalk] /\ talk'[x] = new /\ \A y \in Person : y # x => talk'[y] = talk[y]
  BY DEF SeatsInv, Typed
<1>2. Typed'
  BY <1>1 DEF SeatsInv, Typed, SeatsTypeOK
<1>3. TokensCounted'
  BY SameTokens DEF SeatsInv
<1>4. \A y \in Person, c \in Org : Due(y, c)' => Due(y, c)
  BY <1>1 DEF Due
<1>5. AllHeld'
  BY <1>4 DEF SeatsInv, AllHeld, Held, CountedAt
<1>6. TalksReady'
  BY <1>1 DEF SeatsInv, TalksReady, TalkReady
<1>7. WalksSound'
  BY TalkingNoWalk DEF SeatsInv
<1> QED BY <1>2, <1>3, <1>5, <1>6, <1>7 DEF SeatsInv

LEMMA GivenKeeps ==
  ASSUME SeatsInv, NEW x \in Person, talk[x].pc = "give", NEW o \in talk[x].give, Given(o, x),
         talk' = [talk EXCEPT ![x].give = @ \ {o}],
         UNCHANGED <<allowed, at, status, recount, peak>>
  PROVE  SeatsInv'
<1> DEFINE t == talk[x]
           new == [t EXCEPT !.give = @ \ {o}]
<1>1. talk \in [Person -> SeatTalk] /\ t \in SeatTalk /\ o \in Org
  BY DEF SeatsInv, Typed, SeatTalk
<1>2. new \in SeatTalk /\ new.pc = "give" /\ new.give = t.give \ {o}
  BY <1>1 DEF SeatTalk
<1>3. talk'[x] = new /\ (\A y \in Person : y # x => talk'[y] = talk[y]) /\ talk' \in [Person -> SeatTalk]
  BY <1>1, <1>2
<1> HIDE DEF new
<1>4. /\ seat \in [Person -> [Org -> Nat]] /\ seat' \in [Person -> [Org -> Nat]]
      /\ suspect' \subseteq Org /\ suspect \subseteq suspect'
      /\ \A y \in Person, c \in Org : y # x \/ c # o => seat'[y][c] = seat[y][c]
      /\ o \notin suspect' => seat'[x][o] = seat[x][o] - 1
  <2>0. seat \in [Person -> [Org -> Nat]] /\ suspect \subseteq Org
    BY DEF SeatsInv, Typed, SeatsTypeOK
  <2>1. CASE seat[x][o] = 0
    BY <2>0, <2>1, <1>1 DEF Given
  <2>2. CASE seat[x][o] # 0
    <3>1. seat' = [seat EXCEPT ![x][o] = @ - 1] /\ UNCHANGED suspect
      BY <2>2 DEF Given
    <3>2. seat[x][o] \in Nat /\ seat[x][o] - 1 \in Nat
      BY <2>0, <2>2, <1>1
    <3>3. seat' \in [Person -> [Org -> Nat]]
      BY <3>1, <3>2, <2>0, <1>1
    <3> QED BY <3>1, <3>3, <2>0, <1>1
  <2> QED BY <2>1, <2>2
<1>5. Typed'
  <2>0. used \in [Org -> Nat] /\ used' = [used EXCEPT ![o] = OneLess(@)]
    BY DEF SeatsInv, Typed, SeatsTypeOK, Given
  <2>1. used' \in [Org -> Nat]
    BY <2>0, <1>1 DEF OneLess
  <2> QED BY <2>1, <1>3, <1>4 DEF SeatsInv, Typed, SeatsTypeOK
<1>6. TokensCounted'
  BY <1>1, GivenCounted DEF SeatsInv
<1>7. AllHeld'
  <2>1. SUFFICES ASSUME NEW y \in Person, NEW c \in Org \ suspect', status[y] = "active",
                        c \in CountedAt(y)
                 PROVE  Held(y, c)'
    BY DEF AllHeld, CountedAt
  <2>2. Held(y, c)
    BY <2>1, <1>4 DEF SeatsInv, AllHeld
  <2>3. seat[y][c] \in Nat /\ seat'[y][c] \in Nat
    BY <1>4
  <2>4. CASE y = x /\ c = o
    <3>1. Due(x, o)
      BY DEF Due
    <3>2. ~Due(x, o)'
      BY <1>2, <1>3 DEF Due
    <3>3. seat[x][o] >= 2 /\ seat'[x][o] = seat[x][o] - 1
      BY <2>1, <2>2, <2>4, <3>1, <1>4 DEF Held
    <3> QED BY <2>3, <2>4, <3>2, <3>3 DEF Held
  <2>5. CASE y # x \/ c # o
    <3>1. Due(y, c)' <=> Due(y, c)
      BY <2>5, <1>2, <1>3 DEF Due
    <3> QED BY <2>2, <2>5, <3>1, <1>4 DEF Held
  <2> QED BY <2>4, <2>5
<1>8. TalksReady'
  <2>1. SUFFICES ASSUME NEW y \in Person, talk'[y].pc = "take" PROVE TalkReady(y)'
    BY DEF TalksReady
  <2>2. y # x /\ talk'[y] = talk[y]
    BY <2>1, <1>2, <1>3
  <2>3. TalkReady(y)
    BY <2>1, <2>2 DEF SeatsInv, TalksReady
  <2>4. \A c \in Org : seat'[y][c] = seat[y][c]
    BY <2>2, <1>4
  <2>5. \A c \in CountingAt(talk[y].to) : c \in Org
    BY PlaceCounts
  <2> QED BY <2>2, <2>3, <2>4, <2>5, <1>4 DEF TalkReady
<1>9. WalksSound'
  BY TalkingNoWalk DEF SeatsInv
<1> QED BY <1>5, <1>6, <1>7, <1>8, <1>9 DEF SeatsInv

LEMMA FewerToGive ==
  ASSUME Typed, NEW x \in Person, talk[x].pc = "give", NEW o, talk' = [talk EXCEPT ![x].give = @ \ {o}]
  PROVE  \E new \in SeatTalk : /\ talk' = [talk EXCEPT ![x] = new]
                              /\ new.pc = "give" /\ new.give \subseteq talk[x].give
<1> DEFINE new == [talk[x] EXCEPT !.give = @ \ {o}]
<1>1. talk[x] \in SeatTalk /\ talk \in [Person -> SeatTalk]
  BY DEF Typed
<1>2. new \in SeatTalk /\ new.pc = "give" /\ new.give \subseteq talk[x].give
  BY <1>1 DEF SeatTalk
<1>3. talk' = [talk EXCEPT ![x] = new]
  BY <1>1
<1> HIDE DEF new
<1> QED BY <1>2, <1>3

LEMMA GivesKeeps ==
  ASSUME SeatsInv, NEW x \in Person, Gives(x)
  PROVE  SeatsInv'
<1>1. talk[x].pc = "give" /\ UNCHANGED <<allowed, at, status, recount, peak>>
  BY DEF Gives
<1>2. CASE talk' = [talk EXCEPT ![x] = Idle] /\ UNCHANGED <<used, seat, suspect>>
  <2>1. Idle \in SeatTalk /\ Idle.pc = "idle"
    BY DEF Idle, SeatTalk
  <2> QED BY <2>1, <1>1, <1>2, GivingKeeps
<1>3. ASSUME NEW o \in Nearest(talk[x].give), Given(o, x), talk' = [talk EXCEPT ![x].give = @ \ {o}]
      PROVE  SeatsInv'
  <2>1. o \in talk[x].give
    BY NearestIn
  <2> QED BY <2>1, <1>1, <1>3, GivenKeeps
<1> QED BY <1>2, <1>3 DEF Gives

LEMMA MissedKeeps ==
  ASSUME SeatsInv, NEW x \in Person, GiveMissed(x)
  PROVE  SeatsInv'
<1>1. talk[x].pc = "give" /\ UNCHANGED <<allowed, at, status, recount, peak>>
  BY DEF GiveMissed
<1>2. PICK o \in Nearest(talk[x].give) :
        /\ talk' = [talk EXCEPT ![x].give = @ \ {o}]
        /\ UNCHANGED <<used, seat, suspect>> \/ Given(o, x)
  BY DEF GiveMissed
<1>3. o \in talk[x].give
  BY NearestIn
<1>4. CASE UNCHANGED <<used, seat, suspect>>
  <2>1. Typed
    BY DEF SeatsInv
  <2>2. PICK new \in SeatTalk : /\ talk' = [talk EXCEPT ![x] = new]
                               /\ new.pc = "give" /\ new.give \subseteq talk[x].give
    BY <1>1, <1>2, <2>1, FewerToGive
  <2> QED BY <2>2, <1>1, <1>4, GivingKeeps
<1>5. CASE Given(o, x)
  BY <1>1, <1>2, <1>3, <1>5, GivenKeeps
<1> QED BY <1>2, <1>4, <1>5

-----------------------------------------------------------------------------
(* Limits and recounts.                                                    *)

LEMMA LimitKeeps ==
  ASSUME SeatsInv, NEW o \in Org, NEW n \in Nat, SetSeatLimits(o, n)
  PROVE  SeatsInv'
<1>1. /\ UNCHANGED <<used, at, status, talk, recount, seat, suspect>>
      /\ allowed' = [allowed EXCEPT ![o] = n]
      /\ peak' = [peak EXCEPT ![o] = IF @ < n THEN n ELSE @]
  BY DEF SetSeatLimits, LimitSet
<1>2. allowed \in [Org -> Nat] /\ peak \in [Org -> Nat]
  BY DEF SeatsInv, Typed, SeatsTypeOK
<1>3. Typed'
  BY <1>1, <1>2 DEF SeatsInv, Typed, SeatsTypeOK
<1>4. TokensCounted'
  <2>1. SUFFICES ASSUME NEW c \in Org
                 PROVE  /\ IsFiniteSet(Tokens(c))'
                        /\ (allowed[c] <= peak[c])'
                        /\ (c \notin suspect => TokenCounted(c))'
    BY DEF TokensCounted
  <2>2. Tokens(c)' = Tokens(c)
    BY <1>1 DEF Tokens
  <2>3. IsFiniteSet(Tokens(c)) /\ allowed[c] <= peak[c] /\ (c \notin suspect => TokenCounted(c))
    BY DEF SeatsInv, TokensCounted
  <2>4. Cardinality(Tokens(c)) \in Nat
    BY <2>3, FS_CardinalityType
  <2>5. /\ peak[c] <= peak'[c] /\ allowed'[c] <= peak'[c]
        /\ peak[c] \in Nat /\ peak'[c] \in Nat
    BY <1>1, <1>2, <2>3
  <2> QED BY <1>1, <2>2, <2>3, <2>4, <2>5 DEF TokenCounted
<1>5. AllHeld' /\ TalksReady' /\ WalksSound'
  BY <1>1 DEF SeatsInv, AllHeld, Held, Due, CountedAt, TalksReady, TalkReady, WalksSound, WalkSound,
              Reached, Own, Below
<1> QED BY <1>3, <1>4, <1>5 DEF SeatsInv

(* Whoever is below an organization that is not in doubt is counted. *)
LEMMA BelowCounted ==
  ASSUME SeatsInv, NEW o \in Org \ suspect
  PROVE  /\ Cardinality(Below(o)) <= used[o]
         /\ Cardinality(Below(o)) <= peak[o]
<1>1. \A x \in Below(o) : seat[x][o] >= 1
  BY DEF SeatsInv, AllHeld, Held, Below
<1>2. IsFiniteSet(Tokens(o)) /\ Cardinality(Tokens(o)) <= used[o] /\ Cardinality(Tokens(o)) <= peak[o]
  BY DEF SeatsInv, TokensCounted, TokenCounted
<1>3. Cardinality(Below(o)) <= Cardinality(Tokens(o))
  BY <1>1, <1>2, BelowFits DEF SeatsInv
<1>4. IsFiniteSet(Below(o))
  BY SeatsAssumption, FS_Subset DEF Below
<1>5. /\ Cardinality(Below(o)) \in Nat /\ Cardinality(Tokens(o)) \in Nat
      /\ used[o] \in Nat /\ peak[o] \in Nat
  BY <1>2, <1>4, FS_CardinalityType DEF SeatsInv, Typed, SeatsTypeOK
<1> QED BY <1>2, <1>3, <1>5

LEMMA ReachedFinite ==
  ASSUME NEW o \in Org
  PROVE  /\ IsFiniteSet(Reached(o)) /\ Cardinality(Reached(o)) \in Nat
         /\ IsFiniteSet(Own(o)) /\ Cardinality(Own(o)) \in Nat
         /\ IsFiniteSet(Below(o)) /\ Cardinality(Below(o)) \in Nat
<1>1. /\ Reached(o) \in SUBSET Person /\ Own(o) \in SUBSET Person /\ Below(o) \in SUBSET Person
  BY DEF Reached, Own, Below
<1>2. IsFiniteSet(Person)
  BY SeatsAssumption
<1>3. IsFiniteSet(Reached(o)) /\ IsFiniteSet(Own(o)) /\ IsFiniteSet(Below(o))
  BY <1>1, <1>2, FS_Subset
<1> QED BY <1>3, FS_CardinalityType

(* A step of o's own walk leaves the other walks as they are. *)
LEMMA OtherWalks ==
  ASSUME SeatsInv, NEW o \in Org, NEW new \in Walk, recount' = [recount EXCEPT ![o] = new],
         UNCHANGED <<at, status, talk>>,
         new.pc = "read" /\ ~new.overlapped => WalkSound(o)'
  PROVE  WalksSound'
<1>1. recount'[o] = new /\ \A c \in Org : c # o => recount'[c] = recount[c]
  BY DEF SeatsInv, Typed
<1>2. SUFFICES ASSUME NEW c \in Org, recount'[c].pc = "read", ~recount'[c].overlapped
               PROVE  WalkSound(c)'
  BY DEF WalksSound
<1>3. CASE c = o
  BY <1>1, <1>2, <1>3
<1>4. CASE c # o
  <2>1. recount'[c] = recount[c] /\ WalkSound(c)
    BY <1>1, <1>2, <1>4 DEF SeatsInv, WalksSound
  <2>2. Reached(c)' = Reached(c)
    BY <2>1 DEF Reached, Own, Below, CountedAt
  <2> QED BY <2>1, <2>2 DEF WalkSound
<1> QED BY <1>3, <1>4

LEMMA WalkOnly ==
  ASSUME SeatsInv, NEW o \in Org, NEW new \in Walk, recount' = [recount EXCEPT ![o] = new],
         UNCHANGED <<used, allowed, at, status, talk, seat, suspect, peak>>,
         new.pc = "read" /\ ~new.overlapped => WalkSound(o)'
  PROVE  SeatsInv'
<1>1. Typed'
  BY DEF SeatsInv, Typed, SeatsTypeOK
<1>2. TokensCounted'
  BY SameTokens DEF SeatsInv
<1>3. AllHeld' /\ TalksReady'
  BY DEF SeatsInv, AllHeld, Held, Due, CountedAt, TalksReady, TalkReady
<1>4. WalksSound'
  BY OtherWalks
<1> QED BY <1>1, <1>2, <1>3, <1>4 DEF SeatsInv

LEMMA BeginsKeeps ==
  ASSUME SeatsInv, NEW o \in Org, RecountBegins(o)
  PROVE  SeatsInv'
<1>1. PICK extra \in 0 .. MaxExtra, unread \in SUBSET Own(o) :
        recount' = [recount EXCEPT ![o] =
          [pc |-> "read",
           left |-> Divisions(o),
           counted |-> Cardinality(Own(o) \ unread) + extra,
           complete |-> unread = {},
           overlapped |-> \E x \in Person : talk[x].pc # "idle"]]
  BY DEF RecountBegins
<1> DEFINE new == [pc |-> "read",
                   left |-> Divisions(o),
                   counted |-> Cardinality(Own(o) \ unread) + extra,
                   complete |-> unread = {},
                   overlapped |-> \E x \in Person : talk[x].pc # "idle"]
<1>2. extra \in Nat
  <2>1. MaxExtra \in Nat
    BY SeatsAssumption
  <2> QED BY <2>1
<1>3. Cardinality(Own(o) \ unread) \in Nat
  <2>1. IsFiniteSet(Own(o)) /\ Own(o) \ unread \in SUBSET Own(o)
    BY ReachedFinite
  <2> QED BY <2>1, FS_Subset, FS_CardinalityType
<1>4. new \in Walk
  BY <1>2, <1>3 DEF Walk, Divisions
<1>5. /\ UNCHANGED <<used, allowed, at, status, talk, seat, suspect, peak>>
      /\ recount' = [recount EXCEPT ![o] = new] /\ recount'[o] = new
  BY <1>1 DEF RecountBegins, SeatsInv, Typed
<1>6. ASSUME ~new.overlapped PROVE WalkSound(o)'
  <2>1. \A x \in Person : talk[x].pc = "idle"
    BY <1>6
  <2>2. ASSUME new.complete PROVE Cardinality(Reached(o)') <= new.counted
    <3>1. Reached(o)' = Own(o)
      BY <1>5 DEF Reached, Own, Below, CountedAt
    <3>2. Own(o) \ unread = Own(o)
      BY <2>2
    <3>3. new.counted = Cardinality(Own(o)) + extra
      BY <3>2
    <3> HIDE DEF new
    <3>4. Cardinality(Own(o)) \in Nat
      BY <3>2, <1>3
    <3> QED BY <3>1, <3>3, <3>4, <1>2
  <2> HIDE DEF new
  <2> QED BY <1>5, <2>1, <2>2 DEF WalkSound
<1> HIDE DEF new
<1> QED BY <1>4, <1>5, <1>6, WalkOnly

LEMMA ReadsKeeps ==
  ASSUME SeatsInv, NEW o \in Org, NEW d \in Org, RecountReads(o, d)
  PROVE  SeatsInv'
<1> DEFINE r == recount[o]
<1>1. /\ r.pc = "read" /\ d \in r.left
      /\ UNCHANGED <<used, allowed, at, status, talk, seat, suspect, peak>>
  BY DEF RecountReads
<1>2. recount \in [Org -> Walk] /\ r \in Walk /\ used[d] \in Nat
  BY DEF SeatsInv, Typed, SeatsTypeOK
<1>3. CASE recount' = [recount EXCEPT ![o] = [r EXCEPT !.left = @ \ {d}, !.complete = FALSE]]
  <2> DEFINE new == [r EXCEPT !.left = @ \ {d}, !.complete = FALSE]
  <2>1. /\ new \in Walk /\ new.pc = "read" /\ new.complete = FALSE /\ new.overlapped = r.overlapped
        /\ recount' = [recount EXCEPT ![o] = new]
    BY <1>1, <1>2, <1>3 DEF Walk
  <2> HIDE DEF new
  <2>2. ASSUME ~new.overlapped PROVE WalkSound(o)'
    <3>1. WalkSound(o)
      BY <2>1, <2>2, <1>1 DEF SeatsInv, WalksSound
    <3> QED BY <3>1, <2>1, <1>1, <1>2 DEF WalkSound
  <2> QED BY <2>1, <2>2, <1>1, WalkOnly
<1>4. CASE recount' = [recount EXCEPT ![o] =
             [r EXCEPT !.left = @ \ {d}, !.counted = @ + used[d], !.overlapped = @ \/ d \in suspect]]
  <2> DEFINE new == [r EXCEPT !.left = @ \ {d}, !.counted = @ + used[d], !.overlapped = @ \/ d \in suspect]
  <2>0. /\ new.pc = r.pc /\ new.complete = r.complete
        /\ new.overlapped = (r.overlapped \/ d \in suspect)
        /\ new.left = r.left \ {d} /\ new.counted = r.counted + used[d]
    BY <1>2 DEF Walk
  <2>a. new \in Walk
    <3>1. (r.overlapped \/ d \in suspect) \in BOOLEAN
      OBVIOUS
    <3>2. r.counted + used[d] \in Nat
      BY <1>2 DEF Walk
    <3> QED BY <1>2, <3>1, <3>2 DEF Walk
  <2>b. recount' = [recount EXCEPT ![o] = new] /\ recount'[o] = new
    BY <1>2, <1>4
  <2>1. /\ new \in Walk /\ new.pc = "read" /\ new.complete = r.complete
        /\ new.overlapped <=> (r.overlapped \/ d \in suspect)
        /\ new.left = r.left \ {d} /\ new.counted = r.counted + used[d]
        /\ recount' = [recount EXCEPT ![o] = new] /\ recount'[o] = new
    <3> HIDE DEF new
    <3> QED BY <1>1, <2>0, <2>a, <2>b
  <2> HIDE DEF new
  <2>2. ASSUME ~new.overlapped PROVE WalkSound(o)'
    <3>1. WalkSound(o) /\ d \notin suspect
      BY <2>1, <2>2, <1>1 DEF SeatsInv, WalksSound
    <3>2. ASSUME new.complete PROVE Cardinality(Reached(o)') <= new.counted
      <4>1. Cardinality(Reached(o)) <= r.counted /\ Cardinality(Below(d)) <= used[d]
        BY <3>1, <3>2, <2>1, BelowCounted DEF WalkSound
      <4>2. Reached(o)' \in SUBSET (Reached(o) \cup Below(d))
        BY <2>1, <1>1 DEF Reached, Own, Below, CountedAt
      <4>3. /\ IsFiniteSet(Reached(o)) /\ IsFiniteSet(Below(d))
            /\ Cardinality(Reached(o)) \in Nat /\ Cardinality(Below(d)) \in Nat
        BY ReachedFinite
      <4>4. /\ IsFiniteSet(Reached(o) \cup Below(d))
            /\ Cardinality(Reached(o) \cup Below(d)) <= Cardinality(Reached(o)) + Cardinality(Below(d))
        <5>1. IsFiniteSet(Reached(o) \cap Below(d))
          BY <4>3, FS_Subset
        <5>2. Cardinality(Reached(o) \cap Below(d)) \in Nat
          BY <5>1, FS_CardinalityType
        <5>3. /\ IsFiniteSet(Reached(o) \cup Below(d))
              /\ Cardinality(Reached(o) \cup Below(d))
                   = Cardinality(Reached(o)) + Cardinality(Below(d)) - Cardinality(Reached(o) \cap Below(d))
          BY <4>3, FS_Union
        <5> QED BY <5>2, <5>3, <4>3
      <4>5. /\ Cardinality(Reached(o)') <= Cardinality(Reached(o) \cup Below(d))
            /\ Cardinality(Reached(o)') \in Nat /\ Cardinality(Reached(o) \cup Below(d)) \in Nat
        BY <4>2, <4>4, FS_Subset, FS_CardinalityType
      <4>6. r.counted \in Nat
        BY <1>2 DEF Walk
      <4> QED BY <4>1, <4>3, <4>4, <4>5, <4>6, <2>1, <1>2
    <3> QED BY <3>1, <3>2, <2>1, <1>1 DEF WalkSound
  <2> QED BY <2>1, <2>2, <1>1, WalkOnly
<1> QED BY <1>3, <1>4 DEF RecountReads

LEMMA FailsKeeps ==
  ASSUME SeatsInv, NEW o \in Org, RecountFails(o)
  PROVE  SeatsInv'
<1>1. Still \in Walk /\ Still.pc = "idle"
  BY DEF Still, Walk
<1> QED BY <1>1, WalkOnly DEF RecountFails

(* The seats as a recount finds them: one for each person below. *)
LEMMA TokensFound ==
  ASSUME Typed, NEW o \in Org,
         seat' = [x \in Person |-> [seat[x] EXCEPT ![o] = IF x \in Below(o) THEN 1 ELSE 0]]
  PROVE  /\ seat' \in [Person -> [Org -> Nat]]
         /\ \A x \in Person : seat'[x][o] = IF x \in Below(o) THEN 1 ELSE 0
         /\ \A x \in Person, c \in Org : c # o => seat'[x][c] = seat[x][c]
         /\ IsFiniteSet(Tokens(o)') /\ Cardinality(Tokens(o)') <= Cardinality(Below(o))
         /\ \A c \in Org : c # o => Tokens(c)' = Tokens(c)
<1>1. /\ seat' \in [Person -> [Org -> Nat]]
      /\ \A x \in Person : seat'[x][o] = IF x \in Below(o) THEN 1 ELSE 0
      /\ \A x \in Person, c \in Org : c # o => seat'[x][c] = seat[x][c]
  BY DEF Typed, SeatsTypeOK
<1>2. \A c \in Org : c # o => Tokens(c)' = Tokens(c)
  BY <1>1 DEF Tokens
<1> DEFINE f == [x \in Below(o) |-> <<x, 1>>]
<1>3. ASSUME NEW t PROVE t \in Tokens(o)' <=> \E x \in Below(o) : t = <<x, 1>>
  <2>1. t \in Tokens(o)' <=> \E x \in Person : \E i \in 1 .. seat'[x][o] : t = <<x, i>>
    BY DEF Tokens
  <2>2. ASSUME NEW x \in Person, NEW i PROVE i \in 1 .. seat'[x][o] <=> x \in Below(o) /\ i = 1
    BY <1>1
  <2>3. Below(o) \subseteq Person
    BY DEF Below
  <2>4. ASSUME NEW x \in Below(o), t = <<x, 1>> PROVE t \in Tokens(o)'
    BY <2>1, <2>2, <2>3, <2>4
  <2>5. ASSUME t \in Tokens(o)' PROVE \E x \in Below(o) : t = <<x, 1>>
    <3>1. PICK x \in Person : \E i \in 1 .. seat'[x][o] : t = <<x, i>>
      BY <2>1, <2>5
    <3>2. PICK i \in 1 .. seat'[x][o] : t = <<x, i>>
      BY <3>1
    <3>3. x \in Below(o) /\ i = 1
      BY <2>2
    <3> QED BY <3>2, <3>3
  <2> QED BY <2>4, <2>5
<1>4. f \in Surjection(Below(o), Tokens(o)')
  <2>1. f \in [Below(o) -> Tokens(o)']
    BY <1>3
  <2>2. \A t \in Tokens(o)' : \E x \in Below(o) : f[x] = t
    BY <1>3
  <2> QED BY <2>1, <2>2 DEF Surjection
<1>5. IsFiniteSet(Tokens(o)') /\ Cardinality(Tokens(o)') <= Cardinality(Below(o))
  <2>1. IsFiniteSet(Below(o))
    BY ReachedFinite
  <2> HIDE DEF f
  <2> QED BY <1>4, <2>1, FS_Surjection
<1> QED BY <1>1, <1>2, <1>5

LEMMA WritesKeeps ==
  ASSUME SeatsInv, NEW o \in Org, RecountWrites(o)
  PROVE  SeatsInv'
<1> DEFINE r == recount[o]
<1>1. /\ r.pc = "read" /\ r.left = {}
      /\ used' = [used EXCEPT ![o] = Recounted(o)]
      /\ recount' = [recount EXCEPT ![o] = Still]
      /\ UNCHANGED <<allowed, at, status, talk>>
  BY DEF RecountWrites
<1>2. /\ used \in [Org -> Nat] /\ recount \in [Org -> Walk] /\ r.counted \in Nat
      /\ seat \in [Person -> [Org -> Nat]] /\ suspect \subseteq Org /\ peak \in [Org -> Nat]
      /\ allowed \in [Org -> Nat]
  BY DEF SeatsInv, Typed, SeatsTypeOK, Walk
<1>3. /\ Recounted(o) \in Nat /\ (r.complete => Recounted(o) = r.counted)
      /\ (~r.complete => Recounted(o) >= used[o])
  BY <1>2 DEF Recounted
<1>4. /\ used' \in [Org -> Nat] /\ used'[o] = Recounted(o)
      /\ \A c \in Org : c # o => used'[c] = used[c]
  BY <1>1, <1>2, <1>3
<1>5. Still \in Walk /\ Still.pc = "idle" /\ recount' \in [Org -> Walk]
  BY <1>1, <1>2 DEF Still, Walk
<1>6. WalksSound'
  BY <1>1, <1>5, OtherWalks
<1>7. \A c \in Org : IsFiniteSet(Tokens(c)) /\ Cardinality(Tokens(c)) \in Nat
  BY FS_CardinalityType DEF SeatsInv, TokensCounted
<1>8. CASE ~r.complete
  <2>1. UNCHANGED <<seat, suspect, peak>>
    BY <1>8 DEF RecountWrites
  <2>2. Typed'
    BY <2>1, <1>1, <1>4, <1>5 DEF SeatsInv, Typed, SeatsTypeOK
  <2>3. TokensCounted'
    <3>1. \A c \in Org : used'[c] >= used[c] /\ Tokens(c)' = Tokens(c) /\ used[c] \in Nat /\ used'[c] \in Nat
      BY <2>1, <1>2, <1>3, <1>4, <1>8 DEF Tokens
    <3> QED BY <3>1, <2>1, <1>1, <1>7 DEF SeatsInv, TokensCounted, TokenCounted
  <2>4. AllHeld' /\ TalksReady'
    BY <2>1, <1>1 DEF SeatsInv, AllHeld, Held, Due, CountedAt, TalksReady, TalkReady
  <2> QED BY <2>2, <2>3, <2>4, <1>6 DEF SeatsInv
<1>9. CASE r.complete /\ r.overlapped
  <2>1. suspect' = suspect \cup {o} /\ UNCHANGED <<seat, peak>>
    BY <1>9 DEF RecountWrites
  <2>2. Typed'
    BY <2>1, <1>1, <1>2, <1>4, <1>5 DEF SeatsInv, Typed, SeatsTypeOK
  <2>3. TokensCounted'
    <3>1. \A c \in Org : Tokens(c)' = Tokens(c)
      BY <2>1 DEF Tokens
    <3> QED BY <3>1, <2>1, <1>1, <1>4, <1>7 DEF SeatsInv, TokensCounted, TokenCounted
  <2>4. AllHeld' /\ TalksReady'
    BY <2>1, <1>1 DEF SeatsInv, AllHeld, Held, Due, CountedAt, TalksReady, TalkReady
  <2> QED BY <2>2, <2>3, <2>4, <1>6 DEF SeatsInv
<1>10. CASE r.complete /\ ~r.overlapped
  <2>1. /\ suspect' = suspect \ {o}
        /\ seat' = [x \in Person |-> [seat[x] EXCEPT ![o] = IF x \in Below(o) THEN 1 ELSE 0]]
        /\ peak' = [peak EXCEPT ![o] = IF @ < r.counted THEN r.counted ELSE @]
    BY <1>10 DEF RecountWrites
  <2>2. /\ seat' \in [Person -> [Org -> Nat]]
        /\ \A x \in Person : seat'[x][o] = IF x \in Below(o) THEN 1 ELSE 0
        /\ \A x \in Person, c \in Org : c # o => seat'[x][c] = seat[x][c]
        /\ IsFiniteSet(Tokens(o)') /\ Cardinality(Tokens(o)') <= Cardinality(Below(o))
        /\ \A c \in Org : c # o => Tokens(c)' = Tokens(c)
    BY <2>1, TokensFound DEF SeatsInv
  <2>3. WalkSound(o)
    BY <1>1, <1>10 DEF SeatsInv, WalksSound
  <2>4. Cardinality(Below(o)) <= r.counted
    <3>1. Cardinality(Reached(o)) <= r.counted
      BY <2>3, <1>10 DEF WalkSound
    <3>2. Below(o) \in SUBSET Reached(o)
      BY <1>1, AllReached DEF SeatsInv
    <3>3. /\ IsFiniteSet(Reached(o)) /\ Cardinality(Reached(o)) \in Nat
          /\ Cardinality(Below(o)) \in Nat
      BY ReachedFinite
    <3>4. Cardinality(Below(o)) <= Cardinality(Reached(o))
      BY <3>2, <3>3, FS_Subset
    <3> QED BY <3>1, <3>3, <3>4, <1>2
  <2>5. peak' \in [Org -> Nat] /\ peak'[o] >= r.counted /\ peak'[o] >= peak[o]
        /\ \A c \in Org : c # o => peak'[c] = peak[c]
    BY <2>1, <1>2
  <2>6. Typed'
    BY <2>1, <2>2, <2>5, <1>1, <1>2, <1>4, <1>5 DEF SeatsInv, Typed, SeatsTypeOK
  <2>7. TokensCounted'
    <3>1. Cardinality(Tokens(o)') \in Nat /\ Cardinality(Below(o)) \in Nat
      BY <2>2, ReachedFinite, FS_CardinalityType
    <3>2. Cardinality(Tokens(o)') <= used'[o] /\ Cardinality(Tokens(o)') <= peak'[o]
      BY <3>1, <2>2, <2>4, <2>5, <1>2, <1>3, <1>4, <1>10
    <3>3. allowed'[o] <= peak'[o]
      BY <2>5, <1>1, <1>2 DEF SeatsInv, TokensCounted
    <3>4. ASSUME NEW c \in Org, c # o
          PROVE  /\ IsFiniteSet(Tokens(c))'
                 /\ (allowed[c] <= peak[c])'
                 /\ (c \notin suspect => TokenCounted(c))'
      BY <3>4, <2>1, <2>2, <2>5, <1>1, <1>4 DEF SeatsInv, TokensCounted, TokenCounted
    <3> QED BY <3>2, <3>3, <3>4, <2>2 DEF TokensCounted, TokenCounted
  <2>8. AllHeld'
    <3>1. SUFFICES ASSUME NEW x \in Person, NEW c \in Org \ suspect', status[x] = "active",
                          c \in CountedAt(x)
                   PROVE  Held(x, c)'
      BY <1>1 DEF AllHeld, CountedAt
    <3>2. ~Due(x, c)'
      BY <2>3, <1>1 DEF WalkSound, Due
    <3>3. CASE c = o
      BY <3>1, <3>2, <3>3, <2>2 DEF Held, Below
    <3>4. CASE c # o
      BY <3>1, <3>2, <3>4, <2>1, <2>2 DEF SeatsInv, AllHeld, Held
    <3> QED BY <3>3, <3>4
  <2>9. TalksReady'
    BY <2>3, <1>1 DEF WalkSound, TalksReady
  <2> QED BY <2>6, <2>7, <2>8, <2>9, <1>6 DEF SeatsInv
<1> QED BY <1>8, <1>9, <1>10, <1>2 DEF Walk

-----------------------------------------------------------------------------
(* The theorems.                                                           *)

LEMMA SeatsBegin == SeatsInit => SeatsInv
<1> SUFFICES ASSUME SeatsInit PROVE SeatsInv
  OBVIOUS
<1>1. Typed
  <2>1. allowed \in [Org -> Nat]
    BY SeatsAssumption DEF SeatsInit
  <2>2. talk \in [Person -> SeatTalk]
    BY DEF SeatsInit, Idle, SeatTalk
  <2>3. recount \in [Org -> Walk]
    BY DEF SeatsInit, Still, Walk
  <2> QED BY <2>1, <2>2, <2>3 DEF SeatsInit, Typed, SeatsTypeOK
<1>2. TokensCounted
  <2>1. SUFFICES ASSUME NEW o \in Org
                 PROVE  IsFiniteSet(Tokens(o)) /\ allowed[o] <= peak[o] /\ TokenCounted(o)
    BY DEF TokensCounted
  <2>2. Tokens(o) = {}
    BY DEF Tokens, SeatsInit
  <2>3. IsFiniteSet(Tokens(o)) /\ Cardinality(Tokens(o)) = 0
    BY <2>2, FS_EmptySet
  <2>4. allowed[o] \in Nat /\ peak[o] = allowed[o] /\ used[o] = 0
    BY <1>1 DEF SeatsInit, Typed, SeatsTypeOK
  <2> QED BY <2>3, <2>4 DEF TokenCounted
<1>3. AllHeld /\ TalksReady /\ WalksSound
  BY DEF SeatsInit, AllHeld, TalksReady, WalksSound, Idle, Still
<1> QED BY <1>1, <1>2, <1>3 DEF SeatsInv

LEMMA SeatsStep == SeatsInv /\ [SeatsNext]_seatVars => SeatsInv'
<1> SUFFICES ASSUME SeatsInv, [SeatsNext]_seatVars PROVE SeatsInv'
  OBVIOUS
<1>1. ASSUME NEW x \in Person, NEW p \in Spot, CreateSeats(x, p) PROVE SeatsInv'
  BY <1>1, CreateKeeps
<1>2. ASSUME NEW x \in Person, NEW q \in Spot, NEW known \in BOOLEAN, RehomeSeats(x, q, known)
      PROVE  SeatsInv'
  BY <1>2, RehomeKeeps
<1>3. ASSUME NEW x \in Person, NEW known \in BOOLEAN,
             RemoveSeats(x, known) \/ RetireAwaySeats(x, known) \/ ReplaceLostSeats(x, known)
      PROVE  SeatsInv'
  <2>1. \E act \in {"retire", "mark", "replace"} :
          BeginTalk(x, {}, act, at[x], IF known THEN CountedAt(x) ELSE {})
    BY <1>3 DEF RemoveSeats, RetireAwaySeats, ReplaceLostSeats
  <2> QED BY <2>1, RetireKeeps
<1>4. ASSUME NEW x \in Person,
             Take(x) \/ TakeRefused(x) \/ Acts(x) \/ ActFails(x) \/ Gives(x) \/ GiveMissed(x)
      PROVE  SeatsInv'
  BY <1>4, TakeKeeps, RefusedKeeps, ActsKeeps, ActFailsKeeps, GivesKeeps, MissedKeeps
<1>5. ASSUME NEW o \in Org, NEW n \in Number \cup {NoLimit}, SetSeatLimits(o, n) PROVE SeatsInv'
  <2>1. n \in Nat
    BY SeatsAssumption
  <2> QED BY <2>1, <1>5, LimitKeeps
<1>6. ASSUME NEW o \in Org, NEW d \in Org, RecountReads(o, d) PROVE SeatsInv'
  BY <1>6, ReadsKeeps
<1>7. ASSUME NEW o \in Org, RecountBegins(o) \/ RecountWrites(o) \/ RecountFails(o) PROVE SeatsInv'
  BY <1>7, BeginsKeeps, WritesKeeps, FailsKeeps
<1>8. CASE UNCHANGED seatVars
  <2>1. UNCHANGED <<used, allowed, at, status, talk, recount, seat, suspect, peak>>
    BY <1>8 DEF seatVars
  <2>2. Typed' /\ TokensCounted'
    BY <2>1, SameTokens DEF SeatsInv, Typed, SeatsTypeOK
  <2>3. AllHeld' /\ TalksReady'
    BY <2>1 DEF SeatsInv, AllHeld, Held, Due, CountedAt, TalksReady, TalkReady
  <2>4. WalksSound'
    BY <2>1 DEF SeatsInv, WalksSound, WalkSound, Reached, Own, Below, CountedAt
  <2> QED BY <2>2, <2>3, <2>4 DEF SeatsInv
<1> QED BY <1>1, <1>2, <1>3, <1>4, <1>5, <1>6, <1>7, <1>8 DEF SeatsNext

(* The inductive invariant of the seats: a seat is a token, and every      *)
(* living person keeps one wherever counted (Conversations.takeSeats,      *)
(* giveSeats and recountSeats).                                            *)
THEOREM SeatsInvariant == SeatsSpec => []SeatsInv
BY SeatsBegin, SeatsStep, PTL DEF SeatsSpec

(* The counts stay whole numbers that never fall below zero                *)
(* (LocalNodes.changeSeats, setSeatsUsed).                                 *)
THEOREM SeatsTyping == SeatsSpec => []SeatsTypeOK
<1>1. SeatsInv => SeatsTypeOK
  BY DEF SeatsInv, Typed
<1> QED BY <1>1, SeatsInvariant, PTL

(* Whatever calls fail and however conversations interleave, an            *)
(* organization counts at least the people living below it, unless a       *)
(* recount overlapped a conversation or a seat was given back twice.       *)
THEOREM CountsNeverTooLow == SeatsSpec => []NeverTooLow
<1>1. SeatsInv => NeverTooLow
  BY BelowCounted DEF NeverTooLow
<1> QED BY <1>1, SeatsInvariant, PTL

(* And it never has more people than it once allowed, or than a recount    *)
(* found there (the guard of LocalNodes.changeSeats on each machine).      *)
THEOREM LimitsHold == SeatsSpec => []NoneBeyondLimit
<1>1. SeatsInv => NoneBeyondLimit
  BY BelowCounted DEF NoneBeyondLimit
<1> QED BY <1>1, SeatsInvariant, PTL

=============================================================================
