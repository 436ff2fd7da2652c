-------------------------- MODULE SignedRequestsProofs --------------------------
(***************************************************************************)
(* Proofs about SignedRequests, for any window, any clocks, any number of  *)
(* requests and copies: a signature is acted on once, a revoked key stays  *)
(* refused, and a second try is enough for a program Core does not know.   *)
(*                                                                         *)
(* The argument for the first: while a copy that was acceptable when it    *)
(* came is being checked, the expiry of its nonce has not come yet, so no  *)
(* purge has dropped it (SignedRequestsAssumption: a look-up is shorter    *)
(* than the tolerance the expiry adds).                                    *)
(***************************************************************************)
EXTENDS SignedRequests, TLAPS

FetchState == {"idle", "first", "register", "registered", "second", "done", "refused"}

SignedTypes ==
  /\ now \in 0 .. MaxTime
  /\ key \in {"unknown", "active", "revoked"}
  /\ locked \in BOOLEAN
  /\ fetch \in [Fetch -> FetchState]
  /\ DOMAIN created \subseteq Signed
  /\ \A r \in DOMAIN created : created[r] \in Nat
  /\ copies \in [Signed -> 0 .. MaxCopies + 1]
  /\ check \subseteq Check
  /\ acted \subseteq Check

(* Each request is signed once, the second of a fetch with a key known. *)
SigningOK ==
  \A f \in Fetch :
    /\ fetch[f] = "idle" => <<f, 1>> \notin DOMAIN created
    /\ fetch[f] \in {"idle", "first", "register", "registered"} => <<f, 2>> \notin DOMAIN created
    /\ fetch[f] \in {"registered", "second"} \/ <<f, 2>> \in DOMAIN created => key # "unknown"

(* A check under way is not over its time, and what it knows stays true. *)
ChecksOK ==
  \A c \in check :
    /\ c.request \in DOMAIN created
    /\ c.at <= now /\ now <= c.at + MaxLookup /\ c.at <= created[c.request] + Window
    /\ c.revoked => key = "revoked" /\ ~c.known
    /\ c.looked /\ ~c.known /\ c.request[2] = 2 => key = "revoked"

(* A nonce remembered expires when it should, and none acted on is         *)
(* forgotten before.                                                       *)
MemoryOK ==
  /\ DOMAIN seen \subseteq DOMAIN created
  /\ \A r \in DOMAIN seen : seen[r] = Expiry(r)
  /\ \A c \in acted : /\ c.request \in DOMAIN created
                      /\ now < Expiry(c.request) => c.request \in DOMAIN seen

SignedInv ==
  /\ SignedTypes /\ SigningOK /\ ChecksOK /\ MemoryOK
  /\ ActedOnOnce /\ RevokedStaysRefused /\ RetryIsEnough

-----------------------------------------------------------------------------

LEMMA Times ==
  /\ Window \in Nat /\ Ahead \in Nat /\ MaxLookup \in Nat /\ MaxLookup < Ahead
  /\ MaxTime \in Nat /\ MaxCopies \in Nat
BY SignedRequestsAssumption

LEMMA Pairs ==
  /\ \A r \in Signed : r[1] \in Fetch /\ r[2] \in {1, 2} /\ r = <<r[1], r[2]>>
  /\ \A f \in Fetch : <<f, 1>> \in Signed /\ <<f, 2>> \in Signed
BY DEF Signed

LEMMA ExpiryIsNat == ASSUME SignedTypes, NEW r \in DOMAIN created PROVE Expiry(r) \in Nat
BY Times DEF SignedTypes, Expiry

LEMMA InitSigned == ASSUME SignedInit PROVE SignedInv
<1>1. DOMAIN <<>> = {}
  OBVIOUS
<1>2. 0 \in 0 .. MaxTime /\ 0 \in 0 .. MaxCopies + 1
  BY Times
<1> QED BY <1>1, <1>2 DEF SignedInit, SignedInv, SignedTypes, FetchState, SigningOK, ChecksOK, MemoryOK,
                ActedOnOnce, RevokedStaysRefused, RetryIsEnough

(* An answer moves a fetch that waits for it, and only on. *)
LEMMA HearingIsSafe ==
  ASSUME SignedTypes, NEW r \in Signed, NEW answer
  PROVE  /\ Hears(r, answer) \in [Fetch -> FetchState]
         /\ \A f \in Fetch :
              \/ Hears(r, answer)[f] = fetch[f]
              \/ fetch[f] = "first" /\ Hears(r, answer)[f] \in {"done", "register"}
              \/ fetch[f] = "second" /\ Hears(r, answer)[f] = "done"
              \/ /\ fetch[f] = "second" /\ Hears(r, answer)[f] = "refused"
                 /\ f = r[1] /\ r[2] = 2
BY Pairs DEF SignedTypes, FetchState, Hears

-----------------------------------------------------------------------------
(* The program.                                                            *)

LEMMA TickKeeps == ASSUME SignedInv, Tick PROVE SignedInv'
<1>0. now' \in 0 .. MaxTime
  BY Times DEF SignedInv, SignedTypes, Tick
<1>1. SignedTypes' /\ SigningOK'
  BY <1>0 DEF SignedInv, SignedTypes, SigningOK, Tick
<1>2. ChecksOK'
  BY Times DEF SignedInv, SignedTypes, Check, ChecksOK, Tick
<1>3. MemoryOK'
  <2>1. \A r : Expiry(r)' = Expiry(r)
    BY DEF Expiry, Tick
  <2>2. \A c \in acted : Expiry(c.request) \in Nat
    BY ExpiryIsNat DEF SignedInv, MemoryOK
  <2> QED BY <2>1, <2>2 DEF SignedInv, SignedTypes, MemoryOK, Tick
<1>4. ActedOnOnce' /\ RevokedStaysRefused' /\ RetryIsEnough'
  BY DEF SignedInv, ActedOnOnce, RevokedStaysRefused, RetryIsEnough, Tick
<1> QED BY <1>1, <1>2, <1>3, <1>4 DEF SignedInv

(* A request signed now is a new one, so no time recorded changes. *)
LEMMA SendingKeeps ==
  ASSUME SignedInv, NEW f \in Fetch, NEW attempt, NEW sent, Sends(f, attempt),
         <<f, attempt>> \notin DOMAIN created, trouble' = trouble,
         fetch' = [fetch EXCEPT ![f] = sent],
         \/ attempt = 1 /\ fetch[f] = "idle" /\ sent = "first"
         \/ attempt = 2 /\ fetch[f] = "registered" /\ sent = "second"
  PROVE  SignedInv'
<1>1. PICK ahead \in {0, Ahead} :
        /\ created' = With(created, <<f, attempt>>, now + ahead)
        /\ UNCHANGED <<now, key, locked, copies, check, seen, acted>>
  BY DEF Sends
<1>2. /\ DOMAIN created' = DOMAIN created \cup {<<f, attempt>>}
      /\ created'[<<f, attempt>>] = now + ahead /\ now + ahead \in Nat
      /\ \A r \in DOMAIN created : created'[r] = created[r] /\ Expiry(r)' = Expiry(r)
  BY <1>1, Times DEF With, Expiry, SignedInv, SignedTypes
<1>3. SignedTypes'
  BY <1>1, <1>2, Pairs DEF SignedInv, SignedTypes, FetchState
<1>4. SigningOK'
  <2>1. ASSUME NEW g \in Fetch
        PROVE  /\ fetch'[g] = "idle" => <<g, 1>> \notin DOMAIN created'
               /\ fetch'[g] \in {"idle", "first", "register", "registered"} =>
                    <<g, 2>> \notin DOMAIN created'
               /\ fetch'[g] \in {"registered", "second"} \/ <<g, 2>> \in DOMAIN created' =>
                    key' # "unknown"
    <3>1. CASE g = f
      BY <1>1, <1>2, <3>1 DEF SignedInv, SignedTypes, SigningOK
    <3>2. CASE g # f
      BY <1>1, <1>2, <3>2 DEF SignedInv, SignedTypes, SigningOK
    <3> QED BY <3>1, <3>2
  <2> QED BY <2>1 DEF SigningOK
<1>5. ChecksOK'
  BY <1>1, <1>2 DEF SignedInv, ChecksOK
<1>6. MemoryOK'
  BY <1>1, <1>2 DEF SignedInv, MemoryOK
<1>7. ActedOnOnce' /\ RevokedStaysRefused'
  BY <1>1 DEF SignedInv, ActedOnOnce, RevokedStaysRefused
<1>8. RetryIsEnough'
  BY DEF SignedInv, SignedTypes, RetryIsEnough
<1> QED BY <1>3, <1>4, <1>5, <1>6, <1>7, <1>8 DEF SignedInv

LEMMA FetchSendingKeeps ==
  ASSUME SignedInv, NEW f \in Fetch, FetchSends(f) \/ FetchSendsAgain(f)
  PROVE  SignedInv'
<1>1. CASE FetchSends(f)
  <2>1. /\ fetch[f] = "idle" /\ Sends(f, 1) /\ trouble' = trouble
        /\ fetch' = [fetch EXCEPT ![f] = "first"]
    BY <1>1 DEF FetchSends
  <2>2. <<f, 1>> \notin DOMAIN created
    BY <2>1 DEF SignedInv, SigningOK
  <2> QED BY <2>1, <2>2, SendingKeeps, Zenon
<1>2. CASE FetchSendsAgain(f)
  <2>1. /\ fetch[f] = "registered" /\ Sends(f, 2) /\ trouble' = trouble
        /\ fetch' = [fetch EXCEPT ![f] = "second"]
    BY <1>2 DEF FetchSendsAgain
  <2>2. <<f, 2>> \notin DOMAIN created
    BY <2>1 DEF SignedInv, SigningOK
  <2> QED BY <2>1, <2>2, SendingKeeps, Zenon
<1> QED BY <1>1, <1>2

(* What only changes the key, the lock or how far a fetch is. *)
LEMMA KeyStepsKeep ==
  ASSUME SignedInv,
         \/ Revokes \/ LockChanges
         \/ \E f \in Fetch : FetchRegisters(f) \/ RegistrationRefused(f)
  PROVE  SignedInv'
<1>1. /\ now' = now /\ created' = created /\ copies' = copies /\ check' = check
      /\ seen' = seen /\ acted' = acted
  BY DEF Revokes, LockChanges, FetchRegisters, RegistrationRefused
<1>2. /\ key' \in {"unknown", "active", "revoked"}
      /\ key = "revoked" => key' = "revoked"
      /\ key # "unknown" => key' # "unknown"
  BY DEF SignedInv, SignedTypes, Revokes, LockChanges, FetchRegisters, RegistrationRefused, Added
<1>3. /\ fetch' \in [Fetch -> FetchState]
      /\ \A f \in Fetch :
           \/ fetch'[f] = fetch[f]
           \/ fetch[f] = "register" /\ fetch'[f] = "registered" /\ key' # "unknown"
           \/ fetch[f] = "register" /\ fetch'[f] = "refused" /\ f \in trouble'
      /\ trouble \subseteq trouble'
  BY DEF SignedInv, SignedTypes, FetchState, Revokes, LockChanges, FetchRegisters,
         RegistrationRefused, Registers, Added
<1>4. SignedTypes'
  BY <1>1, <1>2, <1>3 DEF SignedInv, SignedTypes, LockChanges, Revokes, FetchRegisters,
                          RegistrationRefused
<1>5. SigningOK'
  BY <1>1, <1>2, <1>3 DEF SignedInv, SigningOK
<1>6. ChecksOK' /\ MemoryOK' /\ ActedOnOnce' /\ RevokedStaysRefused'
  BY <1>1, <1>2
     DEF SignedInv, ChecksOK, MemoryOK, ActedOnOnce, RevokedStaysRefused, Expiry
<1>7. RetryIsEnough'
  BY <1>3 DEF SignedInv, RetryIsEnough
<1> QED BY <1>4, <1>5, <1>6, <1>7 DEF SignedInv

-----------------------------------------------------------------------------
(* Core.                                                                   *)

LEMMA ComesKeeps == ASSUME SignedInv, NEW r \in Signed, Comes(r) PROVE SignedInv'
<1>1. /\ r \in DOMAIN created /\ now' = now /\ key' = key /\ locked' = locked
      /\ created' = created /\ seen' = seen /\ acted' = acted
      /\ copies' = [copies EXCEPT ![r] = @ + 1]
  BY DEF Comes
<1>2. copies' \in [Signed -> 0 .. MaxCopies + 1] /\ copies'[r] \in 1 .. MaxCopies + 1
  <2>1. copies[r] \in 0 .. MaxCopies + 1 /\ copies[r] <= MaxCopies
    BY DEF Comes, SignedInv, SignedTypes
  <2>2. copies[r] + 1 \in 1 .. MaxCopies + 1
    BY <2>1, Times
  <2> QED BY <1>1, <2>2, Times DEF SignedInv, SignedTypes
<1>3. MemoryOK' /\ ActedOnOnce' /\ RevokedStaysRefused'
  BY <1>1 DEF SignedInv, MemoryOK, ActedOnOnce, RevokedStaysRefused, Expiry
<1>4. CASE Acceptable(r, now)
  <2> DEFINE c == [request |-> r, copy |-> copies'[r], at |-> now,
                   looked |-> FALSE, known |-> FALSE, revoked |-> key = "revoked"]
  <2>1. check' = check \cup {c} /\ fetch' = fetch /\ trouble' = trouble
    BY <1>4 DEF Comes
  <2>2. c \in Check
    BY <1>2 DEF Check, SignedInv, SignedTypes
  <2>3. SignedTypes'
    BY <1>1, <1>2, <2>1, <2>2 DEF SignedInv, SignedTypes
  <2>4. ChecksOK'
    <3>1. /\ c.request = r /\ c.at = now /\ ~c.looked /\ ~c.known
          /\ c.revoked <=> key = "revoked"
      OBVIOUS
    <3>2. now <= now + MaxLookup /\ now <= created[r] + Window
      BY <1>4, Times DEF Acceptable, SignedInv, SignedTypes
    <3> HIDE DEF c
    <3>3. now <= now
      BY DEF SignedInv, SignedTypes
    <3> QED BY <1>1, <2>1, <3>1, <3>2, <3>3 DEF SignedInv, ChecksOK
  <2>5. SigningOK' /\ RetryIsEnough'
    BY <1>1, <2>1 DEF SignedInv, SigningOK, RetryIsEnough
  <2> QED BY <1>3, <2>3, <2>4, <2>5 DEF SignedInv
<1>5. CASE ~Acceptable(r, now)
  <2>1. check' = check /\ fetch' = Hears(r, "refused") /\ trouble' = trouble \cup {r[1]}
    BY <1>5 DEF Comes
  <2>2. SignedTypes'
    BY <1>1, <1>2, <2>1, HearingIsSafe DEF SignedInv, SignedTypes
  <2>3. SigningOK' /\ RetryIsEnough'
    BY <1>1, <2>1, HearingIsSafe DEF SignedInv, SigningOK, RetryIsEnough
  <2>4. ChecksOK'
    BY <1>1, <2>1 DEF SignedInv, ChecksOK
  <2> QED BY <1>3, <2>2, <2>3, <2>4 DEF SignedInv
<1> QED BY <1>4, <1>5

LEMMA LooksUpKeeps == ASSUME SignedInv, NEW c \in check, LooksUp(c) PROVE SignedInv'
<1> DEFINE d == [c EXCEPT !.looked = TRUE, !.known = key = "active"]
<1>1. c \in Check
  BY DEF SignedInv, SignedTypes
<1>2. /\ d \in Check /\ d.request = c.request /\ d.at = c.at /\ d.revoked = c.revoked
      /\ d.looked /\ (d.known <=> key = "active")
  BY <1>1 DEF Check
<1>3. check' = (check \ {c}) \cup {d}
  BY DEF LooksUp
<1> HIDE DEF d
<1>4. SignedTypes'
  BY <1>2, <1>3 DEF SignedInv, SignedTypes, LooksUp
<1>5. d.request[2] = 2 /\ ~d.known => key = "revoked"
  <2>1. c.request \in DOMAIN created /\ c.request \in Signed
    BY <1>1 DEF SignedInv, ChecksOK, Check
  <2>2. c.request[2] = 2 => key # "unknown"
    BY <2>1, Pairs DEF SignedInv, SigningOK
  <2> QED BY <1>2, <2>2 DEF SignedInv, SignedTypes
<1>6. ChecksOK'
  BY <1>2, <1>3, <1>5 DEF SignedInv, ChecksOK, LooksUp
<1>7. SigningOK' /\ MemoryOK' /\ ActedOnOnce' /\ RevokedStaysRefused' /\ RetryIsEnough'
  BY DEF SignedInv, SigningOK, MemoryOK, ActedOnOnce, RevokedStaysRefused, RetryIsEnough, LooksUp,
         Expiry
<1> QED BY <1>4, <1>6, <1>7 DEF SignedInv

(* A purge drops nothing that is not expired. *)
LEMMA PurgeKeepsNonces ==
  ASSUME SignedInv, NEW c \in check, NEW memory \in {seen, Purged(c.at)}
  PROVE  /\ DOMAIN memory \subseteq DOMAIN seen
         /\ \A r \in DOMAIN memory : memory[r] = Expiry(r)
         /\ \A d \in acted : now < Expiry(d.request) => d.request \in DOMAIN memory
<1>1. c.at \in Nat /\ c.at <= now /\ now \in Nat
  BY DEF SignedInv, SignedTypes, Check, ChecksOK
<1>2. \A r \in DOMAIN seen : seen[r] = Expiry(r) /\ Expiry(r) \in Nat
  BY ExpiryIsNat DEF SignedInv, MemoryOK
<1>3. \A d \in acted : now < Expiry(d.request) => d.request \in DOMAIN seen
  BY DEF SignedInv, MemoryOK
<1>4. CASE memory = seen
  BY <1>2, <1>3, <1>4
<1>5. CASE memory = Purged(c.at)
  <2>1. /\ DOMAIN memory = {r \in DOMAIN seen : seen[r] > c.at}
        /\ \A r \in DOMAIN memory : memory[r] = seen[r]
    BY <1>5 DEF Purged
  <2> QED BY <1>1, <1>2, <1>3, <2>1
<1> QED BY <1>4, <1>5

(* A check under way ends before the expiry of its nonce. *)
LEMMA NotExpiredYet ==
  ASSUME SignedInv, NEW c \in check
  PROVE  c.at < Expiry(c.request) /\ now < Expiry(c.request)
<1>1. /\ c.at \in Nat /\ now \in Nat /\ created[c.request] \in Nat
      /\ c.at <= now /\ now <= c.at + MaxLookup /\ c.at <= created[c.request] + Window
  BY DEF SignedInv, SignedTypes, Check, ChecksOK
<1> QED BY <1>1, Times DEF Expiry

LEMMA ConcludesKeeps == ASSUME SignedInv, NEW c \in check, Concludes(c) PROVE SignedInv'
<1> DEFINE r == c.request
<1>1. /\ c \in Check /\ r \in Signed /\ r \in DOMAIN created
      /\ check' = check \ {c} /\ c.looked
      /\ now' = now /\ key' = key /\ locked' = locked /\ created' = created /\ copies' = copies
  BY DEF SignedInv, SignedTypes, Check, ChecksOK, Concludes
<1>2. \A x : Expiry(x)' = Expiry(x)
  BY <1>1 DEF Expiry
<1>3. ChecksOK'
  BY <1>1 DEF SignedInv, ChecksOK
<1>4. ASSUME NEW answer, fetch' = Hears(r, answer), acted' \subseteq acted \cup {c}
      PROVE  SignedTypes' /\ SigningOK'
  BY <1>1, <1>4, HearingIsSafe DEF SignedInv, SignedTypes, SigningOK
<1>5. CASE ~c.known
  <2>1. /\ fetch' = Hears(r, "refused") /\ seen' = seen /\ acted' = acted
        /\ trouble' = IF key = "revoked" THEN trouble \cup {r[1]} ELSE trouble
    BY <1>5 DEF Concludes
  <2>2. r[2] = 2 => key = "revoked"
    BY <1>1, <1>5 DEF SignedInv, ChecksOK
  <2>3. RetryIsEnough'
    BY <1>1, <2>1, <2>2, HearingIsSafe DEF SignedInv, RetryIsEnough
  <2>4. MemoryOK' /\ ActedOnOnce' /\ RevokedStaysRefused'
    BY <1>1, <1>2, <2>1 DEF SignedInv, MemoryOK, ActedOnOnce, RevokedStaysRefused
  <2> QED BY <1>3, <1>4, <2>1, <2>3, <2>4 DEF SignedInv
<1>6. CASE c.known
  <2>1. PICK memory \in {seen, Purged(c.at)} :
          IF Remembered(memory, r, c.at)
          THEN /\ seen' = memory
               /\ fetch' = Hears(r, "refused")
               /\ trouble' = trouble \cup {r[1]}
               /\ UNCHANGED acted
          ELSE /\ seen' = With(memory, r, Expiry(r))
               /\ acted' = acted \cup {c}
               /\ fetch' = Hears(r, "acted")
               /\ UNCHANGED trouble
    BY <1>6 DEF Concludes
  <2>2. /\ DOMAIN memory \subseteq DOMAIN seen
        /\ \A x \in DOMAIN memory : memory[x] = Expiry(x)
        /\ \A d \in acted : now < Expiry(d.request) => d.request \in DOMAIN memory
    BY PurgeKeepsNonces
  <2>3. CASE Remembered(memory, r, c.at)
    <3>1. seen' = memory /\ fetch' = Hears(r, "refused") /\ trouble' = trouble \cup {r[1]}
          /\ acted' = acted
      BY <2>1, <2>3
    <3>2. RetryIsEnough'
      BY <1>1, <3>1, HearingIsSafe DEF SignedInv, RetryIsEnough
    <3>3. MemoryOK' /\ ActedOnOnce' /\ RevokedStaysRefused'
      BY <1>1, <1>2, <2>2, <3>1 DEF SignedInv, MemoryOK, ActedOnOnce, RevokedStaysRefused
    <3> QED BY <1>3, <1>4, <3>1, <3>2, <3>3 DEF SignedInv
  <2>4. CASE ~Remembered(memory, r, c.at)
    <3>1. seen' = With(memory, r, Expiry(r)) /\ acted' = acted \cup {c}
          /\ fetch' = Hears(r, "acted") /\ trouble' = trouble
      BY <2>1, <2>4
    <3>2. \A d \in acted : d.request # r
      BY <2>2, <2>4, NotExpiredYet DEF Remembered
    <3>3. ActedOnOnce'
      BY <3>1, <3>2 DEF SignedInv, ActedOnOnce
    <3>4. RevokedStaysRefused'
      BY <1>6, <3>1 DEF SignedInv, ChecksOK, RevokedStaysRefused
    <3>5. /\ DOMAIN seen' = DOMAIN memory \cup {r}
          /\ \A x \in DOMAIN seen' : seen'[x] = Expiry(x)
      BY <2>2, <3>1 DEF With
    <3>6. MemoryOK'
      BY <1>1, <1>2, <2>2, <3>1, <3>5 DEF SignedInv, MemoryOK
    <3>7. \A f \in Fetch : fetch'[f] = "refused" => fetch[f] = "refused"
      BY <1>1, <3>1, Pairs DEF Hears, SignedInv, SignedTypes
    <3>8. RetryIsEnough'
      BY <3>1, <3>7 DEF SignedInv, RetryIsEnough
    <3> QED BY <1>3, <1>4, <3>1, <3>3, <3>4, <3>6, <3>8 DEF SignedInv
  <2> QED BY <2>3, <2>4
<1> QED BY <1>5, <1>6

LEMMA RestartsKeeps == ASSUME SignedInv, Restarts PROVE SignedInv'
<1>1. /\ seen' = <<>> /\ DOMAIN seen' = {} /\ check' = {} /\ acted' = {}
      /\ now' = now /\ key' = key /\ locked' = locked /\ created' = created /\ copies' = copies
      /\ trouble \subseteq trouble'
  BY DEF Restarts
<1>2. /\ fetch' \in [Fetch -> FetchState]
      /\ \A f \in Fetch : fetch'[f] = fetch[f] \/ (fetch'[f] = "refused" /\ f \in trouble'
                                                  /\ fetch[f] \in {"first", "second"})
  BY DEF Restarts, SignedInv, SignedTypes, FetchState
<1>3. SignedTypes' /\ SigningOK'
  BY <1>1, <1>2 DEF SignedInv, SignedTypes, SigningOK
<1>4. ChecksOK' /\ MemoryOK' /\ ActedOnOnce' /\ RevokedStaysRefused'
  BY <1>1 DEF ChecksOK, MemoryOK, ActedOnOnce, RevokedStaysRefused
<1>5. RetryIsEnough'
  BY <1>1, <1>2 DEF SignedInv, RetryIsEnough
<1> QED BY <1>3, <1>4, <1>5 DEF SignedInv

-----------------------------------------------------------------------------

LEMMA StepSigned == ASSUME SignedInv, [SignedNext]_signedVars PROVE SignedInv'
<1>1. CASE Tick \/ Restarts
  BY <1>1, TickKeeps, RestartsKeeps
<1>2. CASE \/ Revokes \/ LockChanges
           \/ \E f \in Fetch : FetchRegisters(f) \/ RegistrationRefused(f)
  BY <1>2, KeyStepsKeep
<1>3. ASSUME NEW f \in Fetch, FetchSends(f) \/ FetchSendsAgain(f) PROVE SignedInv'
  BY <1>3, FetchSendingKeeps
<1>4. ASSUME NEW r \in Signed, Comes(r) PROVE SignedInv'
  BY <1>4, ComesKeeps
<1>5. ASSUME NEW c \in check, LooksUp(c) \/ Concludes(c) PROVE SignedInv'
  BY <1>5, LooksUpKeeps, ConcludesKeeps
<1>6. CASE UNCHANGED signedVars
  BY <1>6 DEF signedVars, SignedInv, SignedTypes, SigningOK, ChecksOK, MemoryOK, ActedOnOnce,
              RevokedStaysRefused, RetryIsEnough, Expiry
<1> QED BY <1>1, <1>2, <1>3, <1>4, <1>5, <1>6 DEF SignedNext

LEMMA SignedInvHolds == SignedSpec => []SignedInv
<1>1. SignedInit => SignedInv
  BY InitSigned
<1>2. SignedInv /\ [SignedNext]_signedVars => SignedInv'
  BY StepSigned
<1> QED BY <1>1, <1>2, PTL DEF SignedSpec

(* As long as Core runs, one signature is acted on once: verifyRequest     *)
(* takes the time first, looks the key up, and remembers the nonce last,   *)
(* with other copies and purges in between (signatures.ts).                *)
THEOREM NoCopyIsActedOn == SignedSpec => []ActedOnOnce
<1>1. SignedInv => ActedOnOnce
  BY DEF SignedInv
<1> QED BY <1>1, SignedInvHolds, PTL

(* A request that comes after its key was revoked is refused, although its *)
(* program registers the key once more (client-keys.ts).                   *)
THEOREM RevokedKeysStayOut == SignedSpec => []RevokedStaysRefused
<1>1. SignedInv => RevokedStaysRefused
  BY DEF SignedInv
<1> QED BY <1>1, SignedInvHolds, PTL

(* CoreClientSigning.fetch needs no third try: a second one is refused     *)
(* only when something other than an unknown key befell its fetch.         *)
THEOREM TwoTriesAreEnough == SignedSpec => []RetryIsEnough
<1>1. SignedInv => RetryIsEnough
  BY DEF SignedInv
<1> QED BY <1>1, SignedInvHolds, PTL

(* The records are of the right types, and a nonce is remembered beyond    *)
(* the time its request was signed (NonceMemory.use).                      *)
THEOREM SignedTyping == SignedSpec => []SignedTypeOK
<1>1. SignedInv => SignedTypeOK
  <2> SUFFICES ASSUME SignedInv PROVE SignedTypeOK
    OBVIOUS
  <2>2. ASSUME NEW r \in DOMAIN seen PROVE created[r] <= seen[r]
    <3>0. r \in DOMAIN created /\ seen[r] = Expiry(r)
      BY DEF SignedInv, MemoryOK
    <3>1. created[r] \in Nat /\ seen[r] = created[r] + Window + Ahead
      BY <3>0 DEF SignedInv, SignedTypes, Expiry
    <3> QED BY <3>1, Times
  <2> QED BY <2>2 DEF SignedInv, SignedTypes, FetchState, MemoryOK, SignedTypeOK
<1> QED BY <1>1, SignedInvHolds, PTL
=============================================================================
