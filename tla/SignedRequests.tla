---------------------------- MODULE SignedRequests ----------------------------
(***************************************************************************)
(* Signed requests (src/keys/signatures.ts, src/keys/client-keys.ts,       *)
(* src/keys/client-signing.ts, src/host/sema-core-host.ts).                *)
(*                                                                         *)
(* A program signs each request with a time and a nonce.  Core takes the   *)
(* time when it comes, looks the key up, and then remembers the nonce; a   *)
(* copy of the request may be anywhere in between.  Core keeps the nonces  *)
(* in memory until the signature is too old anyway.  A program that Core   *)
(* does not know registers its key and signs once more.  The key may be    *)
(* revoked meanwhile, Core may be locked or start again.                   *)
(*                                                                         *)
(* The cryptography is outside the model: a signature is good when its key *)
(* is registered.  Looking a key up takes MaxLookup at most.               *)
(***************************************************************************)
EXTENDS Naturals, FiniteSets

CONSTANTS
  Fetch,        \* requests a program makes; each may be signed twice
  Window,       \* seconds a signature stays acceptable (60)
  Ahead,        \* seconds a program's clock may be ahead (5)
  MaxLookup,    \* bound: seconds a look-up takes
  MaxTime,      \* bound: seconds
  MaxCopies     \* bound: copies that come besides each request itself

ASSUME SignedRequestsAssumption ==
  /\ {Window, Ahead, MaxTime, MaxCopies} \subseteq Nat
  /\ MaxLookup \in Nat /\ MaxLookup < Ahead

VARIABLES
  now,          \* Core's clock
  key,          \* the program's key as Core has it
  locked,       \* this Core is shut down
  fetch,        \* what the program is doing with each of its requests
  created,      \* the signed requests sent and the time in each
  copies,       \* how often each has come
  check,        \* checks under way at Core
  seen,         \* the nonces remembered and when each expires
  acted,        \* history: the signed requests acted on since Core started
  trouble       \* history: the fetches something other than an unknown key befell

signedVars == <<now, key, locked, fetch, created, copies, check, seen, acted, trouble>>

Signed == Fetch \X {1, 2}
Check ==
  [request : Signed, copy : 1 .. MaxCopies + 1, at : 0 .. MaxTime,
   looked : BOOLEAN, known : BOOLEAN, revoked : BOOLEAN]

SignedInit ==
  /\ now = 0
  /\ key = "unknown"
  /\ locked \in BOOLEAN
  /\ fetch = [f \in Fetch |-> "idle"]
  /\ created = <<>>
  /\ copies = [r \in Signed |-> 0]
  /\ check = {}
  /\ seen = <<>>
  /\ acted = {}
  /\ trouble = {}

With(function, argument, value) ==
  [x \in DOMAIN function \cup {argument} |-> IF x = argument THEN value ELSE function[x]]

Tick ==
  /\ now < MaxTime
  /\ \A c \in check : now - c.at < MaxLookup
  /\ now' = now + 1
  /\ UNCHANGED <<key, locked, fetch, created, copies, check, seen, acted, trouble>>

-----------------------------------------------------------------------------
(* The program (CoreClientSigning.fetch).                                  *)

(* signRequest, with a clock that may be ahead. *)
Sends(f, attempt) ==
  \E ahead \in {0, Ahead} :
    /\ created' = With(created, <<f, attempt>>, now + ahead)
    /\ UNCHANGED <<now, key, locked, copies, check, seen, acted>>

FetchSends(f) ==
  /\ fetch[f] = "idle"
  /\ fetch' = [fetch EXCEPT ![f] = "first"]
  /\ Sends(f, 1)
  /\ UNCHANGED trouble

(* Fault: a key that is registered already is an error. *)
RegistersOnce == key = "unknown"

(* A key that is registered already, by another fetch or long ago, is as good. *)
Registers == TRUE

(* Fault: a key registered again is not revoked any more. *)
AddedAgain == "active"

(* registerClientKey: what is registered stays as it is, revoked or not. *)
Added == IF key = "unknown" THEN "active" ELSE key

FetchRegisters(f) ==
  /\ fetch[f] = "register"
  /\ ~locked
  /\ Registers
  /\ key' = Added
  /\ fetch' = [fetch EXCEPT ![f] = "registered"]
  /\ UNCHANGED <<now, locked, created, copies, check, seen, acted, trouble>>

RegistrationRefused(f) ==
  /\ fetch[f] = "register"
  /\ locked \/ ~Registers
  /\ fetch' = [fetch EXCEPT ![f] = "refused"]
  /\ trouble' = IF locked THEN trouble \cup {f} ELSE trouble
  /\ UNCHANGED <<now, key, locked, created, copies, check, seen, acted>>

FetchSendsAgain(f) ==
  /\ fetch[f] = "registered"
  /\ fetch' = [fetch EXCEPT ![f] = "second"]
  /\ Sends(f, 2)
  /\ UNCHANGED trouble

-----------------------------------------------------------------------------
(* Core (verifyRequest, NonceMemory).                                      *)

(* The program hears the answer to the attempt it waits for, if no other   *)
(* copy was answered before.                                               *)
Hears(r, answer) ==
  IF fetch[r[1]] = (IF r[2] = 1 THEN "first" ELSE "second")
  THEN [fetch EXCEPT ![r[1]] =
          IF answer = "acted" THEN "done" ELSE IF r[2] = 1 THEN "register" ELSE "refused"]
  ELSE fetch

Acceptable(r, at) == created[r] <= at + Ahead /\ at <= created[r] + Window

(* A copy comes; one too old or from the future is refused at once. *)
Comes(r) ==
  /\ r \in DOMAIN created
  /\ copies[r] <= MaxCopies
  /\ copies' = [copies EXCEPT ![r] = @ + 1]
  /\ IF Acceptable(r, now)
     THEN /\ check' = check \cup {[request |-> r, copy |-> copies'[r], at |-> now,
                                   looked |-> FALSE, known |-> FALSE,
                                   revoked |-> key = "revoked"]}
          /\ UNCHANGED <<fetch, trouble>>
     ELSE /\ fetch' = Hears(r, "refused")
          /\ trouble' = trouble \cup {r[1]}
          /\ UNCHANGED check
  /\ UNCHANGED <<now, key, locked, created, seen, acted>>

LooksUp(c) ==
  /\ c \in check
  /\ ~c.looked
  /\ check' = (check \ {c}) \cup {[c EXCEPT !.looked = TRUE, !.known = key = "active"]}
  /\ UNCHANGED <<now, key, locked, fetch, created, copies, seen, acted, trouble>>

(* Fault: the clock's tolerance is not added. *)
ExpiryWithoutAhead(r) == created[r] + Window

(* Fault: how long, where it should be until when. *)
ExpiryAsDuration(r) == Window + Ahead

Expiry(r) == created[r] + Window + Ahead

(* A long memory is cleared of what has expired. *)
Purged(at) == [r \in {q \in DOMAIN seen : seen[q] > at} |-> seen[r]]

Remembered(memory, r, at) == r \in DOMAIN memory /\ memory[r] > at

Concludes(c) ==
  LET r == c.request
  IN /\ c \in check
     /\ c.looked
     /\ check' = check \ {c}
     /\ IF ~c.known
        THEN /\ fetch' = Hears(r, "refused")
             /\ trouble' = IF key = "revoked" THEN trouble \cup {r[1]} ELSE trouble
             /\ UNCHANGED <<seen, acted>>
        ELSE \E memory \in {seen, Purged(c.at)} :
             IF Remembered(memory, r, c.at)
             THEN /\ seen' = memory
                  /\ fetch' = Hears(r, "refused")
                  /\ trouble' = trouble \cup {r[1]}
                  /\ UNCHANGED acted
             ELSE /\ seen' = With(memory, r, Expiry(r))
                  /\ acted' = acted \cup {c}
                  /\ fetch' = Hears(r, "acted")
                  /\ UNCHANGED trouble
     /\ UNCHANGED <<now, key, locked, created, copies>>

(* revokeClientKey *)
Revokes ==
  /\ key = "active"
  /\ key' = "revoked"
  /\ UNCHANGED <<now, locked, fetch, created, copies, check, seen, acted, trouble>>

LockChanges ==
  /\ locked' = ~locked
  /\ UNCHANGED <<now, key, fetch, created, copies, check, seen, acted, trouble>>

(* A new start has forgotten the nonces; the requests being checked fail. *)
Restarts ==
  /\ seen # <<>> \/ check # {}
  /\ seen' = <<>>
  /\ check' = {}
  /\ acted' = {}
  /\ trouble' = trouble \cup {c.request[1] : c \in check}
  /\ fetch' = [f \in Fetch |->
       IF fetch[f] \in {"first", "second"} /\ \E c \in check : c.request[1] = f THEN "refused"
       ELSE fetch[f]]
  /\ UNCHANGED <<now, key, locked, created, copies>>

SignedNext ==
  \/ Tick \/ Revokes \/ LockChanges \/ Restarts
  \/ \E f \in Fetch :
       FetchSends(f) \/ FetchRegisters(f) \/ RegistrationRefused(f) \/ FetchSendsAgain(f)
  \/ \E r \in Signed : Comes(r)
  \/ \E c \in check : LooksUp(c) \/ Concludes(c)

SignedSpec == SignedInit /\ [][SignedNext]_signedVars

-----------------------------------------------------------------------------

(* The records are of the right types; no nonce expires before its         *)
(* request was signed.                                                     *)
SignedTypeOK ==
  /\ now \in 0 .. MaxTime
  /\ key \in {"unknown", "active", "revoked"}
  /\ fetch \in [Fetch -> {"idle", "first", "register", "registered", "second", "done", "refused"}]
  /\ DOMAIN created \subseteq Signed /\ DOMAIN seen \subseteq DOMAIN created
  /\ \A r \in DOMAIN seen : created[r] <= seen[r]
  /\ check \subseteq Check /\ acted \subseteq Check

(* A copied request is refused: as long as Core runs, one signature is     *)
(* acted on once, however its copies overlap, come late or come early, and *)
(* whenever the memory is cleared.  (After a new start, once more.)        *)
ActedOnOnce == \A c, d \in acted : c.request = d.request => c = d

(* No request that comes after its key was revoked is acted on, although   *)
(* its program registers the key again.                                    *)
RevokedStaysRefused == \A c \in acted : ~c.revoked

(* A program Core does not know gets through with its second try, also     *)
(* when two of its requests register at once: it is refused only when      *)
(* something else befell it (a revoked key, a lock, a copy, a long way, a  *)
(* new start).                                                             *)
RetryIsEnough == \A f \in Fetch : fetch[f] = "refused" => f \in trouble
=============================================================================
