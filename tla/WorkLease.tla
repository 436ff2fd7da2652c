------------------------------ MODULE WorkLease ------------------------------
(***************************************************************************)
(* What Core promises a service about one piece of work, whatever requests *)
(* overlap: work is offered to one copy at a time; once a copy has taken   *)
(* it, it is that copy's until it is finished; finished work stays as it   *)
(* finished; and work that finished well has its answer stored.            *)
(***************************************************************************)
CONSTANTS
  Work,     \* pieces of work
  Copies,   \* the copies that may do them
  Nobody    \* no copy

VARIABLES
  phase,    \* how far each piece of work has come
  holder,   \* the copy it was last offered to
  stored    \* the work an answer is stored for

leaseVars == <<phase, holder, stored>>

Ended == {"SUCCESS", "FAILED", "CANCELLED"}

LeaseInit ==
  /\ phase = [w \in Work |-> "none"]
  /\ holder = [w \in Work |-> Nobody]
  /\ stored = {}

Move(w, from, to) ==
  phase[w] \in from /\ phase' = [phase EXCEPT ![w] = to]

Create(w) == Move(w, {"none"}, "open") /\ UNCHANGED <<holder, stored>>

Lend(w, i) ==
  /\ Move(w, {"open", "offered"}, "offered")
  /\ holder' = [holder EXCEPT ![w] = i]
  /\ UNCHANGED stored

Refuse(w) ==
  \E to \in {"open", "FAILED"} :
    Move(w, {"offered"}, to) /\ UNCHANGED <<holder, stored>>

Take(w) == Move(w, {"offered"}, "held") /\ UNCHANGED <<holder, stored>>

Store(w) == stored' = stored \cup {w} /\ UNCHANGED <<phase, holder>>

Finish(w) ==
  /\ \/ Move(w, {"held"}, "FAILED")
     \/ w \in stored /\ Move(w, {"held"}, "SUCCESS")
  /\ UNCHANGED <<holder, stored>>

(* Work still waiting may be called off, any number of pieces at once. *)
Withdraw ==
  /\ \E some \in SUBSET {w \in Work : phase[w] = "open"} :
       phase' = [w \in Work |-> IF w \in some THEN "CANCELLED" ELSE phase[w]]
  /\ UNCHANGED <<holder, stored>>

LeaseNext ==
  \/ \E w \in Work : Create(w) \/ Refuse(w) \/ Take(w) \/ Store(w) \/ Finish(w)
  \/ \E w \in Work, i \in Copies : Lend(w, i)
  \/ Withdraw

LeaseSpec == LeaseInit /\ [][LeaseNext]_leaseVars
=============================================================================
