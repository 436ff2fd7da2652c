------------------------------ MODULE MCRecords ------------------------------
(***************************************************************************)
(* Small instances, for TLC in one run, of the parts whose records must    *)
(* never go wrong: child lists, seats, first IDs, a Core's own identity    *)
(* and the signed requests it remembers.  Each behaviour lets one part     *)
(* move and leaves the others as they began.                               *)
(***************************************************************************)
EXTENDS ChildLists, Seats, FirstIds, Joining, SignedRequests, TLC

CONSTANTS
  nOrg, nDep, nTeam, nUser, nNew,   \* nodes
  oOrg, oDiv, pOrg, pDiv,           \* organizations, and a place in each
  i1, i2, r1, r2, r3,               \* IDs, and requests to join
  f1, f2                            \* requests a program makes

VARIABLE part

partVars == <<part, vars, seatVars, firstIdVars, joiningVars, signedVars>>

(* An organization, a department, its team and a user in it, and an ID for *)
(* another organization.                                                   *)
MCType ==
  (nOrg :> "ORGANIZATION") @@ (nDep :> "GROUP") @@ (nTeam :> "GROUP")
  @@ (nUser :> "USER") @@ (nNew :> "ORGANIZATION")
MCStart == (nOrg :> None) @@ (nDep :> nOrg) @@ (nTeam :> nDep) @@ (nUser :> nTeam)

(* An organization and a division of it. *)
MCOver == (oOrg :> Nowhere) @@ (oDiv :> oOrg)
MCBase == (pOrg :> oOrg) @@ (pDiv :> oDiv)

MCIdOf == (r1 :> i1) @@ (r2 :> i2) @@ (r3 :> i1)

MCSymmetry == Permutations(Person)

Begun ==
  /\ part # "seats" => allowed = [o \in Org |-> NoLimit]
  /\ part # "joining" => settings = [configured |-> NoId, code |-> NoId]
  /\ part \notin {"one fetch", "two fetches"} => ~locked

RecordsInit ==
  /\ part \in {"lists", "seats", "first IDs", "joining", "one fetch", "two fetches"}
  /\ Init /\ SeatsInit /\ FirstIdsInit /\ JoiningInit /\ SignedInit
  /\ Begun

Moves(p) == part = p /\ part' = p
SignedMoves(p) ==
  Moves(p) /\ SignedNext /\ UNCHANGED <<vars, seatVars, firstIdVars, joiningVars>>

(* Of seats, four things in all: conversations, failures, limits, recounts. *)
(* One fetch, with time and copies of its requests; or two at one time.     *)
RecordsNext ==
  \/ Moves("lists") /\ Next /\ UNCHANGED <<seatVars, firstIdVars, joiningVars, signedVars>>
  \/ /\ Moves("seats") /\ SeatsNext /\ seatTalks' + failures' + limits' + recounts' <= 4
     /\ UNCHANGED <<vars, firstIdVars, joiningVars, signedVars>>
  \/ Moves("first IDs") /\ FirstIdsNext /\ UNCHANGED <<vars, seatVars, joiningVars, signedVars>>
  \/ Moves("joining") /\ JoiningNext /\ UNCHANGED <<vars, seatVars, firstIdVars, signedVars>>
  \/ SignedMoves("one fetch") /\ fetch'[f2] = "idle"
  \/ SignedMoves("two fetches") /\ now' = 0 /\ \A r \in Signed : copies'[r] <= 1

RecordsSpec == RecordsInit /\ [][RecordsNext]_partVars
=============================================================================
