------------------------------- MODULE Joining -------------------------------
(***************************************************************************)
(* How a Core comes by its identity (src/host/start.ts, src/host/join.ts,  *)
(* src/host/prisma-host-store.ts).                                         *)
(*                                                                         *)
(* The database says which node a Core is, once it says anything.  Before  *)
(* that, an install code makes it the first machine of a new system, and   *)
(* without one it waits for a node of another system to join it: each      *)
(* request is checked, then read, then recorded, with others in between.   *)
(* The process may end at any time; its settings may be edited meanwhile.  *)
(***************************************************************************)
EXTENDS Naturals, FiniteSets

CONSTANTS
  Id,           \* IDs that may become this Core's
  JoinRequest,  \* requests to join, each with its ID
  IdOf,         \* the ID each brings
  NoId,
  MaxStarts     \* bound: starts of the process

ASSUME JoiningAssumption ==
  /\ NoId \notin Id
  /\ IdOf \in [JoinRequest -> Id]
  /\ MaxStarts \in Nat

VARIABLES
  identity,     \* sema_core_identity_state: the Core's own node ID
  machines,     \* the machine nodes recorded
  settings,     \* the configured ID and the ID in the install code
  process,      \* what the process is doing, and as which node
  joined,       \* the join server's flag
  join,         \* each request to join
  starts

joiningVars == <<identity, machines, settings, process, joined, join, starts>>

Down == [pc |-> "down", as |-> NoId]
Settings == [configured : Id \cup {NoId}, code : Id \cup {NoId}]

JoiningInit ==
  /\ identity = NoId
  /\ machines = {}
  /\ settings \in Settings
  /\ process = Down
  /\ joined = FALSE
  /\ join = [r \in JoinRequest |-> "unsent"]
  /\ starts = 0

(* resolveStart: a configured ID must be the one stored, or the one assigned. *)
StartsAs(as) ==
  /\ as = IF identity # NoId THEN identity ELSE settings.code
  /\ as # NoId => settings.configured \in {NoId, as}

Starts ==
  /\ process = Down
  /\ starts < MaxStarts
  /\ starts' = starts + 1
  /\ joined' = FALSE
  /\ \E as \in Id \cup {NoId} :
       /\ StartsAs(as)
       /\ process' = IF as = NoId THEN [pc |-> "waiting", as |-> NoId]
                     ELSE [pc |-> "initializing", as |-> as]
  /\ UNCHANGED <<identity, machines, settings, join>>

(* initializeIdentity: the identity, then the machine node. *)
StoresIdentity ==
  /\ process.pc = "initializing"
  /\ IF identity = NoId
     THEN identity' = process.as /\ process' = [process EXCEPT !.pc = "recording"]
     ELSE /\ process' = IF identity = process.as THEN [process EXCEPT !.pc = "recording"] ELSE Down
          /\ UNCHANGED identity
  /\ UNCHANGED <<machines, settings, joined, join, starts>>

RecordsNode ==
  /\ process.pc = "recording"
  /\ machines' = machines \cup {process.as}
  /\ process' = [process EXCEPT !.pc = "running"]
  /\ UNCHANGED <<identity, settings, joined, join, starts>>

-----------------------------------------------------------------------------
(* Requests to join: the flag is looked at before the body is read.        *)

JoinComes(r) ==
  /\ process.pc = "waiting"
  /\ join[r] = "unsent"
  /\ join' = [join EXCEPT ![r] = IF joined THEN "refused" ELSE "reading"]
  /\ UNCHANGED <<identity, machines, settings, process, joined, starts>>

JoinRead(r) ==
  /\ join[r] = "reading"
  /\ \/ joined' = TRUE /\ join' = [join EXCEPT ![r] = "writing"]
     \/ join' = [join EXCEPT ![r] = "refused"] /\ UNCHANGED joined   \* the code is wrong
  /\ UNCHANGED <<identity, machines, settings, process, starts>>

(* Fault: the record is written over. *)
RecordsAnyhow(id) == identity' = id /\ machines' = machines \cup {id}

(* Fault: a joined Core records its node and not its identity. *)
RecordsNodeOnly(id) ==
  /\ identity = NoId
  /\ machines' = machines \cup {id}
  /\ UNCHANGED identity

(* joinSystem: both records, only once. *)
Records(id) ==
  /\ identity = NoId
  /\ id \notin machines
  /\ identity' = id
  /\ machines' = machines \cup {id}

JoinRecorded(r) ==
  /\ join[r] = "writing"
  /\ Records(IdOf[r])
  /\ join' = [join EXCEPT ![r] = "recorded"]
  /\ UNCHANGED <<settings, process, joined, starts>>

JoinNotRecorded(r) ==
  /\ join[r] = "writing"
  /\ identity # NoId \/ IdOf[r] \in machines
  /\ joined' = FALSE
  /\ join' = [join EXCEPT ![r] = "refused"]
  /\ UNCHANGED <<identity, machines, settings, process, starts>>

(* The answer is sent and the join server closed; requests it was still    *)
(* serving are cut off.                                                    *)
JoinAnswered(r) ==
  /\ join[r] = "recorded"
  /\ process.pc = "waiting"
  /\ join' = [s \in JoinRequest |-> IF s = r THEN "joined"
                                ELSE IF join[s] \in {"reading", "writing"} THEN "cut" ELSE join[s]]
  /\ process' = [pc |-> "initializing", as |-> IdOf[r]]
  /\ UNCHANGED <<identity, machines, settings, joined, starts>>

ProcessEnds ==
  /\ process # Down
  /\ process' = Down
  /\ join' = [r \in JoinRequest |->
       IF join[r] \in {"reading", "writing", "recorded"} THEN "cut" ELSE join[r]]
  /\ UNCHANGED <<identity, machines, settings, joined, starts>>

SettingsEdited ==
  /\ process = Down
  /\ \E s \in Settings : s # settings /\ settings' = s
  /\ UNCHANGED <<identity, machines, process, joined, join, starts>>

JoiningNext ==
  \/ Starts \/ StoresIdentity \/ RecordsNode \/ ProcessEnds \/ SettingsEdited
  \/ \E r \in JoinRequest :
       JoinComes(r) \/ JoinRead(r) \/ JoinRecorded(r) \/ JoinNotRecorded(r) \/ JoinAnswered(r)

JoiningSpec == JoiningInit /\ [][JoiningNext]_joiningVars

-----------------------------------------------------------------------------

(* The records are of the right types; a Core records no machine node but  *)
(* its own.                                                                *)
JoiningTypeOK ==
  /\ identity \in Id \cup {NoId}
  /\ machines \subseteq {identity} \cap Id
  /\ settings \in Settings
  /\ process.pc \in {"down", "waiting", "initializing", "recording", "running"}
  /\ process.as \in Id \cup {NoId}

(* Only one request is ever told that it joined the Core, and the Core     *)
(* runs as what it was told, or as its install code said, and as nothing   *)
(* else ever after: whatever requests overlap, wherever it ends, whatever  *)
(* its settings say later.                                                 *)
OneIdentity ==
  /\ Cardinality({r \in JoinRequest : join[r] = "joined"}) <= 1
  /\ \A r \in JoinRequest : join[r] = "joined" => identity = IdOf[r]
  /\ process.pc = "running" => process.as = identity /\ machines = {identity}
=============================================================================
