# SEMA Core: a verification project

SEMA Core is a host for commands: a caller asks for a capability, Core chooses
services that can do it, their running copies ask Core for the work, do it and
report, and the caller reads one result. Around this it keeps a tree of nodes
(organizations, groups, sites, users, machines) spread over many Cores with no
authority above them, and every Core issues IDs that must be unique everywhere.

The program is TypeScript on Node.js with PostgreSQL. Nothing in it holds a lock
across an `await`: every method is a sequence of single statements or short
transactions, and any two requests, timers and Cores interleave between them.
That is what the models are about. They are written from the code, one action
per handler where a handler changes state once, one action per store call where
it changes state several times.

## 1. Inventory

| Component | State | Operations | What is hard | What makes it correct |
|---|---|---|---|---|
| Commands and their executions (`capabilities/work.ts`) | command rows, execution rows, answers, one result per command | run, takeWork, answer, progress, report, markSilent, afterFinish, passOn | requests of copies, callers' waits and the sweep overlap; every step is a statement of its own; Core may end between two | an execution is one copy's and ends once; a result stays true; statuses say what the executions did; silence and finishes are noticed |
| Capability, service, installation, instance records (`registry.ts`) | versions and copies, with last check-in | register, check in, stop, markLost | markLost writes what it listed earlier | a copy that checks in is not lost |
| ID issuance (`local-nodes.ts`, `conversations.ts`, `prisma-host-store.ts`) | each node's basis, counter, ready basis; the ledger of issued IDs | reserve, consume, roll-up, prepare next basis, create node, adopt issued | a value is read, issued and set on three Cores at three times; counters restart | no ID is issued twice, an ID names one node |
| Topology (`conversations.ts`) | parent pointers, child lists | create, move, insert, remove, replace, check in, repair, check children | conversations end halfway and overlap | a list may hold an entry too many, never one too few |
| Suspend and resume | marks on lists, locks on nodes | order, check-in reply | an order and a parent's reply overwrite each other | a suspended subtree locks; a lock ordered directly is cleared only by an order |
| Seats and key limits | counts on organizations | take, give, recount | several organizations in turn, any may fail | the count may be too high, never too low |
| First-ID blocks, install codes, joining | one row, one file | grant, issue, redeem | a used block granted again; a code used twice | a first ID is given once |
| Signed requests, client keys | nonce memory, key rows | verify, rotate, revoke | memory is lost at a restart and purged at a limit | a request is accepted once within its time |
| Base56 and ID text | none | encode, decode | boundaries of the canonical form | decoding inverts encoding |
| Service wrapper | the instance ID its loops share, the job in hand | record an instance, ask, accept, progress, report, stop | an answer about one instance comes after the next was recorded; it may be ended outright | a copy that is up comes back; what is not used is noticed |
| SemaCore, host, HTTP, authorization, database | rows, settings | routes, audit | I/O around the handlers | - |

The components call each other so: HTTP routes call host methods, which call
`CapabilityWork`, `CapabilityRegistry`, `LocalNodes` and the topology
conversations; those use stores (one PostgreSQL transaction per call). A Core's
conversations call other Cores through `NodePeer`, which may be unreachable at
any call. Wrappers poll `takeWork`; callers of `run` and copies of services wait
on an in-process `change` event and on a clock, so what one request changes is
what wakes another. Timers run the sweep, the check-ins and the key-limit check.

PROJECT.json lists every hazard of this code at the line where it bites, with
the properties that watch it, or why none does.

## 2. Modules

| Module | What it is |
|---|---|
| `CapabilityWork` | commands and their executions: every operation, store call by store call |
| `WorkLease` | what Core promises a service about one piece of work: the abstract specification |
| `MCCapabilityWork` | instances of it for TLC |
| `MCWorkLive` | two more, in one run, with fairness |
| `CapabilityWorkProofs` | its theorems |
| `KeyIds` | how IDs are issued: counters, ready bases, conversations, the ledger |
| `MCKeyIds` | instances of it for TLC |
| `KeyIdsProofs` | its theorems |
| `NodeTypes` | the types of nodes and which may hold which |
| `ChildLists`, `ChildListsProofs` | parent pointers and child lists through conversations cut short, overlapping and late; its theorems |
| `Shutdowns`, `ShutdownsProofs` | suspending and resuming: orders, marks, check-ins, notices; its theorems |
| `Seats`, `SeatsProofs` | the counts of organizations, their limits and recounts; its theorems |
| `FirstIds` | blocks of first IDs and install codes |
| `Joining` | how a Core comes by its one identity |
| `IdentityProofs` | the theorems of `FirstIds` and `Joining` |
| `SignedRequests`, `SignedRequestsProofs` | signing, checking, remembering and revoking; its theorems |
| `Copies`, `CopiesProofs` | a wrapper's loops and the records of its instances; its theorem |
| `MCRecords` | one instance each of `ChildLists`, `Seats`, `FirstIds`, `Joining`, `SignedRequests` |
| `MCLive` | one instance each of `ChildLists`, `Shutdowns`, `Copies`, with fairness |
| `MCChildLists` | a small tree for the two findings about it |

`MCRecords` and `MCLive` put several components side by side: the variable `part`
says which of them a behaviour moves, and the others stay as they began. The
components do not read each other's state in the model, so nothing is lost by
that, and their states add up and do not multiply.

### CapabilityWork

State and code:

| Variable | In the code |
|---|---|
| `commands` | a command's row: status, way of choosing services, services in order, how many successes are enough |
| `runs` | where each `run` request stands between its awaits, and the entries it read |
| `results` | the commands whose one result row is written |
| `executions` | `sema_core_executions`: command, service version, copy, status, `deferred`, and `overdue` for the limit its state runs under |
| `answers` | the executions with an answer in `sema_core_results` |
| `instances` | each copy's row, as `able` and `ownInstance` read it |
| `holding` | the accepted work each copy has in hand, the wrapper's `running` |
| `thread` | the requests of copies (`Calls`) and the sweep's rounds (`Sweeps`) being served: the await each has come to and what it has read |
| `crashes`, `early`, `outrun` | a bound, and two histories no action reads: commands an execution of which finished before `run` had written RUNNING, and before it had added them all |

Actions, in the order the code runs them:

- `run`: `CreateCommand` (plan, insert), `RunAdds` (each execution), `RunStarts`
  (RUNNING), `RunReads` (a finished status, or the deadline), `RunRecords`.
- `takeWork`: `CheckIn`, `Offer`; `Claimable` is the claiming statement's WHERE.
- `answer`: `Accept`, `NotNow`, `Defer`; `progress`: `Progress`; `report`:
  `Report`, `AddAnswer`, `ChangeReported`. The wrapper's job is over with `JobEnds`,
  whatever became of the row, and its loop asks again.
- `markSilent`: `SweepLists`, then `SweepMarks` for each row listed, oldest first.
  `Sweeps` has as many members as rounds may overlap.
- `afterFinish` is shared by a report, a "not now" and the sweep: `AfterFinish`
  (the command is read), `CancelPending`, `PassOn` and `AddExecution`, `Settle`
  and `WriteStatus`, each a statement of its own, so that two of them may
  interleave anywhere.
- `Elapse` makes a limit run out, `InstanceChanges` makes a copy unready, stops it
  or marks it lost, `Crash` ends Core: every request and round is gone and the
  rows stay.

What is merged or abstracted, and why that is sound:

- `ownInstance`'s check is one step with the change it guards. The check reads a
  row only a stop or markLost changes, and an answer that passed it just before
  a stop is the same as one that came just before.
- `PassOn` lists the executions and asks which services are able in one step;
  the execution it decides on is added in a later one. `RunReads` reads the
  status, the list and the answers in one step.
- Time is not counted: an offer's 60 seconds, a job's 90 and a deferral's `until`
  are one bit (`overdue`) that any moment may set, so every ordering of the
  clocks is covered.
- A report or a word of progress may come of any execution whose row names the copy,
  also after its job has ended: calls given up by the wrapper arrive late.
- A row's `deferred` is forgotten when it is no longer PENDING: only then is it
  read.
- IDs are given in the order of creation; `NextID` stands for the counter, which
  KeyIds models.
- Input that is refused (schema, length, unknown status) changes nothing and has
  no action. An answer's content is its presence.

### KeyIds

An ID is the sequence of its segments' numbers. A node record holds a basis and
the counter `issued`; `Advance` is the one place where values are taken, by the
SQL of `reserve` (ordinary IDs) and by `issueBasis` and `issueChildId` (values for
nodes). `Reserve`, `TakeIntoUse` and `Retire` are one transaction each, and
`AdoptIssued` is merged into one: the ledger only grows, and the insert refuses by
itself what the look-up before it would have refused. A conversation is a record in `talk`: it begins (`RollUp`,
`PrepareNextBasis`, `CreateNode`: what the walk up read is the guard), `Issue` is
the issuer's transaction, and `SetBasis`, `SetNextBasis` or `Accept` the
node's own, with anything in between; `Fails` is a Core that cannot be reached or
refuses, a process that ends, and a value that is then never used.

- The tree is open: `MayAsk` gives the nodes that may ever stand above a node
  (or be offered to issue for it), so nothing rests on where a node is.
- A suspended Core refuses; that is a step not taken, or `Fails`.
- The read and the write of `consumeReservedIdentifier` are one step: two of them
  at once write the same row.
- `acceptRetired` records a node that issues nothing and is left out; so are
  joining and the first IDs, which are constants (`FirstId`). That a first ID is
  given once, which is assumed there, is what `FirstIds` shows.

### ChildLists

`node[n]` is the record of n on its own Core: `status`, the pointer `up`, the
`list` of children, those `marked` retired on it, and whether it is `complete`.
`GONE` is a node whose machine never answers again: what it recorded is not read
any more. `Way(n)` is the pointers from n upward past retired nodes, and `Heir(n)` the
living node on it that n follows (`nearestLiveAncestor`).

A conversation (`CreateNode`, `PlaceIssued`, `InsertAbove`, `AddParentAbove`,
`ReplaceLost`, `Rehome`, `RemoveNode`, `RemoveTop`, `RetireAway`, `CheckChild`,
`MarkChildList`) reads what it reads in one step, its guard, and leaves the calls it
will make in `todo`, in the code's order. Each call is a step of its own:
`Accepts` is the check the node's Core makes (`checkGain`, `assertActive`, ...) and
`After` what it writes. `Answered` is the call done and answered, `Refused` a refusal,
`CutOff` a call, or its answer, lost; after these two a conversation ends where it is,
except for the one thing the code undoes, a placement plainly not done
(`Undone`). `LateCall` is a call whose caller gave up and which is done all the same,
any time later. `CheckIn` is the timer's call; what a child does with the answer
(`HeedAnswer`, `RepairParent`) follows as calls of its own.

- `strayed` and `overlapped` are history no guard reads. `strayed` holds the nodes that
  were left off a list in one of the ways `NeverTooFew` names, until they are listed
  again when the next conversation begins. `overlapped` says that two conversations ran
  at once, a late call was done, or two talkers were about to change the pointer of the
  same node (`Collides`).
- `checkChildren` looks at every child in turn; here one `CheckChild` looks at one, so
  any subset is covered. A child that does not answer keeps its entry.
- Seats, suspension, addresses and bases are other modules' matters; a suspended
  Core's refusals are calls refused or lost.
- The administrator who marks a list complete says the truth: that is a guard.
- The code does not refuse to move a node under its own descendant and says so
  (`conversations.ts:416`); no operator does it here.

### Shutdowns

`lock[n]` is what n's record says: the order that locks it (`cause`) and whether it was
ordered here or learnt from the parent (`via`); `mark[n]` is the order noted on the
entry for n on its parent's list. An order, a check-in and a notice are each
records that remember what they read (`order`, `checkin`, `notices`), since all
three read a lock in one call and write it in another. `Suspend` and `Resume`
begin an order; `MarkEntry`, `LockNode`, `Unmark`, `UnlockNode`, `AskAbove` are its
calls, `MarkFails` and `OrderFails` the ways they fail. `OwnCheckIn`,
`ParentAnswers`, `Apply` are a check-in (`checkIn`, `applyParentShutdown`);
`NoticeLooks` and `NoticeWrites` a notice on its way down (`noticeDown`). The tree
stands still; an order's number is its time, so that orders are told apart.

### Seats

`used` and `allowed` are an organization's counts; `talk[x]` is the conversation about
person x: the organizations it has still to take a seat in (`take`), those it has taken,
the change of the tree, and those to give back (`give`). They are sets, of which the
`Nearest` is next: the code's list goes up the tree, and `Base[p]` (the nearest
organization of a place) with `Over` says how. `Take`, `TakeRefused`, `Acts`, `ActFails`,
`Gives`, `GiveMissed` are one call each, done or not when they fail. `SetSeatLimits` and
the recount are the administrator's: `RecountBegins` counts the organization's own
people, `RecountReads` asks one division for its count, `RecountWrites` sets what was
found, so that conversations and other recounts come between any two of them.

`seat`, `suspect` and `peak` are history no action reads: how often a seat of an
organization is taken for x and not given back, where one of the two ways around the
count was taken (see section 3), and the most an organization ever allowed. People of one
kind only, organizations stay where they are, and an organization that moves with its
own counts is left out.

### FirstIds

`row` is each Core's `sema_top_level_counter`. A request `Reads` the row and
changes it later: `Seeds` (block 0 of the original system), `GrantWrites`
(`grantTopLevelBlock`, whose own condition is `Free`), `AssignsValue`
(`issueTopLevelValue`); `RequestEnds` is a refusal or the end of Core. `holder` and
`latest` are what the operators do by hand: a block goes to one Core, and a Core
is brought a new block, or its last one again. Named assumption (`Watched`): a
block of a million values is not used up from its last value but one to its end
between a request's read of the row and its write.

### Joining

`identity` and `machines` are the rows; `process` is what the process is doing. `Starts` is
`resolveStart` with the settings as they are; `StoresIdentity` and `RecordsNode` are
`initializeIdentity`'s two writes, with an end of the process possible between. The
join server: `JoinComes` looks at the flag, `JoinRead` has read the body and sets it,
`JoinRecorded` is the one transaction that stores both records, `JoinAnswered`
closes the server and goes on to start. `SettingsEdited` may change the settings
whenever the process is down. The text and check characters of a code are not
modelled: `JoinRead` may refuse any request.

### SignedRequests

`created` holds each signed request's time, `check` the copies Core is checking: `Comes`
takes the time and compares it, `LooksUp` reads the key, `Concludes` looks into the
nonce memory (purged before, or not) and remembers. `FetchSends`, `FetchRegisters`,
`FetchSendsAgain` are `CoreClientSigning.fetch`. `Tick` moves the clock, `Restarts`
forgets the memory. Named bound: a look-up takes `MaxLookup`, less than the
clock's tolerance (5 seconds). Each signed request comes `MaxCopies` times more than it
was sent, at most. The limit at which the memory is purged is not
counted: a purge may come with any request.

### Copies

`state` and `silent` are an instance's row and whether its last check-in is ten minutes
old; `copy`, `instanceId`, `registering` and `loop` are the wrapper's process, the ID its
loops share, the call in which one is recorded, and each loop. `NextRound`,
`InstanceRecorded`, `RegisterFails`, `Asks`, `ChecksIn`, `JobEnds`, `CallFails` are a
loop's steps; `Stops`, `Stopped`, `Crashes` its ends; `SweepLists` and `SweepMarks` are
`markLost`'s select and its updates. `FallsSilent` is ten minutes passing: of an
instance in use only when all its loops are busy with jobs (`MaxLong`) or Core is
away (`MaxOutages`).

## 3. Runs

| Run | Question | Properties | Distinct states |
|---|---|---|---|
| `work_ways` | do results and statuses say what the executions did, whatever way services are chosen? | TypeOK, ResultIsTrue, SuccessIsEarned, FinishIsNoticed, FinishedIsFinal | 3.1 million |
| `work_overlap` | is an execution one copy's, does it end once, through crashes and overlaps? | SuccessHasAnswer, HeldByOne, KeepsLease (refinement of `WorkLease`) | 0.5 million |
| `work_live` | is silence noticed and every finish told, does every caller get its result, is ripe work offered again? | SilenceIsNoticed, FinishIsTold, ResultComes, RipeIsOffered (liveness) | 0.13 million |
| `work_quick_service` | may `run` write over a finished status? | FinishIsAlwaysNoticed, violated | - |
| `work_two_finishers` | may a list in order have two services at work? | OneAtATime, violated | - |
| `key_ids_issue` | can an ID or a basis come twice? | TypeOK, NoIdTwice, OneNodePerId, BasisIsFresh, NoneBeyondSwitch | 1.6 million |
| `key_ids_adopt` | can an ID be two nodes? | OneNodePerId, violated | - |
| `records` | do lists, seats, first IDs, the identity and the nonce memory stay right wherever something is cut off or overlaps? | TypeOK, NeverTooFew, KindsFit; SeatsTypeOK, NeverTooLow, NoneBeyondLimit; FirstIdsTypeOK, NoFirstIdTwice; JoiningTypeOK, OneIdentity; SignedTypeOK, ActedOnOnce, RevokedStaysRefused, RetryIsEnough | 1.1 million |
| `live` | does what went wrong come right: lists, locks, records of copies? | FindsItsWay, RefusedForGood, LocksSpread, LocksLift, UnusedIsNoticed, ComesBack (liveness); ShutdownsTypeOK, LockHasCause, CopiesTypeOK | 89 thousand |
| `tree_cycle` | can pointers come round? | NoCycle, violated | - |
| `tree_retired_away` | is a node retired while away retired for good? | RetiredForGood, violated | - |
| `copies_busy` | was every copy marked lost ended? | LostHasEnded, violated | - |

**Bounds.** Work: one command, two services (the first with two copies where
holding is the question), two or three execution rows, one or two requests of
copies and one round of the sweep at a time. Two executions are enough for every
question about one row and about a command that asks several services; three
rows let a list in order pass on, be overlapped by the sweep and pass on again.
`Executions` bounds `AddExecution`: with one request and one round at most as many
rows are added as there are, so an addition is never blocked, and no liveness
property rests on one that is. One command is enough for safety because rows of two
commands only meet in `Offer`. One crash, anywhere. In `work_ways` and `work_overlap`
no job ends for its copy (`KeptSpec`): among the actions only `Ask`, which is about
fairness, asks what a copy has in hand, and of the properties only `HeldByOne`, which
then asks more.

`work_live` has two parts, of which a behaviour is one. *In order*: one command to two
services, one after the other, with a copy each that may be silent, refuse or report
while the sweep comes round. *Two copies*: two commands to one service with two copies.
The first copy may stop, at any moment; each may leave an offer unanswered, put it off,
refuse it, or accept it and go on for ever or end its job. So the other copy takes over
work that one left, an older execution comes first, and work stays ripe when one copy
has stopped and the other keeps its job. To keep this small, the first part has no
deferral, no copy that stops and jobs that do not end, and in the second accepted work
is neither reported nor found silent, which is the first part's matter. None of these restrictions
takes away a step that fairness demands.
Key IDs: an organization, a machine whose basis is long enough
to roll up, a place for a new node and one for an adopted node; two
conversations at once, five IDs, a limit of 2 and reservations of 1 and 2, so
that the limit is met, crossed from below and jumped over, a ready basis waits,
takes over and is dropped by a roll-up. Conversations are interchangeable
(`SYMMETRY`), and no liveness is checked with symmetry.

In `records`: a tree of an organization, a department, its team and a user, with
another organization to be put in, two conversations one after the other, one
call lost or late, one node checking in, the department's machine lost for good:
enough for a removal that is cut short while a child checks in with what is left.
Two organizations, one in the other, two people, and four things in all of
conversations, failures, limits set and recounts, with at most one failure and one
limit: two recounts, of an organization and of its division, may run at once. Two Cores, three blocks of 2, 4 and 3 values, two requests at once
and no bound on how many: every block is used up and brought again. Two IDs,
three requests to join, three starts. Signed requests: two fetches at one
moment, or one fetch with a clock of four seconds, a window of one, a tolerance
of two and one copy more than was sent, so that memories expire while a copy is
being looked up. In `live`: four nodes and two operators at once with one call
lost or late; a branch of three nodes with one order to suspend, one to resume
and one call failing anywhere; a copy with two loops, two starts and one outage
or one long job. Four instances are as many as it can record. The tree in `live` is an
organization, a department, a user there and a site to be placed: where the department
is removed, its parent may hold the user. Two operators are alike, so the second starts
only while the first has calls to make (`InTurn`).

`CHECK_DEADLOCK FALSE` is set because the systems may really stop: all copies
stopped and all work done, all nodes retired, or the bound on IDs reached.

**Fairness** (`Fairness` in CapabilityWork). Assumed: a request that is being served goes
on (Node runs what is ready, PostgreSQL answers), the sweep's `setInterval` keeps
firing, `run` meets its deadline, and the wrapper of a free, ready copy asks for
work again, as its loop does. Not assumed: that a service ever accepts, answers,
says it is still working or finishes, that a job ever ends (`JobEnds` is not
fair), that an offer's time runs out before something else happens, or that a crash
does or does not come. A copy asks when it has no job in hand (`Ask`), one job at a
time; a job that ended does not keep it. `RipeIsOffered` excludes by name that an older
execution comes first (`ComesFirst`), as one copy that never answers is offered the same oldest
work for ever, and that each copy of the service is, for good, stopped or kept by a job
(`Taken`): the code prevents neither. It counts on the wrapper's accept callback
returning.

In `live`: a call that was made is answered or refused (or one of the bounded number
that are lost); every node checks in again and again, as its Core's timer makes it
(strongly fair in `ChildLists`, where a busy node waits for its own turn, which its
timer outlasts); a started notice goes on; a copy's loops go round, as its `while`
does; Core's sweep comes every 15 seconds, and ten minutes pass. Not assumed: that
an operator ever does anything, that a list is ever checked or marked complete,
or that a conversation cut short is taken up again. One thing is assumed of a service
itself: its handler returns some time (`JobEnds`), since the wrapper has no limit of its
own and a loop inside a job that never ends asks for nothing more.

**Mutants.** Each property has a mutated form of an operator beside it (comments
beginning "Fault"): a dropped condition, a missing reset, a swapped order. With it
TLC finds the property violated, so each property says something about the code.

### What the code does that its comments do not say

- `work.ts:299`: `run` writes RUNNING without looking. A service that took, did and
  reported the work since the executions were added has its finished status
  written over; nothing corrects it and the caller waits out its whole time
  (`work_quick_service`).
- `work.ts:557`: `passOn` lists the executions and adds the next in separate
  steps, and `report` follows up even when its change did not happen. A failure
  report and a sweep of the same execution both pass the command on, so two
  services work on it at once (`work_two_finishers`).
- `conversations.ts:320`: adopt-issued looks for the node on the Core it is placed
  on. The same issued ID adopted with two addresses is two nodes, which issue the
  same IDs from the same basis (`key_ids_adopt`).
- `conversations.ts:488`: removing a top node in favour of one of its own children
  sets its pointer to that child, which still points at it. Every walk up from below
  throws, so nobody below finds a living parent (`tree_cycle`). `FindsItsWay` asks nothing
  of a node whose walk up finds no living ancestor, so it does not hide the cycle and does
  not forbid it either.
- `conversations.ts:472`: removing a node hands its list on through `addChildren`, which
  keeps no retired mark. A user or machine retired "for good" while away
  (`conversations.ts:654`) that comes back after its parent was removed finds nothing that
  refuses it, follows the chain to the node that took the list and lives on
  there (`tree_retired_away`).
- `registry.ts:164`: a copy checks in by asking for work, so one whose loops are all
  busy for ten minutes is marked lost while it works and says so (`copies_busy`).

What the properties name because the code leaves it open:

- `SuccessIsEarned` says less of a command of which an execution finished before `run` had
  added them all (`outrun`, `work.ts:298`): `afterFinish` then decides on a list without
  the later ones, and the SUCCESS it decided on may be written even after RUNNING, while
  those are open and fewer succeeded than are enough. Of a command with services in order
  (`dynamic`) it says only that one execution succeeded, as the code does. `FinishIsNoticed`
  and `FinishIsTold` leave out a command with an execution that finished before RUNNING was
  written (`early`, the finding above).
- `NeverTooFew` allows a list to miss a child in four cases. A sweep (`checkChildren`)
  takes off a child that still points at a retired node, though it would follow that
  node up to this one (`conversations.ts:506`). A top node that is removed points at its
  heir before it retires. A node is retired and no living node above it is told
  (`Unannounced`): its recorded parent is retired too, so that its list and the mark of an
  incomplete one go where nobody reads them (`conversations.ts:473`; the doc, `CORE_TO_CORE.md:56`,
  only says that the mark is passed on), or the node is a user or machine, whose list nobody
  hands on. And conversations overlap, a call is done after its caller
  gave up, or a repair and a conversation change the pointer of the same node.
- `FindsItsWay` says which of these come back by checking in: every node with a living
  ancestor that may hold it. It asks nothing of a node with no living one above it, and
  nothing where the nearest one may not hold its type: `addChildren` refuses that repair
  (`local-nodes.ts:449`) as often as it is tried, so a machine issued under a site while
  the site is removed from below an organization stays an orphan until an operator moves it.
- `RefusedForGood` asks that a node which points at a living parent that marked it ends
  retired. Once the node is moved away or that parent is removed it asks nothing more:
  `RetiredForGood` goes on asking after a removal, and is the finding above. A removal done so late
  that it takes an entry with its mark needs a third conversation and is beyond the bound.
- `NeverTooLow` allows a count to be too low after a recount during which a conversation
  went on, or after a seat was given back that was not taken: `replaceLost` gives
  back the seat of a node that `retireAway` already gave back.

## 4. Theorems

`CapabilityWorkProofs` proves for any number of commands, copies, services,
requests and rounds, from the assumption on the constants alone
(`WorkAssumption`):

| Theorem | Says |
|---|---|
| `TypeCorrect` | `Spec => []TypeOK` |
| `SuccessAnswered` | an execution that says SUCCESS has its answer stored |
| `WorkHeldByOne` | work a copy accepted is that copy's until finished |
| `FinishedStays` | a finished execution is never changed again |
| `LeaseKept` | `Spec => Lease!LeaseSpec`: each step maps to a step of the promise or a stutter |
| `ResultStaysTrue` | what a result says of a finished execution stays true |
| `SuccessEarned` | a command that says SUCCESS has a successful execution; and unless it asks in order or one finished before all were added, it has as many as are enough, or all its executions have finished, possibly with fewer |
| `FinishNoticed` | when all executions of a command have finished, its status says so |

`TypeOK` is not inductive: a request that has read a row uses what it read later.
`ThreadOK` says what each request knows at each await: that it works on an
execution, that one about to store an answer reports a success, and that one
about to write SUCCESS has its answer stored. `TypeInv == TypeOK /\ ThreadOK` is
inductive. Every action is then shown to be one of a few kinds of change
(`StoreStep`: one row moves along `RowChange`, an answer is added, waiting rows are
cancelled; `HoldingMove`: what a copy comes to hold, its row names it for), and the
theorems follow from the kinds without looking at the actions again. The
refinement needs `Unborn` too (a row that does not exist names no copy), and
`ResultStaysTrue` needs `EntriesTrue` (entries once read agree with finished rows).

The last two rest on `Known`. A request decides on lists that may be old by the time
it writes the status, so `Fine` says of each request that what it is about to write is
earned *now*: what makes a status earned never comes undone (`EarnedKept`, since finished
rows stay and no row is added to a command that has done its adding, unless it is one
asked in order). And a finish is noticed because whoever finishes the last execution
(`Noticed`) is on its way through `afterFinish` and may stop only after the status
says so or another execution is added. `SuccessEarned` holds through crashes;
`FinishIsNoticed` asks nothing after one, which forgets the requests.

`KeyIdsProofs` proves for any Cores, nodes, first IDs, limits and conversations, with
`MaxIds` of any size, from the assumption on the constants (`KeyIdsAssumption`: first IDs
are all different and none lies beneath another) and from `OneAdopter`: issued
IDs are made nodes on one Core at most. The code leaves that to its operators, and
`key_ids_adopt` shows what happens without it.

| Theorem | Says |
|---|---|
| `KeyIdsTypeCorrect` | `Spec => []TypeOK` |
| `NoIdIssuedTwice` | no ID is ever issued twice |
| `IdNamesOneNode` | an ID names one node, active or retired, on any number of Cores |
| `BasisTakenUpFresh` | a node takes up only a basis nothing was ever issued from |
| `NoneIssuedBeyondSwitch` | while a ready basis waits, its limit is kept |

The counter of one node says nothing about the IDs of another, so `NoIdTwice` is
far from inductive. `IssueInv` says what keeps nodes apart: everything that may
become a basis - a ready one, a value on its way to a node, a ledger ID that is no
node yet - was itself issued, has nothing issued from it and is nobody else's
(`Fresh`, `Apart`); and every ID was issued from a known one and lies beneath a
first ID (`Ancestry`), so no new ID is a first one. The proof has three parts.
`Grows` says what any issuing does to the records, and `GrowsKeeps` what it leaves
true whoever is given the values; `ReserveKeeps` and `IssueKeeps` add where they
go. `NodesStay` covers the steps that change no record. `SetBasisKeeps`,
`SetNextBasisKeeps` and `NewNodeKeeps` cover a value that arrives: it was nobody
else's before, and the conversation that carried it is over. IDs are looked into
in the first four lemmas only; after them a basis and a number are all there is.

`ChildListsProofs` proves for any tree, any operators and any number of conversations
and lost calls (`ChildListsAssumption`: the tree at the start fits the types):

| Theorem | Says |
|---|---|
| `ListsTypesHold` | every pointer and entry names a node, every call goes to one |
| `ListsFitTypes` | no list names a child its node may not hold (`KindsFit`) |
| `ListsNeverTooFew` | no list misses a child, but in the four ways named above (`NeverTooFew`) |

`KindsFit` needs the calls that are still to come, since `retireChild` compares the
child's type with no other: `ListsInv` adds that every call in `todo` or `late` is a
`FitCall`, one whose target may hold what it brings if nobody checks it later. There
is one lemma for what a Core does with a call (`DoKeeps`), one for what follows
from an answer, and one for each group of conversations (`BeginKeeps` is what they
have in common).

`NeverTooFew` rests on the order in which a conversation makes its calls: a parent lists
a child before the child points to it, a list is handed on before its node retires. Its
invariant is `WatchedInv`: `ListsInv`, and unless something overlapped, `WatchInv`. That
says of every call still to be made that it does no harm, either as things are now or
because an earlier call of the same conversation will see to it (`Fits(k, before)`, for a
whole conversation `FitLine`); of the calls nodes make by themselves, checking in and
repairing, that they may be done as things are now (`OwnFits`). Between two calls of a
conversation the nodes act alone: `Drifts` is all that this can change, and every part
of `Fits` survives it. A call that is done discharges those that waited for it
(`Discharged`, `RestStaysFit`). Walks up the tree are least sets, not recursion:
`Way(n)` is the intersection of all sets that hold n's pointer and go on past what is
retired, and `WayIsLeast` is how the lemmas use it. TLC refuted two earlier forms of this
property on small instances (a child that checks in while its parent is being removed;
a move of a node with a repair still to come), which is how two of the four ways came to
be stated.

`ShutdownsProofs` proves for any branch and any number of orders and failures:

| Theorem | Says |
|---|---|
| `ShutdownsTypesHold` | locks, marks and counts; a node is locked exactly when it names a cause |
| `LocksHaveCauses` | a lock names an order that was given, to the node or to one above it |

`ShutdownsInv` says the same of everything that is on its way to become a lock: a
cause a check-in has read or been told, a notice, a mark, an order (`Genuine`).
Going down a list keeps a cause genuine because `SelfAndAbove` is closed under it.

`IdentityProofs` proves of `FirstIds`, for any Cores, any number and sizes of blocks and any requests,
under the hand-kept rule that a block goes to one Core and the `Watched` assumption:

| Theorem | Says |
|---|---|
| `FirstIdsTypesHold` | a row holds one block and is never used past its end |
| `FirstIdsAreFirst` | no first ID is assigned twice, and the two taken ones never |

`FirstIdsInv` says which blocks may be granted, those with no value assigned
(`Unused`), and what every request under way may find when it comes to write: a row
that is not used up, the very block it brings, or a block never used (`RequestOK`). The
arithmetic of ranges is in lemmas of its own: blocks do not overlap.

and of `Joining`, for any IDs, requests and starts:

| Theorem | Says |
|---|---|
| `JoiningTypesHold` | rows and process; no machine node but its own |
| `JoinsOnce` | one request is told it joined, and the Core is that one ever after |

`JoiningInv` adds that requests are served only while the process waits, that one
request at most has its ID recorded, and that the process goes on as what is stored.

`SignedRequestsProofs` proves for any window, tolerance, clocks, copies and requests, if a
look-up takes less than the tolerance:

| Theorem | Says |
|---|---|
| `SignedTyping` | keys, memory and checks; nothing is remembered that was not sent |
| `NoCopyIsActedOn` | a signature is acted on once at most as long as Core runs, through every purge of its memory (a restart forgets) |
| `RevokedKeysStayOut` | a request that comes after its key was revoked is not acted on |
| `TwoTriesAreEnough` | a second try is refused only if something else befell the fetch |

The strengthening (`ChecksOK`, `MemoryOK`) is about time: a copy being checked came no
more than `MaxLookup` ago and was acceptable then, so the expiry of its nonce
(`created + Window + Ahead`) has not come and no purge has dropped it.

`SeatsProofs` proves for any organizations, places and people and any number of
conversations, failures, limits and recounts (`SeatsAssumption`: people and organizations
are finite sets):

| Theorem | Says |
|---|---|
| `SeatsTyping` | counts, places and conversations; no count falls below zero |
| `CountsNeverTooLow` | an organization that is not suspect counts at least the people below it |
| `LimitsHold` | and has no more than it once allowed or a recount found |

A count is a number, and nothing about a number says whose seat is given back. The
history `seat` is therefore read as a set of tokens (`Tokens`): an organization counts at
least its tokens and allowed at least as many (`TokensCounted`), and each living person
below it has a token, and a second one where a conversation may still give one back
(`AllHeld`). Then the people below are no more than the tokens, for every way to
interleave. `TalksReady` says what a conversation holds before it changes the tree, and
`WalksSound` what a recount has counted when it was not overlapped: at least everybody
in the divisions it has asked, whose counts were not suspect when it asked. The sum over
the divisions is never formed: one division at a time is added, and the union of its
people with those counted before is no larger than the sum of the two numbers.

`CopiesProofs` proves for any loops and bounds `CopiesTyping`: the records and the copy are
of their types, and a loop works only with an instance that was recorded. What makes it
inductive is that the ID the loops share is of a recorded instance (`RecordedIds`).

Every safety invariant a passing run checks, every action property and the refinement
is stated by a theorem. Model-checked only: liveness (`SilenceIsNoticed`, `FinishIsTold`,
`ResultComes`, `RipeIsOffered`, `FindsItsWay`, `RefusedForGood`, `LocksSpread`,
`LocksLift`, `UnusedIsNoticed`, `ComesBack`), which is out of the prover's reach.

## 5. Not modelled, and why

- Base56 text, key IDs as text, schema checks and descriptions: pure functions
  without state.
- Cryptography of signatures and of install codes: a signature is good when its key is
  registered, a code is right or wrong.
- Routing, authorization, settings, the audit log, SemaCore's executions: I/O around
  the handlers, or rows that are only appended.
- The schema is declarative; its constraints are in the actions.
- Registering capabilities, services and installations: one insert under a unique key.
- An organization that moves with its own counts (`Seats`), and a tree that changes
  while it is suspended (`Shutdowns`).
- What a locked Core refuses, but for registering a key.
- Which of two stored answers of one execution is read: that rests on the database's order.

## 6. Plan

1. Done: all modules named above, their runs, and proofs of every invariant a run
   checks, of every action property and of the refinement.
2. `Seats` with divisions that move, and `Shutdowns` over the moving tree of `ChildLists`.
