# Verification of gRIBIgo

gRIBIgo is a reference implementation of the gRIBI protocol: clients stream
operations to a server (`Modify`), which programs a RIB, answers each operation,
arbitrates which client is the master, and lets anybody read (`Get`) or empty
(`Flush`) the RIB. This directory holds TLA+ models of its core, the TLC
configurations that check them, and theorems proved with TLAPS.

- [The system](#the-system)
- [Plan](#plan)
- [The RIB](#the-rib-ribtables-naiverib-rib)
- [Calls on one RIB at the same time](#calls-on-one-rib-at-the-same-time-ribcallers)
- [The server](#the-server-server)
- [The client](#the-client-sendqueue-client-fluent)
- [The reconciler](#the-reconciler-reconcile)
- [Proofs](#proofs)
- [What the code does otherwise than it says](#what-the-code-does-otherwise-than-it-says)
- [What is not modelled](#what-is-not-modelled)
- [Running the checks](#running-the-checks)

## The system

| Component (source) | State | Operations | Modules |
|---|---|---|---|
| RIB tables, references, resolution (`rib/rib.go`) | tables per network instance, `refCounts`, `pendingEntries` | `AddEntry`, `DeleteEntry`, `Flush`, `AddNetworkInstance` | `RibTables`, `NaiveRib`, `Rib`, `MCRib`, `RibProofs`, `RibSafetyProofs` |
| RIB locks and concurrent callers (`rib/rib.go`, `server/server.go`) | `nrMu`, `RIBHolder.mu` of each instance | the same and `RIBContents`, called at the same time | `RibCallers`, `MCRibCallers`, `RibCallersProofs` |
| Reading the RIB (`rib/rib.go`, `server/server.go`) | `msgCh`, `errCh`, `doneCh`, `stopCh`, a read lock | `Get`, `doGet`, `GetRIB` | `RibCallers` |
| RIB hooks (`rib/rib.go`, `rib/helpers.go`) | `postChangeHook`, `resolvedEntryHook` | called from additions and deletions | the copy of the RIB they get, in `RibCallers` |
| Session parameters and elections (`server/server.go`) | `cs`, `curElecID`, `curMaster` | `checkParams`, `updateParams`, `runElection`, `checkElectionForModify`, `checkFlushRequest` | `Server`, `MCServer`, `ServerProofs`; `checkFlushRequest` in `RibCallers` |
| Goroutines of a Modify stream (`server/server.go`) | `resultChan`, `errCh`, `resultDone`, `gotmsg` | `Modify`, `doModify`, `modifyEntry`, `deleteClient` | the same |
| Client queues (`client/gribiclient.go`) | `sendq`, `pendq`, `resultq`, `modifyCh`, `sending`, `shut`, `sendExitCh` | `Q`, `StartSending`, `StopSending`, `AwaitConverged`, `AckResult`, `Connect`, `Reset`, `Close` | `SendQueue`, `Client`, `MCClient`, `ClientProofs`, `ClientSafetyProofs` |
| Fluent API (`fluent/fluent.go`) | `opCount`, `currentElectionID` | `Start`, `StartSending`, `Stop`, `Await`, `AddEntry`, `UpdateElectionID` | `Fluent`, `MCFluent`, `FluentProofs` |
| Reconciler (`rib/reconciler`) | none between rounds | `Reconcile`, `diff` | `Reconcile`, `MCReconcile`, `ReconcileProofs` |
| Result checks, compliance tests | lists of results | assertions | no |
| Device, commands, demo, generated code | none of their own | start-up, flags, I/O, accessors | no |

How they interact. Every `Modify` RPC is a session with three goroutines. The
receiver reads a message and handles it: parameters and election ids go through
`Server.cs` and the election fields, which all sessions share, and operations
go one by one to `modifyEntry`, which checks the election and calls the RIB.
Responses go over the unbuffered `resultChan` to the sender, errors over the
unbuffered `errCh` to the handler, which ends the RPC at the first. The RIB
keeps an operation whose references are missing in `pendingEntries` and tries
it again, from inside the call that installs another operation, of whichever
client. It calls hooks on the caller's goroutine or on a new one. A client has
queues of its own between the caller and the stream, and a sender and a receiver.
The fluent API drives one client from one goroutine. The reconciler reads a target
through `Get`, compares it with the RIB that is intended and returns operations,
in an order its caller has to keep, which reach the target through `Modify`.

What is hard, and what makes each part correct:

- **RIB.** Groups and next-hops are protected by counters adjusted at every
  change, across network instances, instead of by a walk over the tables:
  the counters must be exact. `AddEntry` calls itself for every pending
  operation and a Go map is walked in any order: it must return, install nothing
  twice, lose nothing, and leave nothing behind that could be installed. A flush
  ignores the counters.
- **Sessions.** Sessions negotiate parameters at the same time, and each check
  and each write takes the lock on its own: connected clients must end up with
  the same parameters. A receiver outlives its RPC for a while: it must not
  put back the state that `deleteClient` removed.
- **Elections.** `runElection` writes two fields with the *read* lock held, so
  elections tear them and `getElection` reads them torn: the master must be a
  client that asked to be, an operation must carry an id of its own client,
  and only a client that was the master while its message was handled may
  program.
- **Streams.** Three goroutines meet on channels without buffers and each may
  leave first: none may be stuck while the RPC lives, and every operation must
  be answered.
- **Callers of the RIB.** An entry is looked up, checked, merged and counted
  with the lock taken anew each time; a `Flush` keeps the locks of all the instances it
  has emptied; a `Get` keeps one while somebody reads the stream; `copyRIBs` keeps
  `nrMu` and takes the others. Calls must not wait for each other in a circle, and
  what a `Get` reads must be of one moment.
- **Client.** `Q` looks at `sending` and appends to `sendq` later, while
  `StartSending` hands `sendq` over: nothing may be left behind or overtake the
  session parameters. Acknowledgements come in any order, and a client is
  converged only when all are there.
- **Reconciler.** Its copy of the target is old when the operations are
  sent. A round must not refer to what is not there yet nor break what stays, and
  rounds must converge whatever others do in between.

`hazards` in `PROJECT.json` lists each at its line, with the properties about it.

## Plan

Done: all the components above that have a module, with their runs; and for each of them
its type invariant and its safety properties as theorems, as [Proofs](#proofs) says.
Left, in order of importance:

1. The retries of pending operations by several callers at once, that is,
   `Rib` and `RibCallers` in one module; `pendMu`.
2. Conversions: labels cut to 32 bits, groups that list an index twice.

Eight modules hold theorems, one or two for each component.

## The RIB (RibTables, NaiveRib, Rib)

`RibTables` declares the network instances, the keys and the operations, and the
tables: `entries` (IPv4, IPv6 and MPLS, which the code treats alike but for
their validity checks), `groups`, `hops` and `known` (which instances exist).
Prefixes, labels and indices are members of small sets; `valid` says whether
the protobuf of an operation converts at all. `Fatal`, `CanResolve` and
`Installable` are `checkFn`/`canResolve` and what `AddXXX` checks before: an
operation is `Installable` when it is not in error and its references are there.

`Rib` is the code:

| Model | Code |
|---|---|
| `entries`, `groups`, `hops`, `known` | `RIBHolder.r` of each `niRIB`, and its keys |
| `nhgRefs`, `nhRefs` | `RIBHolder.refCounts` |
| `pending` | `RIB.pendingEntries`, by operation id |
| `frames` | the stack of running calls of `addEntryInternal`, each with the part of `getPending()` it has not tried |
| `oks`, `fails` | the results the call returns; `installStack` is the ids of `oks` |
| `AddEntry`, `Skip`, `Fail`, `Defer`, `Install…`, `Return` | `AddEntry` and one attempt of `addEntryInternal` each |
| `DeleteIPv4` … `DeleteFails` | `DeleteEntry` with `DeleteXXX` and `canDelete` |
| `Flush`, `FlushSome` | `RIB.Flush` as the server calls it |
| `AddNetworkInstance` | `RIB.AddNetworkInstance` |

`NaiveRib` has the tables only. An entry goes in when what it refers to is there,
a group or next-hop comes out when no entry refers to it, decided by walking the
tables, which is what the comment of `canDelete` says the counters stand in for.
`Rib` is checked, and proved, to implement it: `AddEntry`, `Skip`, `Fail`, `Defer`
and `Return` stutter, each `Install…` is a `Put`, each deletion a `Remove`.

Properties of `Rib`:

- `RefCountsExact`: every counter is the number of entries that refer to the
  group or next-hop, at every step of the recursion.
- `GroupsResolved`: a group never loses a next-hop.
- `DanglingOnlyByFlush`: only a flush takes away a group that is in use. (What a flush
  leaves so is exempted: the property is about the counters.)
- `NoneResolvableLeft`: between calls, no pending operation could be installed.
- `AckedOnce`: no operation is installed twice by a call or left pending after.
- `PendingUntilInstalled`: waiting operations are not forgotten. The ids of operations
  differ in this run, as those of one client do; what operations of two clients
  with one id do to each other is not modelled.
- `AddEntryAccounts` (liveness): the recursion ends, and the operation is
  installed, failed or pending.
- `ImplementsNaiveRib` (refinement).

| Run | Instance | States | Shows |
|---|---|---|---|
| `rib_cross_instance` | two instances, a prefix in each that uses the other's group, REPLACE to the own group, all deletions and flushes | 25 246 | all safety properties and the refinement |
| `rib_replace` | groups replaced, shared next-hops, backups, labels, malformed operations | 20 770 | counters under replacement; `AddEntryAccounts` |

The runs have forward references enabled, the default of the code; the
theorems hold for both values of `DisableForwardReferences`.

Bounds. Two network instances are enough for a reference to leave its instance
and for one to be flushed under the other. One group and one next-hop per
instance reach counters of two (two prefixes on one group); the second run has
two of each, for the sharing of next-hops and for backups. The operations
of each run are one of each kind that matters, and each may be submitted any
number of times: nothing else is bounded, so the runs cover every history of
these operations. `OpIDs` are as many as the operations.

Fairness: `WF_vars(addEntryInternal)`. A goroutine inside `AddEntry` waits for
nothing but mutexes that are always released, and is scheduled until it returns. No
operation need ever be submitted.

## Calls on one RIB at the same time (RibCallers)

`Rib` has one caller. `RibCallers` has several, at the grain of the locks, on
a RIB cut down to what is shared: one prefix in each network instance, groups without
next-hops, no forward references.

| Model | Code |
|---|---|
| `niRIB`, `top`, `groups`, `refCounts` | `RIB.niRIB`, the tables and the counters of each instance |
| `nrMu` | the callers that keep `RIB.nrMu` read-locked; a caller at `"Lock nrMu"` waits to write-lock it, and no reader gets in |
| `readers`, `writer` | `RIBHolder.mu` of each instance, with the same preference for writers |
| `lookup`, `exists`, `retrieve`, `check`, `nhgReferenced`, `callLock`, `merge`, `dec`, `inc` | `AddEntry` and `DeleteEntry`: `NetworkInstanceRIB`, `ipv4Exists`, the `orig` that is read next and may be gone by then, `canResolve` or `canDelete` and the counter it looks at, `Lock`, `doAddXXX` or `doDeleteXXX`, and `handleReferences`, each with the locks it takes |
| `copyRIBs`, `copy` | the copy for `callResolvedEntryHook`, and `RIBContents` |
| `checkFlushRequest`, `readHalf`, `compare` | `checkFlushRequest`: the halves of `curElecID` (`existing`) are read with no lock, in either order, since Go fixes none |
| `networkInstances`, `left` | the instances a `Flush` was called with, and those it or a `Get` or a copy has still to do |
| `flushInstances` … `flushGroups` | `Flush` of the server and `RIB.Flush`, which unlocks all instances when it returns |
| `doGet`, `GetRIB`, `nextEntry`, `writeMsgCh`, `writeErrCh`, `writeDoneCh` | the goroutine of a `Get`; `server` is the goroutine of the RPC, which reads its channels and writes to the stream |
| `AddNetworkInstance`, `elect` | the same name; the elections of module `Server` |

Properties:

- `GetConsistent`: what a `Get` has sent of an instance is there as long as it is at it.
- `FlushEmpties`: what a `Flush` has emptied stays empty until it has emptied the rest
  of the instances it was called with, which only an instance that stays locked does. (One that
  `AddNetworkInstance` adds meanwhile is not among them.) The mutant unlocks each instance
  when the next one is locked.
- `CallsReturn` (liveness): every call returns. What it exempts is what the
  code does not get right: a `Get` whose stream breaks, or that has an error, leaves its
  goroutine at a channel nobody reads (neither side of `stopCh` waits for the
  other, so it never stops anything), and if that is `msgCh` the instance stays
  read-locked and every writer of it waits for ever; and a new instance, a `Flush`
  and a copy can wait for each other in a circle, when `AddNetworkInstance` waits
  for `nrMu` between `copyRIBs`, which has it, and the `Flush`, which asks for
  it again with the lock of the instance that `copyRIBs` waits for. Two
  `Flush` of all instances never wait for each other, because `KnownNetworkInstances`
  is sorted; the mutant of `CallsReturn` takes the order away. A `Flush` that names an
  instance twice would wait for itself; the server never makes one (it passes one name, or each
  of its instances), and the model has none.

A reader may get in until a writer has called `Lock`, so a call that is done with its checks (`"merging"`,
`"locking"`) does not keep readers out yet; `callLock` is the moment from which it does.

No property is stated of the id that `checkFlushRequest` compares. Its comment wants one that is equal to or
higher than the elected one (server.go:1136-1138). The code does not see to it: the halves are read without
`elecMu`, and when the high half of (low 5, high 0) is read and then the low half of (low 3, high 1), a
`Flush` with (3, 0) is let through, below either. Nor do ids only rise (`isNewMaster`).

| Run | Instance | States | Shows |
|---|---|---|---|
| `rib_callers` | two callers, four calls out of all kinds, a second instance that may be added, two elections whose halves go in opposite directions, a hook, streams that break | 208 576 | all of the above |
| `rib_callers_counts` | additions, deletions and a flush | | the finding below |

Bounds: `MaxCalls = 4` calls in all. A circle needs two calls for each caller at
most (one in each, after one that leaves an entry or a broken `Get`), and
three calls of one caller and one of another, or two and two, are all tried. One group is enough
for its counter to reach two. Fairness is strong, for each caller: a goroutine that
waits for a Go mutex gets it in turn (the runtime hands a mutex to a waiter that
starves), though others may take it in between. Deadlock is not checked, since the calls
are bounded and the circles above are real.

## The server (Server)

| Model | Code |
|---|---|
| `cs` | `Server.cs`; `Absent` is a client that is not in the map |
| `curElecID`, `curMaster` | the fields of that name |
| `rpc` | what the handler does: `open` until it reads `errCh`, `closing` until `deleteClient`, `ended` |
| `at`, `in`, `ops`, `gotmsg`, `elec`, `todo` | the receiver: the critical section it enters next, the message, the operations left, `gotmsg`, its `electionDetails`, and the election fields it has still to read or write |
| `out` | the value the receiver is writing to `resultChan` or `errCh`, and where it goes on |
| `sender` | the sender: in its `select`, in `ms.Send`, writing to `errCh`, returned |
| `rib`, `waiting` | the operations given to the RIB that were installed, or are pending |
| `answered`, `presented`, `ruled` | history, for the properties |

One action is one critical section: `checkClientsConsistent`, `setClientParams`,
`updateParams`, `getClientStateCopy`, `storeClientElectionID` and `deleteClient`
take `csMu` each on their own. The election fields are protected by nothing,
since every access holds the read lock: they are read and written one by one,
in either order. A channel without a buffer is a rendezvous: the writer
is at `"resultChan"` or `"errCh"` until `TakeResult` or `TakeErr`. After `TakeErr`
nobody reads `errCh`, and the sender may still take results while the `select`
prefers them to `resultDone`. `RecvFails` is an end of stream, a broken stream
and a cancelled one alike: gRPC ends `Recv` when the handler has returned.

The RIB is abstracted to three outcomes: an operation is installed, waits, or
fails; an ADD or REPLACE that is installed may take with it any operations that
wait (`S`) and report others as failed (`F`). `Rib` says which. The ids of
operations are taken to be distinct here.

Properties:

- `ParamsAgree`: connected clients that negotiated have equal parameters.
- `ParamsFixed`: the parameters of a session never change once set.
- `NoOrphanState`: no state for a client that was deleted.
- `ElectionsPresented`: the master presented some id, the current id was presented
  by some client, and an operation given to the RIB carries an id its client
  presented.
- `MasterWhenHandled`: an operation reaches the RIB only if its client was the
  master at some moment since `doModify` began with its message.
- `Progress` (liveness): a receiver finishes its message, or its RPC ends.
- `OperationsAccounted` (liveness): an operation is answered, or waits in the RIB,
  or its RPC ends.

| Run | Instance | States | Shows |
|---|---|---|---|
| `server_handshake` | 2 sessions, 2 messages each, three kinds of parameters and every kind of bad message | 237 452 | `TypeOK`, `ParamsAgree`, `NoOrphanState`, `ParamsFixed` |
| `server_election` | 2 sessions, 3 messages each, two ids, messages of two operations | 2 059 218 | `ElectionsPresented`, `MasterWhenHandled` |
| `server_outcomes` | 1 session, 3 messages, operations that end in every way | 1 422 | `Progress`, `OperationsAccounted` |
| `server_election_torn` | 2 sessions that elect at once | | the finding below |

Bounds. `MaxMessages` bounds the messages of a session: three are the shortest
history that programs (parameters, election, operations), two the shortest
with a second handshake. Two sessions are enough for any pair of handshakes or
elections to interleave; the liveness run has one session, because sessions block
each other on nothing but `csMu` and `elecMu`, which no critical section keeps.
`MaxOps = 2` lets a message have an operation after a
fatal one. The proofs have no such bounds but the constants themselves.
Deadlock is not checked: sessions end, and the receiver of an ended one stays
blocked on a channel, as in the code.

Fairness: weak fairness of each session's receiver while it handles a message
(`Handle`), of its sender and of its handler: goroutines that can run are
scheduled. Messages and broken streams are not fair (`Receive`), and neither
are new sessions. `Sender` being fair includes that `ms.Send` returns, that is,
that the client reads its stream or the stream breaks.

A consequence of `checkClientsConsistent` worth knowing: a client that is
connected and has not sent parameters counts as having the default ones, which
no supported parameters equal. Two clients that connect at the same time can
therefore both be refused; this is also what makes `ParamsAgree` true,
as the proof shows.

## The client (SendQueue, Client, Fluent)

| Model | Code |
|---|---|
| `sending`, `shut`, `sendq`, `pendOps`, `pendElection`, `pendParams`, `resultq`, `sendErr`, `readErr` | the fields of `clientQs` and `Client`; the pending operations are kept by id there too |
| `modifyCh`, `chClosed`, `sendExitCh`, `doneCh` | the channels; `chIsClosed` takes the value it finds, as in the code |
| `sendMu`, `pc` at `"write"`, `"Lock"`, `"locked"`, `"ack"` | `sendMu`; readers and writers of `awaiting`; a reader of `resultMu` that goes on to write |
| `Q`, `record`, `checkSending`, `appendSendq`, `q`, `writeModifyCh` | `Q`, `handleModifyRequest`, the look at `sending`, and `q`, each a step, since others run in between |
| `StartSending`, `drain`, `drained`, `StopSending` | the same; the first two enqueue what opens a session through `Q` |
| `AwaitConverged`, `checkContext`, `lockAwaiting`, `checkConverged` | one turn of the loop of `AwaitConverged` |
| `senderLoops` … `senderExits`, `receive…` | the goroutines that `Connect` starts, with `handleModifyResponse`, `clearPendingOp` and the closing of the channels |
| `Reset`, `Close`, `cleared` | `disconnect`, the wait for both goroutines, and the new queues |
| `server…`, `connectionBreaks` | external: a server that answers every request, in any order that the protocol allows, and a connection that ends in any way |

`SendQueue` is what the queues promise: requests are held, or go in order; what opens
the session goes before what was held; what is going may be lost, all of it, at any moment: there is no
connection in `SendQueue`, so that `Lose` is not tied to one, and the refinement does not say when a
request may be lost (`NothingLost` does). With one
caller `Client` implements it. With several it does not, and promises less: `Q`
may find the client sending and overtake what `StartSending` is handing over.

`Fluent` adds what `fluent.go` keeps across clients: the counter of operations and
the current election id. An entry may be built with an election id of its own (`WithElectionID`), which
`entriesToModifyRequest` keeps (fluent.go:503); it writes the current id into the others, and `stamped`
records what it wrote. One goroutine uses it (it holds the `testing.TB`), and a call that
fails ends the test, so `Fluent` has no failing calls. Its instance has the choice, once
and for all, between the client itself and the API over it, so that one run checks both.

Properties:

- `ImplementsSendQueue` (refinement): requests leave once and in order, through
  stops, resets and reconnections.
- `ParamsFirst`: the first message of every stream has the session parameters.
- `AwaitReturns` (liveness): with one caller `AwaitConverged` returns once the client sends.
- `ConvergedMeansSettled`: a client that finds itself converged was told the outcome of
  every operation enqueued, from the FIB if it asked for that.
- `NothingLost`: while the stream is open and no error was recorded, a pending operation is
  in a queue, on the stream or in the server.
- `NoPanic`: among callers that leave the client alone while one of them connects, resets or closes
  it, nobody writes to a closed `modifyCh`, and it is closed a second time only when a client whose last
  `Connect` failed is closed twice (`CloseAgain`: `sendExitCh` is then still that of the connection before, which nobody
  closed). The other panic is the one of `AckResult` on a nil result, which the receiver appends for an
  unknown operation.
- `StampedAsAnnounced`: an operation on a stream into which the fluent API wrote the election id has the one
  that was announced there last, however long it was queued, if the client takes part in an election. An entry with
  an id of its own has that one, announced or not: `TestNewElectionIDNoUpdateRejected`
  (compliance/election.go:391-416) sends such entries, and the property does not speak of them.

| Run | Instance | States | Shows |
|---|---|---|---|
| `client_single` | one goroutine, one operation, two election ids, the client or the fluent API | 492 482 | `ParamsFirst`, `StampedAsAnnounced`, `ImplementsSendQueue`, `AwaitReturns` |
| `client_shared` | two goroutines, an operation each, FIB acknowledgements, one response that answers nothing, a server that may end the RPC | 2 031 467 | `ConvergedMeansSettled`, `NothingLost`, `NoPanic` |
| `client_await_context` | two goroutines, contexts that end | | the finding below |

Bounds. `MaxCalls` bounds the calls of `Q` and `StartSending` between two resets (3 and 2);
resets are not bounded. Three are a request before, a start, and one while sending. `ModifyBuffer`
is 1, so that a full channel is met at once (100 in the code). `MaxStrays` bounds the
responses that answer nothing. The two callers of `client_shared` are alike, and
its properties are invariants, so symmetry is sound.

Environment. `Undisturbed`: nobody uses a client while it is reset or closed, and
`Connect`, `Reset` and `Close` are called by one goroutine with no other in a call
(`Alone`). The code has no lock for it, and the package's callers do so. It matters: a `Q` that runs while
`Reset` or `Close` closes `modifyCh` would write to a closed channel, which `NoPanic` does not speak of. An id may be
enqueued again only while it is pending, which the client itself detects.

Left out of `Client`: a `Connect` on a client whose stream is still open, which gribiclient.go:402-403 allows (there would be two
senders on one `modifyCh`, so `ParamsFirst`, `ImplementsSendQueue` and the rest are about a `Connect` that is the first, or
comes after a `Reset` or a failed one); the option `TreatRIBACKAsCompletedInFIBACKMode` of `clearPendingOp`
(gribiclient.go:1058-1068), which is off by default; and what others might see between the lock sections of `addPendingOp` for
the operations of one message, which are one step.

Fairness is strong for each caller inside a call, the sender and the receiver (scheduled
goroutines, and mutexes that are handed over in turn), and weak for the server's answers,
and for its closing the stream after `CloseSend`. Nobody need call anything, and a connection need not break.

What these models show besides:

- `StampedAsAnnounced` exempts a fluent client that was started again after `UpdateElectionID`:
  `Start` makes a client with the id given at first, and announces it, but operations go on with
  the updated one, and the server refuses them. It exempts a client with no id too:
  `UpdateElectionID` announces one for it (fluent.go:466), and `entriesToModifyRequest` writes
  none into its operations (fluent.go:503).
- A client that is stopped and started on the same stream sends its parameters again, which the server
  takes for an error (`StartSending`, gribiclient.go:919).
- The election of `pendq` is one slot: a second announcement before the answer to the first is
  answered as one, and the second answer is an error result (`SessionResult`).
- A server that ends the RPC without an error while operations are pending leaves a client
  that never converges and has no error (`receiveEnd`); `Graceful` is therefore false where
  `AwaitReturns` is checked.
- `AckResult` writes back what it read with only the read lock held: two of them at once may bring back what
  the other acknowledged. Nothing the comments promise is violated, since results are matched by content.

## The reconciler (Reconcile)

`Reconcile` extends `Rib`: the target of the reconciler is that module, with its
recursion, its counters and its pending operations, and the operations of a round
are calls of `AddEntry` and `DeleteEntry`.

| Model | Code |
|---|---|
| `intended`, `copy`, `ops` | the two RIBs that `Reconcile` gets from its sources, and the `ReconcileOps` it returns |
| `Reconcile`, `GetRIB`, `Compare`, `GetFails` | `R.Reconcile` with `rib.FromGetResponses`: the target is read instance by instance, and compared afterwards |
| `Removed`, `Changed`, `Added`, `diff`, `filed`, `explicit` | `diff` and the fields it files an operation under; `explicit` is `explicitReplace`, which `Reconcile` passes as nil: `ExplicitReplace` is empty in the run, and any in the proofs |
| `Send`, `Order`, `Done` | the caller: the order in which the comment of `ReconcileOps` says to send |
| `StartServer`, `Program`, `Intend` | the server's instances; another client that programs and flushes; an application that changes its mind |

Properties:

- `NothingRefused`: in a round that nobody disturbs, every operation can be done when its
  turn comes. Sorting by kind is enough for that.
- `MakeBeforeBreak`: in such a round an entry that is and will be in the target is there
  throughout, and stays resolved if it was.
- `RoundReconciles`: at the end of such a round the target is what was intended.
- `Converges` (liveness): once nobody changes anything, the target becomes and stays what is
  intended, whatever happened in the middle of rounds, and whatever another client left waiting.

The last two are about instances that both RIBs have. `diff` walks the instances
of the intended RIB only: entries of others stay, and may keep a group of the default
instance in use whose deletion is then refused (`Covered` in `NothingRefused`). It does
not look at what an entry refers to either: an intended prefix whose group is in an instance that the
target does not have is sent, and refused (`Referable`; the intention `Across` of the run has one).

| Run | Instance | States | Shows |
|---|---|---|---|
| `reconcile` | a VRF whose prefix uses groups of the default instance, six intentions, one of them with a reference that leaves what the target has, another client with three operations and every flush | 17 177 | all of the above |

Bounds: `MaxChanges = 2` changes by anyone else, at any moments: one in a round
and one in the next, or both in one. Rounds are not bounded. Fairness is weak, for the
caller that goes on reconciling (`Round`) and for the call that runs in the target (`Serve`).
This run checks deadlock. The ids of operations are distinct by construction; in the code `diff` adds
to the shared counter and loads it in two steps (reconcile.go:278), so two reconcilers with one
counter may use an id twice.

## Proofs

All theorems hold for every value of the constants that satisfies the named
assumptions, which TLC evaluates in every run:

| Assumption | What it says |
|---|---|
| `RibTables`' own, `ForwardReferencesAssumption` | operations have the fields of their table, names differ |
| `ServerAssumption` | supported parameters are not the default ones |
| `RibCallersAssumption` | calls have the fields of their kind, `"all"` and `"none"` are no instances |
| `ClientAssumption` | requests are well-formed, and session parameters accompany an election id or FIB acknowledgements, as `handleParams` sees to |
| `FluentAssumption` | one caller, finitely many ids |
| `ReconcileAssumption`, `OperationsAssumption` | what is intended is itself a RIB (`Resolved`), and `Ops` has the operations that make its entries |

Three theorems have a hypothesis besides, or a condition in the property: `PendingKeptCorrect` that no
two operations have one id, `StampedCorrect` that the client has an id and was not started again after
an update, `NothingRefusedCorrect` that the round is undisturbed, `Covered` and `Referable`. Each is needed: the code has
a behaviour without it that refutes the property (see below).

Every safety property and action property of a passing run is a theorem.

### The RIB

`RibProofs`:
- `TypeCorrect`. `TypeOK` is inductive as it stands.
- `CountsCorrect`. `TypeOK /\ RefCountsExact` is inductive. Each
  step writes at most one cell of a table (`Writes`), so the set of referrers of a
  group gains or loses at most one element (`CountPut`), and the counters are
  adjusted by the same one; `Monus` never cuts, because a counter is at least the
  number it releases. A flush releases all referrers of the flushed instances at once.

`RibSafetyProofs`:
- `NothingLeft`, `AckedCorrect`. `NoneResolvableLeft` speaks of
  idle states only. Its strengthening `CallInv` says, while a call runs, that
  every pending operation that could be installed is still to be tried in some
  frame (`ToBeRetried`), that frames hold only additions, that an operation is
  pending under its own id, and that what was installed is not pending. An
  installation pushes a frame with everything that is pending, so it may make
  anything installable; every other step makes nothing installable.
  `AckedOnce` needs only that an attempt is made of ids that are not in `oks`.
- `PendingKeptCorrect`. What leaves `pending` leaves it under its own id when an operation with
  that id is installed, and with distinct ids this is the operation itself.
- `GroupsCorrect`, `ImplementsNaive`, `DanglingCorrect`. With
  exact counters, "the counter is zero" is "nothing refers to it": `canDelete`
  refuses exactly what the naive walk would refuse, which gives the refinement
  step by step, and the two properties with it.

### Calls on one RIB

`RibCallersProofs`: `CallersTypeCorrect`, `GetConsistentCorrect`, `FlushEmptiesCorrect`. One invariant, `Safe`, serves all. `Typed` says what call can be at what place.
`Holding` says which locks the place of a call implies: one that clears an instance has its write lock, one
that reads entries is among its readers, and only a `Flush` keeps a write lock from
step to step. `Exclusive` is what the locks give: no readers where there is a writer.
From these, an addition or deletion, which finds the instance neither read nor written
at its merge, disturbs neither what a `Get` has sent (`Sent`) nor what a `Flush` has emptied (`Emptied`):
that a `Flush` still has the lock of each instance it is done with is part of `Emptied`, not of `FlushEmpties`.
`Known`, the instances in order, is a recursive function; what it returns is
proved by an induction over the lengths that is written out as one over a set of naturals
(`NatSetInduction`, from a well-founded relation), which needs no operator as a parameter.

### The server

`ServerProofs`:
- `ServerTypeCorrect`. `TypeOK` is not inductive: what `in` holds
  depends on `at`, and the messages left on there being one. `Types /\ Placed` adds
  what is true of a receiver at each place.
- `ParamsAgreeCorrect`. The lock is released between the check and the write, so
  two clients could both pass the check first. They do not: supported
  parameters differ from the default ones, so a client that passes saw every
  other one already set, and one that is between its check and its write still
  has the default ones and makes the check of any other fail. `ParamsInv` states
  it: `DefaultAtFirst` (before its write a client has the default parameters),
  `Checked` (a client between check and write agrees with all others), `Stored`
  and `OneComparing` (no two are between the two at once).
- `ParamsFixedCorrect`. A client whose parameters are set has `gotmsg` (`Marked`), and then
  `checkParams` lets none of its messages through to where parameters are written.
- `NoOrphanCorrect`: an ended session is not in `cs`, and no action but `Modify`
  puts a client there.
- `ElectionsCorrect`, `MasterCorrect`. `ElectionInv` relates what receivers hold
  to the history: the operations of a receiver are its own (`OwnOps`), a
  receiver that read itself as the master was the master since it began
  (`Ruling`), and the ids held by receivers and in the fields are ids that
  clients presented (`FromClients`). Torn fields do no harm to either
  property, because the id of an operation is compared with the
  client's own last one too.

### The client

`ClientProofs`: `ClientTypeCorrect`. `Types /\ Held` is inductive: `Held` says who has a
request to go on with, which is what the type of a queue's tail and of what is sent depends on.

`ClientSafetyProofs`, for any number of callers that share a client:
- `ConvergedCorrect`. `SettledInv`: what was asked for is pending or settled, and a
  result on its way that takes an operation out of `pendq` is a final one. The condition of
  `clearPendingOp` is compared with what is final for the caller (`FinalDequeues`), and
  this is all that is needed of the callers and the locks.
- `NothingLostCorrect`. `NothingLost` is not inductive: it counts every queue, and some of them
  are about to be dropped. `PendingIsOutstanding` does not count `sendq` while a caller hands it over,
  since `drained` empties it, nor an acknowledgement of the RIB when the one of the FIB is
  asked for. It needs to know that `q` drops a request only with an error recorded
  (`SenderStays`: on an open stream the sender only leaves with one), that a caller that takes
  a request or `sendq` had nothing in hand (`InCall`), that nobody hands anything over
  before the client is connected or during a reset (`NotConnected`, `AloneInReset`), and
  that the sender has no request when it takes one (`SenderHolds`).
- `NoPanicCorrect`. `modifyCh` is closed only by a reset or close, when its caller is alone (`ClosedInReset`),
  so nobody writes to it. A second close of it panics unless the sender closed `sendExitCh` as it left
  (`SenderLeaves`: a client that was connected has or had a sender; without one, after a `Connect` that failed,
  the repeated `Close` is the one the property names). What is left is the nil result, which the receiver records for an
  answer to what is not pending. `Calm` says that while no error was recorded and the server only answered,
  of whatever settles an operation there is one at most, counted over all queues, callers,
  goroutines, the stream and the server (`Lone`): so each answer finds its operation
  pending. `Late` is why an acknowledgement by the RIB that comes after that of the FIB is no exception.

`FluentProofs`, for one caller that uses the client itself or through the fluent API:
- `FluentTypeCorrect`. A step of `Fluent` is one of the client, an enqueued request of the API's own, or
  the new client of `Start` (`ClientStep`), so what is known of the client carries over.
- `ImplementsQueueCorrect`. The mapping takes for `going` what the sender has, `modifyCh`, what
  the caller hands over and, once it has begun to, `sendq`; nothing of it goes once the sender has
  left. Handing a request on from one to the next is a stutter, by associativity of
  concatenation (`PassedOn`). `Orderly` says where the caller is: `sendMu` is its own only while it has started to
  send, it hands one request over at a time otherwise (`Handing`), and nothing is in `modifyCh` before the
  client is connected (`Unused`). Each step is one of `SendQueue` or a stutter (`ClientQueueStep`).
- `ParamsFirstCorrect`. It is shown of the steps of `SendQueue`, with the two facts they do not tell: a
  request is enqueued there only while `sending`, and `sending` begins with `Start`. So something is sent or going as
  soon as the client sends, and its head, which is that of `Opening`, has the parameters (`Led`).
- `StampedCorrect`. The invariant is about the whole line of requests, from what was sent to what the
  caller has just been given (`Fresh`): `Line(a, s, e, f, top)` says that, after `a`, `s` announces `e` last and that each
  operation in `s` is numbered, up to `top`, and has, if it is in the domain of `f`, that of the operations built without an
  id of their own, the id announced last before it. Lines are extended
  by a request (`LineAppend`), joined (`LineConcat`) and cut (`StampsPrefix`), and new numbers are none of theirs
  (`StampsKept`). Until the client sends, what is held is a line that begins with the id of the connection; from
  then on what is sent and going is one that begins with none (`Booked`). They meet in `StartSending`: `Opening` announces
  the id of the connection, what was held comes behind it, and nothing was sent or enqueued between, since the API connects
  and starts to send in one call (`Modes`). Every step either leaves the line as it was (`PassStep`, `GiveStep`), loses it, or
  adds a request at its end (`AskBooks`).

### The reconciler

`ReconcileProofs`: `RoundTypeCorrect`, `NothingRefusedCorrect`, `RoundReconcilesCorrect`,
`MakeBeforeBreakCorrect`. A step of a round is one of `Rib` or leaves the target alone (`RoundIsNext`), so that
its invariants hold of the target. `RoundInv` adds, of a round that nobody disturbs: while it reads, that
what it has read is what the target has (`Getting`); while it sends, for each key of an instance that
both have, that the target has what it had or what is intended there, and which of the two
is told by whether its operation is left (`AsPlanned`); that nothing is pending; and that only
what dangled before dangles (`Sending`). The order of `ReconcileOps` comes in as `DueOrder`: when an
addition of a kind is due, those of the kinds it refers to are sent, and when a deletion is
due, so are all additions, replacements and deletions of what could refer to it. Hence `Installable`
and not `InUse`, by cases of the kind.

### Only model-checked

- Liveness (`AddEntryAccounts`, `Progress`, `OperationsAccounted`, `CallsReturn`, `AwaitReturns`, `Converges`):
  liveness under fairness is beyond the prover.

## What the code does otherwise than it says

Three runs in which TLC finds a property violated; `findings` in
`PROJECT.json` quotes the lines.

| Run | What happens |
|---|---|
| `server_election_torn` | Two elections at once leave the id of one client with the name of the other; no client can program until the next election. |
| `client_await_context` | `StartSending` has `sendMu` and waits for `awaiting`; `AwaitConverged` has `awaiting` and waits for `sendMu`. The end of the context does not end it. |
| `rib_callers_counts` | An entry that is added again while a flush removes it is installed without its group being counted, which can then be deleted. |

More that the models have as the code does it, and that no run singles out:

- A flush of one network instance removes a group that a prefix of another uses,
  whatever its counter (`Flush`, rib.go:2437; rib.go:190-192 says the counters prevent it).
  `DanglingOnlyByFlush` says that nothing else does.
- A pending REPLACE whose entry was deleted fails when it is retried and stays pending: it is
  reported again by each later installation (`Fail`, rib.go:551).
- A flush of an instance with two groups that share a backup flushes everything and reports
  an error (`BackupErrors`, rib.go:2504).
- `isNewMaster` compares the low halves whatever the high ones are: (0,1) replaces (1,0)
  (`isNewMaster`, server.go:670; compliance/election.go:542-544 expects otherwise).
- A former master goes on programming the operations of a message after the response to
  the election of the new one was sent, since the election is read once per message (server.go:795).
- An operation with an empty network instance name is answered twice (`EmptyNI`, server.go:802).
- `pendingEntries` is keyed by an id that clients choose, so with equal ids one operation
  overwrites another or is forgotten with it (`Defer`, `Installed`;
  `PendingUntilInstalled` holds, and is proved, of ids that differ).
- The operations that follow a fatal one in a message are still programmed (`NotAllowed`,
  `Unsupported` go on at `"operations"`).
- The result of an operation that waits is sent to the client whose operation resolves it (`Programmed`).
- `doGet` goes on after it has reported an unsupported table (`writeErrCh`).

## What is not modelled

- Pending operations with several callers: `Rib` has one caller at a time (`doModify` runs the
  operations of a message one by one and says it relies on a single primary), and `RibCallers`
  has no forward references and no `pendMu`. What is left of `NoneResolvableLeft` when two
  recursions interleave is open (point 1 of the plan).
- A RIB with its check function disabled (`DisableRIBCheckFn`), which counts
  references to entries that may not exist; a group that lists an index twice; a
  resolved hook that fails in the middle of `AddEntry`; a copy that fails, after which
  `copyRIBs` leaves an instance read-locked.
- What hooks do: they belong to the application, and change nothing in the RIB.
- Contents of prefixes, labels, next-hops, encapsulation: they are values.
- In `Server`, `RIB_PROGRAMMED` and `FIB_PROGRAMMED` of one operation are one
  result, and `curMaster`, a string of two words, is written in one step.
- `Server`, `Rib` and `Client` in one module. They meet in protocol messages, each against
  an environment that does what the others may do (`Programmed` in `Server`, the server in
  `Client`, the target in `Reconcile`); the product is out of TLC's reach.
- Of the client, `Dial`, `Get` and `Flush` (single calls that keep no state), and the copies
  that `Pending`, `Results` and `Status` return; of the fluent API the builders of entries,
  which are protobufs, and `Enqueue`, which is `Q`.
- The result checks and the compliance tests are users of the system, not parts of it; their
  expectations are quoted where the code differs. The device and the commands are start-up code.
- `aft/oc.go`, `ocrt/oc.go` and `proto/result/result.pb.go`: 34 463 of the implementation's lines, generated
  from YANG and protobuf definitions. They are types and accessors, no control.

## Running the checks

    tlc -config MCRib.cfg MCRib          # and each .cfg with its module
    tlapm RibSafetyProofs.tla            # and each *Proofs module; those it extends are proved on their own

`PROJECT.json` lists the runs, the hazards, the theorems, the lines each
definition models, and for every property of a passing run a mutant: an operator
in the module, marked "Faulty", that breaks the property when it takes the place
of the definition it is a variation of.
