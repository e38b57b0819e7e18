# fab_pcb in TLA+

fab_pcb puts a browser application on top of KiCad: a TypeScript client library
speaks KiCad's IPC protocol over several transports, a bridge server runs
`kicad-cli` processes for it, and the application edits documents optimistically
over both. This directory holds TLA+ models of the parts whose correctness
depends on the order of things, TLC runs that check them on small instances, and
TLAPS proofs that the safety properties of all nine components hold for every
instance. Paths below are relative to `src/`.

1. [The system](#the-system)
2. [The modules](#the-modules)
3. [Runs, bounds and fairness](#runs-bounds-and-fairness)
4. [What is proved](#what-is-proved)
5. [Where the code and its documentation
   disagree](#where-the-code-and-its-documentation-disagree)
6. [What is not modelled](#what-is-not-modelled)
7. [Plan](#plan)

## The system

Everything is JavaScript on an event loop: one callback runs at a time, and state
may change at every `await`. So an action of a model is the code between two
awaits, and the interleavings are those of the awaits. KiCad answers the requests
of a connection one after another; other clients and KiCad's own windows change
the document in between.

| Component | State it keeps | Operations | Talks to |
|---|---|---|---|
| `NngIpcTransport` (`packages/client/src/transport/nng-ipc.ts`) | queue, request in flight, id counter, stale ids, current connection, reconnect attempt, write backlog | `send`, `close`; dial, socket, data, drain and timeout handlers | a Unix socket of `kicad-cli`; used by every request below |
| `Commit` (`packages/client/src/model/commit.ts`) | edits queued, batch under way, `ended`, `finalizing` | `create`/`update`/`delete`, `push`, `drop`, `run`, `undo` | KiCad's open commit and undo stack |
| `CommandService` with `KicadCommitBackend` (`apps/web/src/services`) | optimistic store, pending transaction, undo and redo stacks, `replaying`; promise chain, the open commit of each store | `begin`, edits, `commit`, `drop`, `record`, `undo`, `redo` | `Commit`, the item store |
| `KicadDocumentService` with `KiCadEvents` | known and saved revision, dirty flag, event queue, poll, activity count | event handlers, poll, `afterCommit`, `resyncDocument`, `save` | event socket, `DocumentSync` |
| `DocumentSync` with the item store, inverse patches and `Document.getItemsSince` | items, revision, `loaded`, load in progress, pending inverses | `load`, `refresh`, `syncSince`, `syncIds`, `onChange` | requests, events, optimistic edits |
| Bridge `Session`, `SessionManager` (`packages/bridge/src/session.ts`) | sessions by id; state, process, transport, subscriber, clients | `create`/`start`, `stop`, `destroy`, `destroyAll`, reaper, `onExit` | `kicad-cli` processes, WebSocket clients |
| Bridge route jobs (`packages/router/src/bridge-job.ts`) | jobs by id: state, summary, listeners, abort signal; the locals of the cleanup loop | POST (start), GET (stream), DELETE (cancel), the job itself | KiCad, the routers, HTTP clients |
| `KicadAutorouteService` (`apps/web/src/services/kicad`) | `run`, `abort`, `jobId` | `start`, `cancel`, stream events, grace timer | the bridge's jobs, `KicadDocumentService` |
| `WasmTransport` with the worker's client and core (`packages/client`, `packages/kicad-wasm`) | queue, `pumping`, `dispatching`, event buffer; pending requests, `closed` | `send`, `close`, microtasks, worker messages, `shutdown`, `terminate` | KiCad's module in the same thread or in a Worker |
| `WebSocketTransport` and the bridge's websocket handlers (`packages/client/src/transport/websocket.ts`, `packages/bridge/src/server.ts`) | state, pending requests by id, `nextId`; one transport per session | `send`, `ready`, `close`, message, close and timer handlers; relay of requests and answers | many clients over one session's transport |
| Other transports, client facade, compiler jobs, WASM sessions, session and undo services of the app | see `PROJECT.json` | | planned, see below |
| Geometry, file formats, generated commands, mock services, user interface | | | no protocol of their own |

What makes each of them right, and hard:

- **NngIpcTransport**: a reply reaches the request it answers although requests
  time out, ids wrap and sockets of earlier dials still deliver events; every
  path that ends a request starts the next one or fails them all; a short write
  never mixes two frames.
- **Commit**: edits keep their order through batching; what `push`, `drop` and
  the recovery from their failures report is what KiCad did, although an answer
  may be lost after KiCad acted on the request.
- **CommandService**: the optimistic store and both stacks describe the document
  when nothing is under way; only one commit is open; nobody waits for a turn
  that is never given back.
- **KicadDocumentService**: no change of another client is missed for good when
  events are lost, the link goes down and our own calls run; "clean" means saved.
- **DocumentSync**: the store is what the revision it claims says, although
  answers, events and edits overlap; no optimistic item outlives its request.
- **Bridge sessions**: no `kicad-cli` process outlives the session that can stop
  it, however start, exit, `destroy` and the reaper interleave.
- **Route jobs and the autoroute service**: the cleanup of dangling copper
  applies, measures and undoes until nothing is rejected, so it must end, must
  not leave two commits, and must not commit once it was cancelled; what it
  reports done is saved; the application's run ends, whatever becomes of the job
  and of its stream.
- **WasmTransport**: a listener sees an event after the reply to the request that
  caused it; a module that aborts or never returns, or a worker that is ended,
  leaves no request behind.
- **WebSocket relay**: several clients share a transport that serialises, each with ids
  of its own; an answer goes to the client and the request it belongs to, and
  each request settles when a socket or KiCad is lost.

`PROJECT.json` lists the hazards behind these, each at its line.

## The modules

```
RequestChannel  <-- implemented by --  NngIpcTransport  <-- NngIpcTransport_proofs
CommitProtocol  <-- CommitProtocol_proofs
                    assumes that requests settle, as RequestChannel promises
CommandService  <-- CommandService_proofs
                    its Commit ends as CommitProtocol establishes
DocumentService <-- AppServices_proofs
                    re-reads the store as a set of revisions; DocumentSync has the items
DocumentSync    <-- DocumentSync_proofs
BridgeSessions  <-- BridgeSessions_proofs
BridgeRelay     <-- BridgeRelay_proofs
                    has RequestChannel as the transport of its session
WasmTransport   <-- WasmTransport_proofs
RouteJobs  <-- AutorouteService (its application)  <-- AppServices_proofs
MC<module>          model values and instances for TLC
```

Names are those of the code where TLA+ allows it; `PROJECT.json` maps every
definition to its lines. Definitions commented `mutation:` are faulty variants
of the definition below them and are used by no specification; replacing the
definition by its variant makes a property fail.

**RequestChannel** is the abstract promise of a transport (`transport/types.ts`):
only the oldest pending request is answered or fails on its own, each promise
settles once, closing rejects all that are pending, and a closed transport
refuses every request. It has no connection, no ids and no timers. It is used from
both sides: NngIpcTransport implements it, and BridgeRelay is built on it.

**NngIpcTransport** has one action per handler: `Send` (with the pump it calls),
`Close`, `Redial` (reconnect timer), `Established`/`ConnectError`/`ConnectTimeout`
(the three ways a dial ends), `OnHandshake`, `OnMessage`, `OnProtocolError`,
`OnDrain`, `SocketClosed`, `RequestTimeout`; `Greet`, `Serve` and `Babble` are the peer.
A frame is two pieces so that a short write can cut it. Ids count modulo
`IdSpace` and the stale set holds `StaleMax`. `ImplementsChannel` is the
refinement: the request in flight followed by the queue is RequestChannel's
sequence of pending requests, and a transport that is not closed is open.

**CommitProtocol**: `Enqueue`, the microtask that starts the flush loop, one
action per answered batch, and for each caller of `push`, `drop`, `run` or `undo` a
program counter over the awaits (`drain`, `ending`, `dropping`, `reverting`, `stack`,
`undoing`). KiCad holds the pending transaction and an undo stack; it may reject
items of a batch, fail EndCommit before or after it recorded the entry, and
execute a request whose caller has stopped waiting (`Timeout`, then `Serve`).
Another client may open a commit and push an entry.

**CommandService**: an owner is a transaction or a call of `undo()`/`redo()`. Ops
are partial functions from items to contents, so a batch, a forward or an inverse
patch is one value. `EndDrop` and `EndCommit` act on the commit filed under the
store, as `KicadCommitBackend.end` does, which need not be the owner's own. `Release`
gives the turn to the next of the chain, and only its first has one to give.
`ForwardOps` and `InverseOps` are the two patches `buildOps` makes.

**DocumentService**: what the store shows is the set of revisions whose changes
it has read. Events carry a sequence; `GapCheck` queues a forced poll in front of
the event that shows a gap. The poll, a handler that awaits a re-read, a commit, a
command and a save each are a step before and after their requests. Its `Init`, `Next` and
`Spec` have the prefix `Document`, as one module proves theorems about this service and
about the routing.

**DocumentSync**: the version of an item is the revision that wrote it, `Gone`, or
the edit that shows it. Requests go to KiCad in one order, events beside them.
`getItemsSince` is its three requests (counts, delta, full read) with the decision
made against the counts; KiCad may answer a delta request with everything.

**BridgeSessions**: a session object is one `create()` call; `call` is where create()
and start() are, `stop` where each of the two possible `stop()` calls is. Processes may exit
at any time, and `onExit` runs some time after.

**RouteJobs** has one action per awaited request of a job (`Open`, `Fill`, `Save`,
`Extract`, `Route`, `Apply`, `Drc`, `UndoTentative`, `Label`, `Relabel`, `Reapply`,
`RefillAfter`, `Resave`, `Ratsnest`, `Summarise`), each the code from its answer to the next
await; `Throw` is the catch clause, `Fail` a request that fails at any of them. Copper is
counted, not drawn: `copper` and `left` are the new and the old items DRC may still
reject. The board is its undo stack, on which anyone may push or undo (`Others`),
since `board.undo(1)` takes the newest entry whoever made it. `Exited` and `ReadSession` are
the two awaits of the kicad mode of Freerouting, between which an abort is not
looked at. Events other than the first and the last of a stream are left out.

**AutorouteService** extends it with the application: a run is a call of `start()`,
`at` where it is, and `Catch` the catch and finally clauses, which work on the fields
of the service and not on locals. `cancelRun` sends the DELETE or aborts the
controller; `GraceEnds` is the timer.

**WasmTransport**: an action is a microtask or a task, and messages of the worker
wait until no microtask is left. `Seen` is the caller's continuation after its
reply, so that `emitted` (events listeners saw) can be compared with it. The worker
handles one message after another and may be aborted or wedged by the module. `owns`
and `inWorker` are chosen in `Init`.

**BridgeRelay**: ids are 1 to `MaxId`, allocated cyclically past those pending;
requests and replies travel under them. `held` are calls that await `ready()`. A
break loses a suffix of what was on its way in each direction. `Relay` and
`TransportStep` compose the bridge's callbacks with a step of RequestChannel, one of
which may settle several requests (`Tell`: each client gets the frames of its own, in
the order of the queue).

## Runs, bounds and fairness

Each run explores all behaviours of its instance. Where one specification covers
several kinds of behaviour, a variable `mode`, chosen in `Init` and never
changed, selects items, callers and bounds, so that one run checks them all.

| Run | Instance | Properties |
|---|---|---|
| `nngipc_keep` | 3 requests, 2 connections, 2 ids of which 1 may be stale, 1 reconnect, timeouts keep the connection, whole writes | `ReplyMatches FreshId ImplementsChannel EveryRequestSettles` |
| `nngipc_reconnect` | 3 requests, 2 reconnects, timeouts reconnect, short writes | `WellFramed` |
| `nngipc_backlog` | 2 requests, no reconnect, timeouts keep the connection, short writes | `WellFramed` is violated |
| `commit_core` | 3 edits of which 2 may merge, 2 disciplined callers, 1 foreign commit, 1 timeout | `DropReverts RecoveryReverts PushedAsOne OrderKept NothingAfterDiscard` |
| `commit_live` | 3 edits, 1 careless caller; strict off, or a commit without id | `EveryCallEnds` |
| `command_core` | 2 transactions, 2 undos, 1 or 2 items, history of 1, 1 failure; one after another or overlapping | `StoreAgrees StacksMatch TurnIsFree NoOrphan CommitIsRecorded EveryCallReturns` |
| `document_core` | 4 revisions; own commits and a command with foreign changes and a save; lost events; no events; all of it with a lost link and a failed re-read | `NothingMissed CleanIsSaved QueueDrains CatchesUp` |
| `sync_core` | 2 items, 2 edits, 4 revisions; turns with failures, overlapping edits, overlapping and failing calls | `ReflectsRevision NoGhost EveryReadEnds` |
| `bridge_core` | 2 sessions of different ids, 1 client | `NoLeak NoStraySubscriber CleanedUp NoRevival EveryCallEnds` |
| `route_core` | 1 run and its job of any kind, refilling or not, up to 2 new items and 1 old one, 1 edit or undo of others, 1 failure | `Converges OneCommit CancelledUntouched DoneIsSaved EveryRunEnds` |
| `wasm_core` | 3 requests; same thread or Worker, module owned or not | `EventsAfterReply NothingStranded EveryRequestSettles` |
| `relay_core` | 3 requests of 2 clients, 2 ids, 1 restart of KiCad | `ReplyMatches NothingLost EveryRequestSettles` |

Why the bounds suffice. Two connections let events of an old socket meet the current
one. Two ids and a stale set of one make the counter wrap and the set overflow
within three requests. Three edits are the least for which merging could reorder
(`o1 o2 o3` with `o1` and `o3` mergeable). Two owners and one undo are the least
that overlap in the chain; a history of one is cut by the second commit. Four
revisions allow a foreign change before, between and after two of our own. Two
readers and an edit are the least for a load that is joined and an edit in between.
Two sessions make `destroyAll` and the reaper iterate. Two new items and an old one
let the cleanup reject copper in up to three passes, of either kind, and stop with
nothing left or with something kept; one run and one job are enough for it, as the
other client stands for other jobs on the stack, and proofs cover more. Three
requests let one be dispatched, one queued and one sent when the transport ends. Two
requests of a client with two ids wrap the counter, and a third one of another
client has the same id as one of them. Each mutation fails within these bounds.

The `TypeOK` of a module documents the types of its variables. No run checks one: it
is proved, for every value of the constants, for NngIpcTransport, CommitProtocol,
CommandService, DocumentService, DocumentSync, BridgeSessions, BridgeRelay,
WasmTransport and AutorouteService.

Bounds that cut behaviour rather than data: `MaxForeign`, `MaxTimeouts`, `MaxFail`,
`MaxFaults`, `MaxRestarts`, `MaxRev`, and the counts in the `max` of a mode (how
often events are lost, the link drops, reads fail, calls are made). All are guards
of actions of the environment or of callers, never of an answer, so no call hangs
because of one. `CHECK_DEADLOCK FALSE` everywhere: each system stops when its
callers have made their calls.

Fairness is assumed only of what the code or the runtime schedules: microtasks and
handlers run, timers that are set fire (the transport's connect and request timers,
the poll timer, the bridge's deadlines), requests are answered or failed (by KiCad
or by the transport's timeout: that assumption of the upper modules is
`EveryRequestSettles` of the lowest), a dropped link is dialed again, and a killed
process exits. No fairness is assumed of users, other clients, losses or failures.
In `route_core` the requests of a job and of the application are answered and what a
stream was sent is read; in `wasm_core` microtasks and messages run, the worker
takes its next message unless the module never returned, and `shutdown()` stops
waiting after 2 s; in `relay_core` messages and close events arrive, the connect
timer fires, and the session's transport settles what it took, which is what
`nngipc_keep` shows of it. The request timers are not among the assumptions there: a
request settles without them. Most liveness properties of the other modules have the
form "nothing is under way, again and again": as each model's callers make finitely
many calls, that says each call ends.

Restrictions the properties state. Some invariants hold only for callers that
keep to a discipline, because the code breaks them otherwise; each restriction is
written in the property and its reason is listed
[below](#where-the-code-and-its-documentation-disagree): `disciplined` and `hasId`
in CommitProtocol, `alone` and `Failing` in CommandService, `NothingSkipped` and
`count.saves = 0` in DocumentService, `Orderly` in DocumentSync, `Early = FALSE` and
distinct ids in `bridge_core`, `mixed` and `kind # "kicad"` in RouteJobs, `OwnFailure` beside
AutorouteService's `DoneIsSaved`, `~inWorker` in WasmTransport and `reused` in BridgeRelay.

## What is proved

Each `*_proofs` module states its component's theorems for every value of the constants,
from the named assumptions of the module they extend (for example `TransportAssumption`).
Where a theorem has a further hypothesis it is given below with what the code does without
it. Hardly any property is inductive as it stands; the invariants that are inductive are
named here with what they add.

`NngIpcTransport_proofs`, for any requests, connections, id space, size of the stale set,
number of reconnects and either timeout policy:

- `TypeCorrect`: `Spec => []TypeOK`;
- `NoPumpIsLost`: an open transport with a queue has a request in flight;
- `EveryPromiseAccounted`: the unsettled promises are exactly those queued or in
  flight, each once, and none after closing;
- `AlwaysDialing`: a transport that is not open is dialing, waiting to, or closed;
- `FreshIds`: the id in flight is never a stale one;
- `ImplementsRequestChannel`: every step is a step of RequestChannel or a stutter, under
  the mapping of `ImplementsChannel`;
- `RepliesMatch`: a promise is resolved by the reply to its own request;
- `FramesStayWhole`: with `OnTimeout = "reconnect"`, whole frames reach KiCad. Under
  `keep` it is false, as `nngipc_backlog` shows.

`TypeInv` adds to `TypeOK` that the request in flight has an id, without which putting
that id among the stale ones would break the types. `SafeInv` is the four invariants
after it together with `CurrentSocket` (the current connection's socket is live once
connected and dialing before, and closing for good closes): a handler keeps
`NoLostPump` only because `PendingAccounted` says what it finds in the queue. The
refinement needs both: they tell which abstract step a handler takes, and that a failing
connection rejects everything RequestChannel has pending. `ReplyInv` adds `Line`, what the
current connection carries: each piece and reply once, and a request that is no longer in
flight has a stale id, unless stale ids were forgotten. So a reply whose id matches the
request in flight is its own. `OneFrame` says that such a connection holds at most the
frame in flight, split between the wire and the backlog.

`CommitProtocol_proofs`, for any edits, merge keys, callers and bounds:

- `TypeCorrect`. `IdInv` says that whoever awaits a request that names the commit has its
  id.
- `BatchesKeepOrder`: what was sent followed by the queue is what was accepted. The
  lemma `BatchIsPrefix` says that `Split` cuts the queue in two.
- `NothingSentAfterDiscard`: the action property `NothingAfterDiscard`, from
  `DiscardInv`: a disciplined caller past its drain finds queue and batch empty, and
  one whose drop() returned has ended the commit.
- `DropsLeaveNothing`, `RecoveryLeavesNothing`, `PushedIsOneEntry`: what drop(), the
  recovery of a failed commit and push() report is what KiCad did. They rest on a chain of
  invariants: `AskInv` (a sender has one request pending at most, and an answer finds the
  sender at the wait it is for), `OrderInv` (a request that ends the commit follows all its
  edits, the ones whose callers stopped waiting included), `StackInv` (at most one entry is
  ours, and an open commit has none), `EndInv` (a confirmed end leaves nothing of the
  commit) and `PushInv` (with `strict`, an edit that resolved is in the open transaction,
  and in the entry once it was pushed).

`CommandService_proofs`, for any transactions, replays, items, contents, size of the
history and number of failures:

- `TypeCorrect`; `EntryKnown` (who replays has an entry) goes with it.
- `TurnsAreFree`: `HeldInv` (who holds a commit is the first of the chain, so there is one at
  most) and `EndInv` (one call of `end()` at a time, on a commit no longer filed).
- `NobodyIsOrphaned`, if `Failing \subseteq Tx`: an open commit has somebody who will end it,
  even when `end()` hits the commit of another transaction. (An earlier form of
  `NoOrphan` held for the two transactions of the run and not for three; the proof attempt
  showed it.)
- `StoreAgreesWithKicad`, `StacksMatchDocument`, if `Failing \subseteq Tx`, and
  `CommitsAreRecorded`: for transactions and replays one after another (`mode.alone`),
  though any number of them. `AloneInv` and `OwnInv` say that one owner is busy at most and
  that the commit filed is its own; `DataInv` says phase by phase which items of the store
  and of the document are the old and which the new ones; `StoryInv` says that the entries
  of both stacks lead, one after the other, to the document and away from it, so that popping,
  pushing and cutting the oldest entry keep the story. `StacksMatch` speaks of the newest
  entries; only a statement about all of them is inductive.

`Failing \subseteq Tx` leaves out replays that fail: nobody ends their commit
(CommandService.ts:341-346), and `NoOrphan` and `StoreAgrees` are false for them.

`DocumentSync_proofs`, for any items, edits, readers and revisions:

- `TypeCorrect`: `[]TypeOK`, of which the two parts that take an argument are that
  `loading` is up exactly while a reader is at "load", and that KiCad's revision never
  passes the bound of a mode: every edit that KiCad has not executed (`Ahead`) keeps a
  revision to itself;
- `NobodyWaitsInVain`: `[]Awaited`, each edit that is not answered is in the queue, and
  so is each re-read, or else it joined a load that is;
- `StoreReflects`: `[]ReflectsRevision`;
- `NoGhostStays`: `[]NoGhost`.

The first two have no hypothesis: callers may pass an event's revision, ids may come back,
and sets of items may be infinite. Their invariant is `CallInv`: no version is newer
than the document (`Versions`, `AnswerTypes`; the revision a load claims is the largest
of those of the calls that joined it, and `LargestOf` shows that there is one), `RoomInv`
for the revisions, `Asked` and `Loads` for who waits for whom. `Awaited` is what
`EveryReadEnds` rests on: with KiCad answering, who is in the queue is answered.

The last two are for finite sets of items, and assume `AppCallers`: no caller passes an event's revision on, which is how the
application calls `syncIds` (KicadDocumentService.ts:539 collects ids only), and an id another
client deleted does not come back. Two of the three modes of `sync_core` meet it; the
third has only calls that overlap and fail. The invariant `SyncInv` has a part for each
thing on its way to the store: `AnswerInv`, what an answer that waits says of an item that
has not changed since (`Left`: if the answer does not have it, then it is gone or it is
older than what was asked for); `CountInv`, that counts taken at the document's revision
count what is there, so that a delta that `IsFull` has every item (`FullDelta`, by
cardinalities); `FreshInv` and `EventInv`, that a deletion that comes late is of an id
nobody uses; `PendingInv`, that an edit that takes its turn can be rolled back; `GentleInv`, that
overlapping updates meet an item that is there or is created before them. The proof
showed that `Orderly` had allowed too much: see document-sync.ts:183 below.

`BridgeSessions_proofs`, for any sessions, ids and clients:

- `TypeCorrect`; `Base` adds that nothing runs before the spawn and that a `stop()` only
  caught a process that was there.
- `NoSubscriberStrays`: `SubscriberInv` adds that start() has returned.
- `NothingRevives`: the action property `NoRevival`.
- `NothingLeaks` and `EverythingCleanedUp`, if `Separate`: sessions have different ids and none
  is destroyed before its spawn, as in `bridge_core`. The code enforces neither
  (session.ts:565, :331), and both fail without. `FiledInv` says from when to when a
  session is filed, that a stop that ended has seen the process exit, and whose clients
  may be left.

`BridgeRelay_proofs`, for any clients, requests, id space and restarts:

- `TypeCorrect`;
- `RepliesMatch`: a request settles with what became of it. `OwnFrames` says that a client is
  only sent what is its own, `NoClash` that two requests of a client, one waiting and one
  with a reply under way, have different ids unless the second was given a used one
  (`reused`).
- `NothingIsLost`: `[]NothingLost`. `LossInv` is `Delivered` (a request that waits, or its
  answer, is under way, or its socket is down), `OneId` (two requests of a client that wait
  have different ids, so a frame settles the request it was sent for and no other) and
  `Greeted` (a transport is open only once its socket was up, so a frame that is sent is not
  dropped). `TellAll` says that the callbacks leave out no request that was settled, by
  counting the places of `InOrder`, and `HeldOrTold` that the session's transport keeps a
  request or tells of it.

`WasmTransport_proofs`, for any requests:

- `TypeCorrect`: `Spec => []TypeOK`;
- `EventsWait`: `[]EventsAfterReply`, which is about a module in the same thread.
  `SyncInv` gives the shape of the microtask queue: the caller's continuation, then the
  flush of the events, then a pump; so the events kept back belong to requests whose
  callers will have seen their replies.
- `NobodyIsStranded`: `[]NothingStranded`, which is about states in which nothing can happen
  by itself. `LiveInv` says of all others that something will: a pending request is in the
  queue, with the worker's client or about to settle in a microtask (`Placed`); a queue that is
  not empty has a microtask that ends in a pump, or a request with the client whose end
  schedules one (`Pumped`); the client waits for an answer on its way, for a message the worker
  has yet to take, or for the end that `shutdown()` waits for (`AllServed`), which is why
  closing does not strand anybody (`OpenRuns` says what is true before); and a request is in
  one place, once (`Once`), or settling it would leave another place that waits.

`AppServices_proofs` has two parts. Of AutorouteService with RouteJobs, for any jobs, runs, routers, amounts of copper and bounds:

- `TypeCorrect`: `Spec => []TypeOK`.
- `CleanupConverges`: `Spec => [](Converges /\ PassesBounded)`. `PassesBounded` adds to
  `Converges`, which counts the passes made and the items a later pass may still
  take, that no pass is made before the router answered; a rejection takes at least
  one item away before the pass counts up.
- `OneCommitOnly`: `Spec => [](OneCommit /\ Placed)`. `Place(j)` says, stage by
  stage, where on the stack the entry of an unmixed job is: nowhere before the apply
  and after an undo, and on top while the commit is tentative, so that `undo(1)`
  removes it. Another actor's push or undo in a tentative stage sets `mixed`; in any
  other stage it adds no entry of the job.
- `CancelledLeavesBoard`: `Spec => []CancelledUntouched`. `Stop(j)` says that a job
  with `early` set is still in a stage that looks at its signal before it applies,
  or is over.
- `DoneRunsAreSaved`: `Spec /\ [][OwnFailure]_vars => []DoneIsSaved`. `ReadyInv` says that a
  job that reports done is past its save and that nothing of it is unsaved, `ToldInv` that a
  stream says "done" only of such a job and is of the run's own job, `RunInv` that a run that
  is followed is the current one. `OwnFailure` excludes one kind of step: that the
  board of a run cannot be read again once another run is the current one.
  `DoneIsSaved` is false with it (KicadAutorouteService.ts:133, below); it takes three runs to
  see that, and `route_core` has one.

`PushEntries` and `UndoEntries` say what a push and an undo do to the entries of a
job; `AnswerFrame` and `FailFrame`, that a job changes the stack only by its own
commit and undo (`StackStep`) and moves only itself (`OnlyOf`); `JobBoard`, which
stages it goes between when it does (`BoardStep`). `JobSteps` splits `Next` into
what the jobs and the board see of it, once for these invariants.

Of DocumentService, for any modes, thus any number of revisions, of calls of our own, of
lost events, lost connections and failed re-reads:

- `DocumentTypeCorrect`: `DocumentSpec => []DocumentTypeOK`;
- `NothingIsMissed`: `DocumentSpec => []NothingMissed`;
- `CleanDocumentIsSaved`: `DocumentSpec => []CleanIsSaved`.

Both properties speak of states in which nothing is under way, so what has to be invariant is
that a revision the store has not read is still on its way there. `DocumentInv` says how,
for each of the circumstances `NothingSkipped` allows. When no event is lost (`Announced`), its
event is under way, queued or being handled, or it is our own command's and the re-read
after the command is to come. When events may be lost but no call is our own (`Checked`),
it may also be that a re-read of everything is under way that started late enough
(`Reread`); that a later event will show the gap (`ToCome`); or that the revision was asked
for and the answer will find an older one known (`Asked`), or is about to be (`ToAsk`).
Without the event socket it is the poll's alone (`Timed`). The other parts carry these:
`InOrder` that events come in the order of their revisions and that `Lost`, what was sent and
neither arrived nor is under way, is what the next gap shows; `PollsForced` that a forced
poll holds the queue, with the event that showed the gap behind it; `Latest` that the
last event on its way is of the last revision; `RereadKnown` that a poll re-reads at the
revision it noted; `CleanKnown` and `FileKept` that a clean document has `known = savedRev`, never
newer than the file. Working it out showed that `NothingSkipped` has to leave out failed
re-reads and every call of our own while the timer polls, not commits alone.

Every safety invariant the runs check is stated by a theorem, some with the hypotheses named
above. Left to TLC are the properties under fairness, since the prover does not do
liveness or ENABLED, and induction over data.

## Where the code and its documentation disagree

With a run that shows it (`findings` in `PROJECT.json`):

- `nngipc_backlog`: `writeAll` (nng-ipc.ts:382) assigns the write backlog without
  looking at what it holds; after a timeout under `keep` the next frame overwrites
  the unsent rest of the one before.

Without a run; each is why a property or an instance is restricted, and lifting
the restriction named shows it:

- `drop()` (commit.ts:169), documented at :159 to revert everything done in the
  commit, leaves the handle open for edits while it awaits KiCad; such an edit
  lands outside the transaction and stays. (`disciplined` in `DropReverts`)
- A replay that fails (CommandService.ts:341) never ends its commit nor gives back
  its turn, although apps/web/README.md:166 says that a rejected item drops the
  commit. (`Failing` with undo() and redo() among those that fail)
- A session destroyed before its spawn (session.ts:331) spawns its process
  afterwards, and no id leads to it. (`Early = TRUE`)
- commit.ts:233 checks the newest undo entry in one request and undoes in the
  next; another client's entry may be undone. (`undidOther` in `RecoveryReverts`)
- KicadCommitBackend.ts:95 ends whatever commit the store has open: dropping an
  empty transaction drops another one's commit. (`mode.alone` in `StoreAgrees`)
- CommandService.ts:311 does not record a commit that finishes while an undo
  replays. (`mode.alone` in `CommitIsRecorded`)
- KicadDocumentService.ts:621 skips the forced poll when a poll or an activity is
  under way, and nothing repeats it. (`NothingSkipped`)
- KicadDocumentService.ts:465 and :785 record a revision that covers foreign changes
  never read, while polling. (`NothingSkipped`)
- KicadDocumentService.ts:552 logs a re-read that failed and :559 takes the revision all
  the same, as :632 does before the re-read of a poll; nothing reads those changes
  again. (`count.fails = 0` in `NothingSkipped`)
- KicadDocumentService.ts:783 takes the revision after a save for the one
  saved. (`count.saves = 0` in `CleanIsSaved`)
- document-sync.ts:183 restores an item that was deleted elsewhere when an edit is
  rejected after a re-read, and document-sync.ts:163 files overlapping edits of an
  item under one key. (`mode.rejects` and `mode.foreignDeletes` in `Orderly`) A deletion
  of our own is enough: an older re-read shows the item again, the next edit of it is
  rejected, and its rollback brings it back for good. (the last conjunct of `Orderly`)
- document-sync.ts:147 applies a late deletion event to an id that came back
  (`reborn` in a mode), and :148 claims an event's revision after a lost event
  (`eventRevision` with losses).
- session.ts:565 checks an id before two awaits, :588 removes an entry by id and
  :538 destroys by id after an await. (two sessions of one id in `IdOf`)
- session.ts:344: when the spawn itself throws, clients that connected before it
  stay attached. (`Early`)
- bridge-job.ts:468 and :459 undo the newest entry of the board's stack, whoever
  made it, after an awaited DRC. (`mixed` in `OneCommit`)
- bridge-job.ts:24 says that a job cancelled before anything was applied never
  leaves a commit; in the kicad mode an abort after Freerouting exited is seen only
  when KiCad has imported the session (freerouting.ts:541). (`kind # "kicad"` in
  `CancelledUntouched`)
- bridge-job.ts:543 reports `done` before the summary's request, whose failure turns the
  job into a failed one; the application reads `done`
  from a stream opened between the two, without a summary.
- KicadAutorouteService.ts:140 clears fields that are the next run's by then, and :160
  cancels a run whose POST is under way without deleting its job. (a second run in
  `route_core`) With a third run the catch clause (:133) breaks `DoneIsSaved`: when the
  board of a run that ended cannot be read again, it marks the run that is current by then
  as failed, `start()` accepts another one, and that one shows the "done" of the one before.
  (`OwnFailure` in `DoneRunsAreSaved`)
- wasm.ts:203 says that nothing else runs while a Worker has a request; `pump()`
  does not look at `dispatching`, so requests overlap and the first reply flushes
  the events of all. (`~inWorker` in `EventsAfterReply`) The timers cover only the
  time in the queue, so a request a wedged module has waits for `close()` or
  `terminate()`.
- websocket.ts:361 skips pending ids only: after the counter wrapped, an id whose
  request timed out may be given out while its reply is under way. (`reused` in
  `ReplyMatches`)

## What is not modelled

`PROJECT.json` lists every component with its status. Left out of the modelled ones:
bytes of frames, payloads, error texts and delays; children of items, the store's
indexes and listeners; opening and closing documents, sheets and previews; log lines
and socket files; the relay of events, keepalive and status messages; WASM sessions;
the routers themselves, progress events and the path that routes in the tab; the
start of the WASM module and its file operations. Left out as a whole: pure I/O
(files, fonts), geometry and file formats, generated or declarative code, stand-ins
for development, and the user interface, none of which has state that several actors
share.

## Plan

In order of importance:

1. `StdioTransport`: the same channel over a child process (exit, kill timer,
   replies to requests that timed out), refining `RequestChannel`; then `NngWs`,
   pipelined requests over NNG.
2. `KiCadClient`: token adoption and busy retries over `RequestChannel`.
3. `UndoStacks`: `UndoStack`/`DocumentUndo` and `KicadUndoService`, the server's undo
   and the local history side by side.
4. `OwnedCommand`: process groups, exits and kill timers of the routers; the phases
   of the compile job.
5. `WasmSessions`: the bridge's worker sessions, crash and restart.
6. `AppSession`: connect, reconnect and reopening of documents, composed with
   DocumentService.

Proofs, after TLC has agreed with the strengthened invariants: the hypotheses of
`StoreReflects` and `StoreAgreesWithKicad` one by one, to see which of them can be
weaker. A new component is checked by one run of several modes like the ones above, so
that the set of runs stays small.
