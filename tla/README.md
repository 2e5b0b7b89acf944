# Bachata: formal models and proofs

Bachata is a VS Code extension that lets several AI providers work on one
repository. Several windows of a profile share its state directory, its
repositories and one browser bridge, and within a window many coroutines
interleave at every `await`. This directory holds TLA+ models of the parts in
which that concurrency is decided, the TLC configurations that check them, and
theorems that TLAPS has checked.

Paths below are relative to the repository's root; `resourceBroker.ts` without a
directory is `src/concurrency/resourceBroker.ts`, `controller.ts` is
`src/orchestrator/controller.ts`. `PROJECT.json` maps each definition to the lines
it models, each property to a bug it detects, and lists all hazards by line.

## 1. The system

### 1.1 Components

| Component | State | Operations | What makes it hard | Modelled by |
|---|---|---|---|---|
| Resource broker, `resourceBroker.ts` | SQLite tables owner, request, lease, lease item, fence, quarantine; per window `localLeases` and timers | acquire, acquireBrowserBridge, release, quarantine, confirmCleanup, clearQuarantine, heartbeat, dispose | every window runs its own transactions on one database; windows pause, die and are reclaimed by peers | `Claims`, `LeaseService`, `ResourceBroker` |
| Staleness clocks, same file | `heartbeat_at`, `lastMaintenanceAt`, `staleCleanupBlockedUntil` | maintainOwners, cleanupStaleOwners, silentButAlive | wall and monotonic clocks diverge over sleeps; pids are reused | `OwnerStaleness` |
| Workspace mutation fence, `src/state/workspaceMutationFence.ts` | one row with the writer's token; a queue per window | activate, run, dispose | the lease may be lost at any step; the fenced operation is awaited inside a transaction | `StateWriter`, `WorkspaceWriter` |
| Activation and deactivation, `src/extension.ts` | which stage a window has reached | activate, deactivate | order of lease, fence, catalog | `WorkspaceWriter` (the writer lease only) |
| State catalog, `src/state/catalog.ts` | tables; `writer_fence`; triggers | opening, mutations | the lease is asserted outside the transaction | `WorkspaceWriter` (the fence only) |
| TODO orchestrator, `src/orchestrator/` | the ledger in memory and on disk, task and integration worktrees, active-run pointer | start, the run loop, executeTask, integration and rollback, stop, resume, abandon, clean-up | coroutines share one mutable ledger; every save persists what all of them wrote; crash and resume | `TodoOrchestrator` |
| Conversation execution lease, `src/conversations/` | lease, users, top-up reservation, suspension | retain, release, acquire, suspend, continue, interrupt | acquisitions run outside the mutation queue; an interruption passes it by | `ExecutionLease` |
| Conversation runtime, `src/runtime/` | message queue, claim, recovery record, interactions | deliver, drain, interrupt, cancel, promote, resume, discard | the drain, an interrupting message and a person change one queue across awaits; writes fail; restarts | `RuntimeQueue` (the queue and its recovery) |
| Pipeline runner, `src/pipeline/` | step states, consensus checkpoints | run, resume, promote | checkpoint order | not modelled, see section 7 |
| Browser bridge, `src/browser/` | sessions, pending requests, claims on conversations | bind, release, change of binding, send, interrupt, reconnect | pages move while a request runs; late messages; requests whose end nobody confirms | `BrowserBridge` (its port's lease is in `ResourceBroker`) |
| Interaction deadlines, `src/state/deadlineScheduler.ts` | timer, running, rerun | process, wake, dispose | handled twice after an await | not modelled, see section 7 |
| Transcripts, longitudinal memory, notifications, export, adapters, processes, webview, readiness, policy | files, rows, child processes, views | | I/O and formatting behind the fence and the leases above | not modelled, see section 7 |

### 1.2 How they interact

- A window's activation acquires the lease `workspace-state-writer:<hash>` from the
  broker, activates the mutation fence with the lease's fencing token and opens the
  catalog with the same token. Files are changed inside `fence.run`, rows after an
  assertion of the lease and under triggers that compare tokens.
- The orchestrator, the conversations and the checks acquire repository, port and
  check leases from the broker and quarantine them when cleanup is uncertain.
- The orchestrator runs pipelines through the conversation manager. Its
  ledger is a file written under the fence.
- A conversation's operations (its queued messages, checklists, turns) retain one
  execution lease, which holds broker leases of local provider slots. The runtime's drain
  starts a queued message through the conversation manager, which retains that lease
  before the run begins; participants in a browser claim their conversation at the bridge
  and send their turns through it.
- Within a window everything is one JavaScript thread: what stands between two
  awaits is atomic, and a SQLite transaction is atomic between windows.

### 1.3 What makes each correct

- Broker: no key is leased beyond any capacity declared for it; grants are made in
  the order of arrival and their tokens show it; unconfirmed physical work keeps its
  key quarantined; no lease is lost to reclaiming; what dead windows leave is
  reclaimed; a window learns that it lost its lease.
- Clocks: owners on time are never reclaimed, exited ones are in the end.
- Fence: file mutations follow the order of tokens; a valid writer can write.
- Orchestrator: what was accepted survives; a stop is final; an exhausted task
  is not retried; tasks that run together do not conflict; a run ends.
- Execution lease: what is reserved is what is held or on its way; no broker lease is left
  behind; nothing joins a lease that is being closed; every operation gets its answer.
- Queue: a message is not run twice, not lost, not forgotten in an idle queue, and not run
  after it was cancelled.
- Bridge: no two turns in one conversation, also when the end of the first was never
  confirmed (unless that one moved where the bridge could not follow it); claims are consistent; a released participant keeps none; nobody waits for an
  answer that cannot come.

## 2. Modules

| Module | Content |
|---|---|
| `Claims` | resource claims, the units in use of a key; constants shared by the two broker modules |
| `LeaseService` | abstract: what a caller may rely on. Atomic grants, ends, confirmations and operator clears |
| `ResourceBroker` | the broker, one action per transaction, plus timers, dispose and crashes. `EXTENDS Claims`, implements `LeaseService` |
| `ResourceBrokerProofs` | the inductive invariant and the theorems about `ResourceBroker` |
| `OwnerStaleness` | the clocks behind the broker's judgement that an owner is stale |
| `StateWriter` | abstract: writers in the order of their tokens |
| `WorkspaceWriter` | windows, fence and catalog over a writer lease that is `INSTANCE LeaseService`; implements `StateWriter` |
| `WorkspaceWriterProofs` | the inductive invariant and the theorems about `WorkspaceWriter` |
| `TodoOrchestrator` | one run of a checklist with its crashes and resumes |
| `ExecutionLease` | the execution lease of one conversation, shared by its operations |
| `RuntimeQueue` | the message queue of one conversation, its drain and its recovery record |
| `BrowserBridge` | claims on browser conversations and the requests sent to them |
| `OwnerStalenessProofs`, `TodoOrchestratorProofs`, `ExecutionLeaseProofs`, `ExecutionLeaseBooksProofs`, `RuntimeQueueProofs`, `BrowserBridgeProofs` | for each, the inductive invariant, a lemma per action, and the theorems |
| `MC*` | constants, bounds and symmetry for TLC |

`ResourceBroker` and `WorkspaceWriter` compose through `LeaseService`: the first is
proved to implement it, the second is built on it, so the model of the writer need not
carry the broker's tables.

Definitions named `Mutant...` stand for plausible bugs. They are used by no
specification; each shows that a property can tell the code from the bug named in its
comment.

### 2.1 How the models read

**ResourceBroker.** `Owner` is one broker instance, `Call` one call of acquire.
`step[o]` says which transaction the running handler of a window makes next, so that the
pauses between `maintainOwners`, the insert, each poll and the deciding transaction are
visible; other windows act in them. `Maintain(o, include)` is the transaction of
`maintainOwners`; `include` says whether the local grace interval allows heartbeat
reclaims, and `GoSilent` that a row has become old enough. How clocks bring these
about is `OwnerStaleness`. Timeouts, aborts and failures of a waiting call are one
action, `GiveUp(c, removed)`: the request row may stay, because `removePending` gives up
after three attempts. `unclean` is a history variable: the leases whose physical
work nobody confirmed stopped.

**OwnerStaleness.** Ages instead of timestamps, capped where no comparison can tell
them apart. `Sleep` advances the wall clock and perhaps the monotonic one. The constant
`SleepInHandler` says whether the machine may fall asleep between the reading of the
clocks and the commit of the transaction. A window that keeps up (`KeepsUp`) ends up
awake, with no gap between two maintenances that is longer than `staleOwnerMs` and no jump of
its wall clock; it may go on pausing for less than that for ever.

**WorkspaceWriter.** `stage` follows activate and deactivate, `op` the head of the fence
queue, `lock` the write transaction of the fence database. `LoseLease` may happen to any
window at any time, which is what a pause longer than the broker's grace amounts to.

**TodoOrchestrator.** `task` and `run` are the ledger in memory, `disk` the ledger as
saved, `pc` where each `executeTask` stands. A save persists the whole ledger at the
moment it is requested: saves are written in order, and a window that dies
before the write behaves like one that died before the request, because the rest is
memory or rebuilt by the resume. `retained` says that `retainedLedgers` has the run's
ledger: a save of a completed run puts it there, one of any other status takes it out. It
outlives the intent to abandon, which is written past it (`Stored`), and dies with the
window; the next one fills it from the disk. A clean-up looks there first. The integration
worktree is the set of tasks whose
work it contains. `loop` is also where an abandonment or a clean-up stands, which exclude
the run loop; the next window begins with one that a crash left pending (abandoning a run in progress
stops it first, and a stop that times out quarantines the owner lease, so that it goes no
further). Status
`verifying` is merged with `waitingForResources` (both active,
no decision between them).

**ExecutionLease.** `queue` is the chain of the mutation queue, whose head runs; `pc[o]`
is how far the retain, release or suspend of operation `o` is, with one value per await.
A top-up leaves the queue while it waits for the broker, so its later half acts on the
state `exec` it was reserved on, which may no longer be the current one (`current`,
`attached`). `Lease` names a broker lease by who took it and for what; `held`, `lost` and
`stuck` are the broker's side. `as[o]` is the user id an operation retains under: a
run that suspends and continues retakes the user it suspended. `forgotten` is a history
variable: leases dropped together with a state by an interruption that timed out, or with a
user that a suspension removed.

**RuntimeQueue.** `drain.at` is where `drainQueue` awaits, `operation` the run that is in
flight, `caller` the three flows that work beside the drain: the preparation of an
interrupting message, the operation at the head of the mutation queue, and the resumption
of a workflow. Transitions of queue, claim and recovery record are written before they
change in memory, one at a time, so each is one step that may fail; what is decided before
a transition is reached is decided in an earlier step. `offers` counts how often the claim
of a message was dropped by a restart or a person, and `closed` the messages whose
checkpoint was completed or discarded. `missed` says that a call for the drain was lost
since the last claim (see 8.2).

**BrowserBridge.** Handlers run to their end without an await, so each is one step. What
the bridge sends takes its time: a request is `sent`, then runs, or is never heard of.
What the browser sends is handled at once: a message that is on its way looks like a
browser that acts later, and a lost one like a turn that ends while nobody is
connected. `KeyOf` is the claim key: an initial page is claimed by its tab and
document, a conversation with an address by its address. `claims` holds the five
structures about ownership, `pending` and `pendingBySession` the requests; `told` is what
the caller of a request has heard, `page` and `run` are the browser. A participant's
runtime does not send, bind or release while a change of its binding is open (it holds its
mutation until the change is committed or undone), which guards `Send` and `Release`. It
sends to the session that its binding resolves to (`sharedBridgeTransport.ts:269`), so never
to the initial page that a promotion has left. A request has *strayed* when it moved to an
address that the bridge did not reserve for it, because that was taken or no status had shown
it yet, and its caller knows that its end is
unconfirmed (`Strayed`).

## 3. Runs

| Run | Instance | Distinct states | Shows |
|---|---|---|---|
| `broker_agents` | 2 windows, 3 calls, one physical key with capacities 2, 2 and 1, one abstract key | 61,034 | types, capacity, token order, quarantine, refinement of `LeaseService` |
| `broker_bridge` | 2 windows, one bridge call each | 41,205 | leases stay reclaimable and held; dead windows are forgotten; lost leases are noticed (liveness) |
| `staleness` | 2 windows of a machine, two sleeps outside a maintenance | 115,996 | owners on time are kept, exited ones reclaimed once another window keeps up (liveness) |
| `staleness_sleep` | the same, sleep between clock reading and commit | violation | finding 1 |
| `writer` | 3 activations, symmetric | 55,755 | refinement of `StateWriter`, valid writers hold the fence, catalog rows in order |
| `writer_catalog` | the same | violation | finding 2 |
| `orchestrator` | 3 tasks, 2 at a time, one fault, one resume | 351,068 | accepted work is kept, the ledger is truthful, a stop is final, an abandoned run with open tasks stays abandoned, exhausted stays failed, the run ends (liveness) |
| `orchestrator_scopes` | the same without faults | violation | finding 3 |
| `orchestrator_recovery` | the same with one fault | violation | finding 4 |
| `execution_lease` | a run, a plain operation and one with a transient slot, 3 local agents, one fault | 132,536 | reservations balance, no lease is left behind or joins a closing state, retentions are answered (liveness) |
| `runtime_queue` | 2 pipeline requests, a direct one, a queue of 2, one interrupt, one act of a person, 2 faults | 736,341 | messages are not run twice, lost, forgotten, resumed while queued, or run after cancellation |
| `browser_bridge` | 2 participants, 2 tabs, 2 conversations (one exists), 2 requests, one lost connection, one page opened by a person | 408,356 | one turn per conversation unless one strayed, consistent claims, releases carried out, nobody waits in vain |

**Bounds, and why they suffice.** Calls and activations are used once, so three calls on
one key give every order of two requests that wait while one holds, and a third
that disagrees on capacity. In `broker_agents` the second window does not crash or
dispose and renews its row in time (`SecondWindowStays`); it meets a first window that may
be paused, reclaimed, continue, crash or be disposed, and the proofs cover the rest. Liveness is checked without that constraint, on the bridge
instance. `OwnerStaleness` keeps the order of the thresholds and scales them down: a unit is
five seconds, the interval and the drift limit one, `staleOwnerMs` three, the grace of a live
owner four (300 s in the code), and the machine sleeps twice for six. Pauses are not
bounded, in number or length. A sleep that is not longer than the thresholds is left out, see
8.2. In the orchestrator one failed save, stop or crash (`MaxFaults`) at
any step and one resume (`MaxResumes`) reach every pair of coroutine positions; failing
attempts, checks, integrations, rollbacks, removals and clean-ups are not bounded
by it. Three tasks give two that run together, one that waits for both, a pair
with overlapping scopes, one with a retry left and two without. Two faults are out of
reach in the time available for a regular run, since the state space grows twentyfold; two
tasks with three faults and two resumes were checked once (4.4 million states).

In `execution_lease` the run has no agent of its own, and the other two name the same
agent, so that one of their top-ups may find it reserved by the other; three agents are
one too few for all three, so that a top-up is also refused. One fault (an interruption, a
lost lease, a lease that can be neither released nor quarantined) reaches every wait of
every operation. In `runtime_queue` the queue is one shorter than the messages, so that it
is full when one may interrupt; two faults let a restart follow a failed write. It
was also checked once with two acts of a person (4.9 million states), which is too long for
a regular run. In `browser_bridge` two requests are the fewest that conflict, since the
bridge keeps one per participant and one per page; the second conversation is the one a first
turn creates. A third request meets the conversation that a strayed one still works in (8.2);
that was checked once without lost connections (590,373 states), and the theorem covers any
number. It was also checked once with two pages opened by a person (1.7 million states).

**Deadlock** is not checked anywhere: calls, activations and runs come to an end, and the
system then rightly stops. That nothing stops early is what the liveness properties say.

## 4. Fairness

- Broker (`FairSpec`): a handler that has begun runs on to its next await, unless its
  window dies (the event loop); a live window's heartbeat timer keeps firing with its own
  grace interval over infinitely often (strong fairness, because pauses may
  disable it now and then); a dead window's row grows old. Nobody must ever call,
  release or dispose.
- Clocks: time passes, and a window that runs again and again completes its
  maintenance. That an exited owner is reclaimed needs more than this fairness, and the
  property says so: some window must keep up from some time on. The code gives no less to
  assume, since every gap longer than `staleOwnerMs` renews the block on reclaims (8.2).
- Orchestrator: weak fairness of "some coroutine makes a step". Every await of
  the run loop, and of an abandonment or a clean-up, returns, since providers, checks, git commands and lock waits have
  deadlines. It does not say which coroutine moves, nor that anything succeeds, and stop,
  crash, resume and the request to abandon or clean up are not fair.
- Execution lease: every wait of an operation's handler ends (acquisitions have a deadline,
  provider clean-up and the broker's operations are bounded). Interruptions, lost leases and
  new operations are not fair.

## 5. What is proved

Each theorem below is checked by TLAPS for every value of the constants that satisfies the
named assumption of its module; the runs show the same properties on the instances of
section 3, and TLC has checked each inductive invariant of 5.1 to 5.5 on the run's instance
and on another one. The broker and the writer come first, the rest in 5.1 to 5.5.

TLAPS has checked `ResourceBrokerProofs` for any sets of windows, calls and keys and any
claims, from `ClaimsAssumption` (units and capacities are positive, a call claims
some keys) and `BrokerAssumption` (each call has an owner; the two marks for quarantine
rows are distinct from calls).

| Theorem | States |
|---|---|
| `TypeCorrect` | `[]TypeOK` |
| `CapacityHolds` | `[]CapacityRespected` |
| `TokensInOrder` | `[]TokensFollowArrival` |
| `QuarantineHolds` | `[]UncleanIsQuarantined` |
| `LeaseIsReclaimable` | `[]LeaseHasOwnerRow` |
| `NoOrphanLease` | `[]LeaseHasHolder` |
| `Refinement` | `Spec => LeaseService` |

And `WorkspaceWriterProofs`, for any set of activations, from `WriterAssumption` alone:

| Theorem | States |
|---|---|
| `WriterTypeCorrect` | `[]TypeOK` |
| `ValidWriterCanWrite` | `[]ValidWriterHoldsFence` |
| `WriterRefinement` | `Spec => StateWriter` |
| `CatalogInOrder` | `CatalogWritesInOrder` (an action property) |

The broker's inductive invariant `IndInv` is the conjunction of

- `BookInv`: a running handler belongs to its live window and to a call in the phase the
  handler implies; lease rows have holders; request rows belong to waiting or failed
  calls. Without it a step of a handler could hit a call that was settled meanwhile.
- `RequestInv`: sequences are unique, positive for queued and granted calls and bounded
  by `lastSequence`, so that a new request comes last.
- `ArrivalInv`: token order, and in addition that everything granted on a key came before
  everything still queued for it, and that no grant's token exceeds the key's counter.
  Token order alone is not inductive: a grant must be known to be later than all before.
- `QuarantineInv`: a quarantine row that names one lease covers unclean work of this
  lease only. Otherwise its confirmation could uncover another's.
- `OwnerRowInv`: an owner between its poll and its decision still has its row, or its
  request is gone. It is the reason why a window paused in that gap cannot create a lease
  under a row a peer has deleted.
- `CapacityInv`: capacity, and that units in use are finitely many, which the
  arithmetic of cardinalities needs.

`StepKinds` sorts the twenty-one actions into seven kinds, so that most lemmas have three
to seven cases instead of twenty-one; `BookStep`, `TypeStep` and `OwnerRowStep` go
through all actions. `UsedShrinks` and `UsedGrows` say how the sum of units
changes. `ServiceStep` maps each kind to a step of `LeaseService` or a stutter.

The writer's inductive invariant is `TypeOK` and

- `LeaseInv`: at most one lease is live and it has the newest token; all tokens differ.
  This is what the lease service's promises amount to for one key of one unit, and all
  that the rest uses of it.
- `FenceInv`: who holds the fence's lock knows the row. A row never has the token of a
  window that has not activated yet, and a window that has compared the row with its token
  still finds it smaller when it writes. Without it the comparison would be stale when
  used.
- `CatalogInv`: a window that has asserted its lease and still finds its token in
  `writer_fence` is not behind any row written since. It is why the check outside the
  transaction is enough for the order of rows, although finding 2 shows that
  `writer_fence` itself may go back.

`LeaseSteps` shows that only the beginning of an activation touches tokens.

### 5.1 Owner staleness

`OwnerStalenessProofs`, for any windows, hosts, thresholds and sleeps that satisfy
`StalenessAssumption`.

| Theorem | States |
|---|---|
| `StalenessTypeCorrect` | `[]TypeOK` |
| `PunctualOwnersAreKept` | `PunctualWindows /\ Spec => PromptOwnersAreKept` |

`PunctualWindows` is what the promise needs of the constants: no sleep between the clock
readings and the commit (finding 1 is what happens otherwise), a heartbeat and a wait for the
lock fit within `staleOwnerMs`, and so do two waits (2 s + 5 s and 10 s, of 15 s, in
`resourceBroker.ts:364-366` and `state/sqlite.ts:49`), and every sleep is longer than
`staleOwnerMs` and the drift limit (4 s), so that every window notices it. The constants of
the run satisfy it. The invariant (`RowsOK`) says of each punctual window that it will renew
its row before that is stale, or else every other window has yet to notice the sleep or
stays blocked for longer than the first one needs.

### 5.2 TODO orchestrator

`TodoOrchestratorProofs`, for any tasks, dependencies, scopes, priorities, retries and
numbers of failed saves, faults and resumes, from `OrchestratorAssumption`.

| Theorem | States |
|---|---|
| `OrchestratorInvariant` | `[](IInv /\ RetainedOK)` |
| `TodoTypeCorrect` | `[]TypeOK` |
| `AcceptedStaysAccepted` | `[]AcceptedIsKept` |
| `LedgerIsTruthful` | `[]LedgerTellsTheTruth` |
| `StopHolds` | `StopIsFinal` (an action property) |
| `ExhaustedIsFinal` | `ExhaustedStaysFailed` (an action property) |

The invariant relates three ledgers: memory, disk and the work in the integration tree.

- `SectionOK`: one task at a time is between its marker and its acceptance or rollback.
- `StageOK`: the record of a task at each await of its operation.
- `MemoryOK` and `DiskOK` are one formula, `LedgerOK`, about a ledger and the number of
  acceptances that no rollback can take back: confirmed work is done and in the tree, and in
  every rollback marker that names as many acceptances. For memory this number is the one noted when the
  integration was entered, while a task holds it; that is why a count that has been put back
  too early does not lose confirmed work. Once every save succeeded, done work is confirmed.
- `TreesOK`: the integration tree has the confirmed work and nothing that was never done or
  marked; markers and the section's tree name work that no rollback under way can remove.
- `DependsOK`, `FailedOK`, `StatusOK`, `ControlOK`: dependencies are confirmed before a task
  starts; memory knows every failure on disk; what the persisted status says of the branch.
- `RetainedOK`: a completed run is retained, and a retained one has every task done, in
  memory and on disk, whatever the disk says of the run meanwhile. It rests on `IInv`.

`StopHolds` says that a stopped run accepts nothing and begins no attempt, and that a run
whose abandonment is on disk leaves it only by a clean-up that finds it retained. By
`RetainedOK` all its tasks are done then, so no open task is ever taken up again.

`RestoresConfirmed` is the argument about a resume: whatever point it restores lies between
what was confirmed and what the ledger calls done. `refreshReadiness` and
`selectRunnableTasks` are recursive functions over the order of the tasks; `LeastOf` (a
nonempty set of numbers has a least element) is stated of sets, so the provers can use it for
the two inductions over that order. Every step lemma proves the invariant and both action properties.

### 5.3 Execution lease

`ExecutionLeaseProofs`, for any operations, runs, agents, slots and faults, from
`ExecutionAssumption`.

| Theorem | States |
|---|---|
| `LeaseInvariant` | `[]IInv` |
| `LeaseTypeCorrect` | `[]TypeOK` |
| `NoLeaseIsLeftBehind` | `[]NoLeaseLeftBehind` |
| `ClosingIsFinal` | `[]NothingJoinsAClosingLease` |
| `LastOneCloses` | `[]NothingIsKept` |
| `BooksAreBalanced` (in `ExecutionLeaseBooksProofs`) | `[]ReservationsBalance` |

`HeadOK` says that who waits inside a mutation is the head of the queue, so two such waits
never overlap; `UsersOK` and `RunsOK` that a user was retained before it is known and that
only one run at a time acts under another user; `StageOK` what the state is while a retention
or a top-up is under way. `LeasesOK` gives each held lease its place: the state, its closing,
or the one operation that has it in hand (`OwnLeases`). `KeptOK` is the reason why the last
release finds that it is the last.

`BooksAreBalanced` rests on `LeaseInvariant` and an invariant of its own, `BooksOK`, of a state that
is current and not being closed: the pending users are exactly those of the top-ups that
were reserved on this state and have not come to an end (`PendingOK`), and a user has one share at
a time, pending, held or giving up its slots (`SharesOK`), also when a run retains again
under the user of a suspended lease. The reserved units are a set, each agent or slot with
its user, so a user that enters or leaves changes their number by its own (`UnitsCounted`),
and no induction over sums is needed; that this number never exceeds what is reserved shows
that the subtraction is never cut off at 0.

### 5.4 Message queue

`RuntimeQueueProofs`, for any messages, queue lengths, interrupts, personal actions and
faults, from `QueueAssumption`.

| Theorem | States |
|---|---|
| `QueueTypeCorrect` | `[]TypeOK` |
| `ClaimsNameQueued` | `[]ClaimNamesQueued` |
| `PreservedWorkIsKept` | `[]NothingVanishes` |
| `RunsOncePerOffer` | `[]StartedOncePerOffer` |
| `ResumedLeftTheQueue` | `[]ResumedIsNotQueued` |
| `QueueAtRestIsEmpty` | `[]NoMessageForgotten` |
| `CancelledStaysOut` | `CancelledNeverStarts` (an action property) |

The queue holds a message once (`QueueOK`, with three lemmas about sequences:
`RemovalFromQueue`, `AdditionToQueue`, `HeadOfQueue`). `RunOK`, `DrainOK` and `CallersOK` say
what each of the drain, the run and the three flows beside it still knows of claim and
checkpoint after its awaits. `StartsOK` strengthens the count of starts by cases: a message
that waits, or that the drain has taken but not started, has one start less than it may
have, and if its claim was dropped meanwhile, that drop was counted. `CallsOK` says that a
queue that needs the drain has somebody who is about to call it.

### 5.5 Browser bridge

`BrowserBridgeProofs`, for any participants, tabs, conversations, requests, moves and lost
connections, from `BridgeAssumption`.

| Theorem | States |
|---|---|
| `BridgeTypeCorrect` | `[]TypeOK` |
| `OneTurnPerConversation` | `[]OneRequestPerConversation` |
| `ClaimsStayConsistent` | `[]ClaimsAgree` |
| `ReleasesAreCarriedOut` | `[]ReleasedOwnersLetGo` |
| `NobodyIsLeftWaiting` | `[]NobodyWaitsInVain` |

`SessionsAgree` makes `pendingBySession` and `pending` two views of one relation;
`RequestsKeepClaims` says that a pending request's participant holds the page it was sent to
and the address it moved to, which `ClaimsAgree` alone does not give; `RunsOK` and `MovesOK`
relate the browser to it: a request at work is pending, and an address that a first turn
created is held by its request, or is unknown to every participant, or its request has
strayed. With that, two requests at work in one place would both hold its key. The attempt to
prove this without `Strayed` is what showed the exception (8.2).

## 6. What is only model-checked

- Liveness (`DeadOwnersAreForgotten`, `LostLeaseIsNoticed`, `ExitedOwnersAreReclaimed`,
  `RunEnds`, `RetentionsAreAnswered`): liveness under fairness is beyond this prover.
- The violations of the findings.

## 7. Not modelled, and why

- Orchestrator: self-improvement (discovery, review and revision cycles),
  apply of retained runs, the owner lease (a lease of the broker), other commit modes than the default no-commit
  mode, the Master's startup, checklist parsing and file scopes. A Master check
  is one step with its three outcomes.
- Execution lease: disposal of the conversation, and the deferred retention of a run that is
  resumed from its record.
- Runtime: pipeline steps and gates, a blocked queue (`blockedReason`), `queue.update`,
  deliveries that bypass the queue, task reset, disposal, interactions and their
  deadlines (`deadlineScheduler.ts`), two interrupting messages at once. The pipeline
  runner's steps and consensus rounds are transitions over one record that the runtime
  persists; what an interrupted run leaves is in `RuntimeQueue` as a checkpoint.
- Bridge: pairing and authentication, asset transfers and reveals, opening and recovering
  pages, the generic provider and ChatGPT's local route, closing, the turn protocol of
  `managedTurn.ts`, transports shared between windows. The published status "ready" is
  taken as true, and a person opens pages only in tabs where nothing runs.
- Catalog tables, migrations, transcripts, longitudinal memory: single transactions
  or append-only files behind the fence.
- Provider adapters, process trees, webview, export, readiness, localization: I/O,
  formatting and external programs.
- The broker's database is assumed to execute transactions atomically and to keep
  what it committed, as SQLite does.

## 8. Findings

### 8.1 Disagreements with the documentation

1. **A sleep inside a maintenance** (`staleness_sleep`, `resourceBroker.ts:522`). The grace
   after a timing gap is computed from clocks read before the wait for the write lock.
   If the machine sleeps in that wait, punctual windows are reclaimed, although
   `docs/CONCURRENCY.md:21` and `:42` promise a grace period.
2. **The catalog's token goes back** (`writer_catalog`, `src/state/catalog.ts:899`). Opening
   the catalog replaces `writer_fence` without another look at the lease. A window that
   was paused puts back its older token, and the triggers then reject the valid writer.
3. **Conflicting tasks run together** (`orchestrator_scopes`, `controller.ts:1983`). A task
   about to be retried is `pending` during two awaits of its own operation; the scheduler
   may start a conflicting task of an earlier rank in that window.
4. **A resume behind accepted work** (`orchestrator_recovery`, `controller.ts:1875`). After a
   failed save the count of acceptances is put back before the status is; a sibling's
   save in between persists an accepted task with the lower count, and the order
   check of the resume lets an older rollback marker through.

### 8.2 Seen while modelling

These behaviours are in the models, and no line of the repository says otherwise; each is
why a property has an exception or a variable exists.

- Execution lease: a run suspends whichever sole user holds the lease, also another
  operation's, and takes that share back under the other's name; nobody then releases it
  (`NothingIsKept` excepts it). A suspension that removes the users forgets their transient
  leases, and an interruption that times out forgets one that is committed in between
  (`forgotten`). An interruption aborts only the acquisition registered last. A
  top-up that names an agent another pending top-up has reserved commits without a slot for it.
- Queue: a call for the drain can be lost, because `pauseQueueSafely` decides on a queue it
  read before its transition, and because a mutation that fails schedules no drain
  (`missed`). An interrupt does not see an executor that still prepares (lease,
  preflight), so the message it supersedes may still run. An interrupting
  message can supersede itself when a person resumes the queue meanwhile. The drain's
  failure pause may come after the interrupt and leave its message waiting. Adopting a
  checkpoint releases the claim even if another message holds it. A direct message
  that is accepted and then refused by its recipients leaves the queue as completed, and so
  does a message whose run a person stops during its preflight, without having started
  (`createRuntime.ts:7737-7750`).
- Clocks: the grace after a sleep is as long as `staleOwnerMs`, and is measured by time. A
  second sleep that is not longer than that is no gap to the windows, but it uses up
  the grace of the first one, and a window that would have renewed its row within it is
  reclaimed (lengths 4 and 7 with a threshold of 4 show it). Pauses or sleeps longer than
  `staleOwnerMs` that never end postpone the reclaim of an exited owner for ever, because each
  renews the block (`resourceBroker.ts:514-523`): with windows that merely run again and
  again in place of `KeepsUp`, TLC shows a window that is paused every time past the threshold.
- Bridge: a status reserves a new address for whichever request shows it. If a
  person opens the conversation that one request has just created in the tab of another
  request, before its status is handled, the other one wins the reservation
  (`bridgeServer.ts:1047-1060`); the first is settled as unconfirmed, and when the other ends, the conversation
  is free for a third request although the first may still work in it (`Strayed`).
- Bridge: a response whose promotion is refused ends its request, an interruption whose
  promotion is refused leaves it reserved. A promotion is forgotten only by a release or a
  commit, so a participant that sends from the same initial tab again would bind its earlier
  address, while the request runs on a page it has not claimed; those with a saved binding never
  do, and `Send` excludes it. A request whose end the
  browser forgets keeps its conversation until the bridge is closed. `releaseBinding` during
  a change of the binding is ignored.

- Orchestrator: neither abandon nor a clean-up claims the start-up, so a resume or a start
  of the same window may come in between. It finds the owner lease "already held", and its
  `finally` then releases it for the operation that holds it (`controller.ts:3616`).
  A run whose pointer could not be removed may be cleaned up and is then not refused as
  `cleanupPending` by a resume, only by its missing branch (`AcceptedIsKept` excepts it).
  A stop after the last save of a completed run leaves it `stopping` without a pointer, which
  can then be neither resumed nor cleaned up.
- Orchestrator: `abandon` writes "abandoning" with `store.save` (`controller.ts:3703`) and
  drops the run from `retainedLedgers` only at 3723. If a step in between fails, a
  clean-up in the same window finds the completed ledger there (3741) and replaces
  "abandoning" by `cleanupPending`, although its error text (3743) speaks of
  completed runs only, and a resume refuses only the former. Every task is done then, so
  nothing runs again (`StopIsFinal` excepts it).

## 9. Plan

1. Done: every module of section 2, and theorems about every component.
2. Every invariant that a run checks has its theorem. Left to state and to prove: a
   refinement between `ExecutionLease` and the part of `LeaseService` that it uses.
3. `TodoOrchestrator`: self-improvement cycles. `RuntimeQueue`: interactions
   and their deadlines, disposal. `BrowserBridge`: closing and shared transports.
