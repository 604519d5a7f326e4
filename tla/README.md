# Formal model of BlackHoleMemory

TLA+ modules, TLC runs and TLAPS proofs about the concurrent core of
BlackHoleMemory. The first half decides whether a memory is kept and found
again: the SQLite authority, its transactional outbox, the worker that projects
the outbox to Qdrant, and the automatic recovery of events that failed. The
second half is what feeds the memory and lets clients in: the durable queue of
editor hooks with its workers, the admission of MCP sessions, and the index of
the source repository.

Paths below are relative to `src/blackholememory/` unless they start with
`scripts/`, `docs/` or `tests/`.

## 1. The system

| Part | State it keeps | Operations | Hard because of |
|---|---|---|---|
| Memory repository (`memory_repository*.py`, `domain.py`) | tables `memories`, `memory_revisions`, `memory_outbox` in one SQLite file | `save_memory`, `save_memories_atomic`, `tombstone_project`, bulk transactions | compare-and-swap by revision only; event deduplication by payload |
| Memory service and lifecycle service (`memory_service.py`, `sync_service.py`) | none | `upsert_records`, `tombstone`, `restore_tombstone` | state read before the transaction and used in it |
| Write handlers (`app_core_memory_write.py`, `memory_routes_write.py`, `app_ops_entity.py`, `app_ops_admin.py`, `app_ops_task_helpers.py`) | request-local records | remember, update, upsert, archive, restore, forget, undo, rewrites of all records | up to ten concurrent writers, read-modify-write cycles, a lifecycle that travels as metadata |
| Outbox (`memory_repository_records.py`, `outbox.py`) | per row: status, attempts, claim token, claimed_at, available_at | append, claim, acknowledge, fail, defer | leases that lapse under living workers, crashes, outages |
| Projector (`qdrant_projector.py`, `vector_routing.py`) | the points in Qdrant | `run_once`, `projection_matches`, `project_memory` | several remote calls per event, none transactional |
| Worker and sidecar (`projection_worker.py`, `scripts/run-bhm-projection-*`) | a batch in memory, a controller generation | poll, restart | restarts, two workers at once |
| Automatic recovery (`projection_auto_requeue.py`), operator's requeue (`scripts/requeue-bhm-dead-letters.py`) | a JSON file with counters | one pass per five minutes | two stores written one after the other |
| Retention (`sqlite_retention.py`) | none | delete old completed rows | which event survives |
| Hook queue (`hook_queue.py`, `app_hooks.py`, `app_lifecycle_hooks.py`) | tables `hook_jobs`, `hook_job_tombstones`; worker tasks, heartbeats and a drain flag in the service | submit, claim, renew, complete, fail, recover, expire | leases by owner name, heartbeats that fail, drains that time out, retries that charge attempts |
| MCP sessions (`mcp_streamable_http*.py`) | slots, a FIFO of admission tickets, idle deadlines | initialize, tool calls, touch, transport loss, release, snapshot | timeouts that race admissions, sessions that come back, lazy expiry |
| Repository index (`repository_index*.py`) | jobs, file rows, snapshots, the current pointer | probe, begin or resume, save a batch, publish, fail, promote, dispose of stale jobs | the tree changes while it is read, several callers share one durable job |
| Not modelled yet | resource governor, governed consolidation, context tiers, generation binding, reconciliation, code graph and its deferred builds, pulse bus | | two-phase switches, detached tasks |
| Not to be modelled | local model jobs (nothing in the repository claims them) | | |
| Not to be modelled | retrieval and ranking, access checks, evaluation receipts, launchers, user interface, plugins | | pure I/O, numeric scoring, or stateless |

How they interact: a request handler reads a memory through the service, drafts
a new record outside any transaction and saves it; the save replaces the row
and appends an outbox event in one transaction. The sidecar process claims due
events under a lease, re-reads the memory of each event from the authority,
brings its Qdrant points in line and records a verdict in a transaction per
event. A thread of the same process requeues dead letters. Nothing else is
shared between the API and the sidecar than the SQLite file.

Editor hooks reach the API as requests that only insert a row in the hook
queue's own SQLite file; worker tasks of the same process execute them. MCP
clients reach it through an ASGI handler that asks the session registry for a
slot before it hands an initialize request to the SDK, and tells it about the
session's later requests after the SDK has answered them. The index is driven
by requests, by a watcher thread and by a command-line process, which share
nothing but the index's SQLite file. The three know nothing of each other.

What must hold, per part:

* repository: the outbox always holds an event with the current state of every
  memory; a lifecycle step never brings back older content; tombstones are not
  revived by accident;
* outbox: one owner per row, only the owner settles it, attempts count what
  they are said to count, every event ends completed or dead;
* projector: what is acknowledged is projected in every collection, nothing
  older replaces anything newer, and the projection catches up;
* recovery: bounded per event, restricted to transient errors, and not stopped
  by a crash;
* hook queue: an accepted hook ends exactly once and is not executed twice
  without need, attempts are charged exactly, a late worker changes nothing;
* sessions: slots and reservations never exceed the limit, none leaks, clients
  are admitted in order, nobody waits beside a free slot;
* index: a published snapshot is the tree it names, never changes afterwards,
  and the pointer ends at the present tree.

`PROJECT.json` lists every part (`components`) and every behaviour that a test
would hardly reach (`hazards`), with the properties that watch it.

## 2. Modules

    EventQueue            what the outbox promises (abstract)
       ^ refines
    MemoryOutbox          the memory_outbox table, its workers, operator and clock
       ^ EXTENDS  \___________________________
    MemoryStore           memories and       AutoRequeue    recovery passes
       ^ EXTENDS          their writers           ^ AutoRequeueProofs
    Projection            run_once and Qdrant
    MemoryOutboxProofs    theorems about MemoryOutbox
    MemoryStoreProofs     theorems about MemoryStore
    ProjectionProofs      theorems about Projection, from the lemmas of the two above

    JobQueue              what the hook queue promises its clients (abstract)
       ^ refines
    HookQueue             the hook tables, worker tasks and the service process
       ^ HookQueueProofs

    McpSessions           the session registry and the requests around it
       ^ McpSessionsProofs

    RepositoryIndex       callers, jobs, snapshots and the tree
       ^ RepositoryIndexProofs

    MC*                   instances for TLC

### MemoryOutbox

Rows are numbered in the order of `(created_at, event_id)`, the order in which
`claim_outbox` serves them. Time is reduced to two facts about a row: whether
`available_at` has come (`due`) and whether `claimed_at` is older than the lease
(`expired`). A claim token is a number that is never issued twice, as a uuid is
not; `fence` is the controller generation inside it (a worker's name and restart
count). `lease[w][e]` is the token worker `w` still has to settle, so the batch
of `run_once` is the set of rows with a token, handled from the lowest number up.

| Action | Code |
|---|---|
| `InsertRows` | insert of `_append_memory_event` |
| `ClaimOutbox` | `claim_outbox`: requeue of *all* expired leases, then the lease of the oldest due rows, in one step |
| `AckOutbox`, `FailOutbox`, `DeferOutbox` | the three verdicts, each behind `_assert_outbox_lease_owner` (`Owns`) |
| `StartDeferral` | an infrastructure error: this row and the rest of the batch are given back one by one |
| `VerdictRaises` | recording the verdict raises, and `run_once` logs it and goes on: `OutboxLeaseLost`, or, as a fault, a database error while the row is still owned |
| `CrashWorker` | the process dies and comes back under a new generation |
| `LeaseElapses`, `BackoffElapses` | the clock |
| `RequeueDeadLetters` | the operator's script |
| `PruneCompleted` | retention |

`claims`, `strikes` and `faults` are not in the code: they give fresh tokens,
count what should have been charged, and bound crashes, outages, requeues,
leases lost under a living worker and verdicts of an owner that raise.

### EventQueue

Absent, open, done or dead, with `Finish`, `Bury` and `Revive`, and the promise
that an open event does not stay open. `MemoryOutbox!Abstract` instantiates it
with the status column mapped (`QueueState`).

### MemoryStore

A memory has at most one revision per content (`UNIQUE(memory_id,
content_sha256)`), so the current revision is modelled by the content. A state
is content, lifecycle, a time stamp that stands for everything else a handler
writes, and the four metadata keys the lifecycle code looks at. `ToRecord` and
`FromRecord` are the round trip through a record: the lifecycle is written into
the metadata and derived from it again.

A client is one request handler with a program counter. Its operation reads and
drafts in one step (`Remember`, `Update`, `Archive`, `Forget`, ...). The record
path then re-reads (`Reread`: `upsert_records` drops unchanged records and takes
the expected revisions from this second read) and commits (`Commit`), or finds
another revision (`Conflict`). The lifecycle path commits against the revision
of its first read. An upsert finds the memory in one step, updates it in
another, and saves it twice (`resave`, `recommit`). `RetireProject` is one
transaction. `AppendEvents` is part of every write and takes a row only if no
row of the memory carries the same payload.

### Projection

`run_once` for one event at a time: `ReadAuthority`, `CheckProjection`
(`projection_matches` over all collections), then per collection `ProbePoint`
(the read that decides whether the vector may stay) and `WritePoint`, or
`DeletePoint` for a tombstone, then `Acknowledge`. Any other verdict, an outage
or a crash can follow any of these steps, which covers calls that time out after
they were applied. A collection that does not answer the comparison counts as
one that does not match, so the writes follow. Two collections are modelled, the project's own and the
global one; which of them a memory belongs to depends on its content. The
vector of a point is the content it was computed from. `reached` remembers, per
point, the version of the memory last written there.

### AutoRequeue

`run_pass` in four steps: read the state file, select rows, requeue them in a
transaction (the backup comes before it and may fail), write the counters. The
process may die and the operator may requeue between any two.

| Action | Code |
|---|---|
| `Starts` (part of both reads) | `enabled`, and Qdrant answers `_qdrant_healthy`; without either a pass does nothing |
| `ReadState` | the file is read and the interval since the last recorded pass is over |
| `ReadNothing` | `_read_state` finds no file, or one it cannot read or parse: empty counters and no last pass, so the pass goes on at once and later overwrites the file |
| `SelectRows`, `RequeueRows`, `RecordPass` | the selection by `transient_reason` and counter, the transaction, the write of the file |
| `AbandonPass` | the exception that `_auto_requeue_loop` catches, at any step |
| `QdrantTurns` | Qdrant goes away or comes back, whenever it likes |
| `OperatorRequeues`, `ProcessDies`, `Fail` | the operator's script, a crash, the worker failing a row with either kind of error |

`requeues`, `revivals`, `witnessed`, `lost` and `blind` are history: requeues of
a row by the recovery and by anybody, what a pass had seen of them, passes that
requeued rows and were never recorded, and passes that found no readable file.

### HookQueue

Time is two facts about a job: its `available_at` has come (`due`) and its lease
has run out (`lapsed`). Ids are numbered as they are accepted, so the number is
the `sequence` by which claims are ordered. A worker task is a phase and the job
it holds; its heartbeat is `on`, or has `raised`.

| Action | Code |
|---|---|
| `Enqueue` | `enqueue`: unknown to rows and tombstones, and fewer than `capacity` open |
| `Claim`, `ClaimNothing`, `ClaimBusy` | `claim_next`: *every* lapsed lease of *every* kind goes back, then the first due job of the worker's kind is leased, in one transaction; no job and a failed claim end a task that was asked to stop |
| `Renew`, `RenewBusy` | the heartbeat |
| `LapseUnattended`, `LapseWhileRenewed` | the clock; the second, a renewal that comes too late, counts as a fault |
| `ExecuteSucceeds`, `ExecuteFails` | `_execute_hook_job` |
| `Complete`, `CompleteLeaseLost`, `CompleteRaises` | `complete`; its exceptions are handled as failures of the job |
| `Fail`, `FailLeaseLost`, `FailBusy` | `fail`: back with a delay, or failed for good |
| `EndTurn` (part of each verdict) | the `finally` of the turn, which awaits the heartbeat |
| `RequestStop`, `ProcessEnds`, `Boot` | drain, shutdown or crash, `recover_processing` |
| `Expire` | retention to tombstones |

`failures`, `returned`, `runs` and `disturbed` are history: what happened to a
job, against which its attempts and its executions are compared.

### JobQueue

Unknown, open, completed or failed per event, with the payload it was accepted
with, at most `Capacity` open. `HookQueue!JQ` instantiates it with rows and
tombstones mapped together, so retention is a stutter and a client that repeats
an id after retention must not be accepted again.

### McpSessions

All methods of `HttpMcpSessionRegistry` run under one lock. Each is therefore
one step, written as a function from a registry record (slot per session, state
per ticket, the queue, the number of reservations) to the next one: `Purge`,
`Wake`, `Take`, `Cancel`, `Commit`, `Drop`. The actions are the requests that
call them. An initialize request is `Acquire`, then `Resume` or `GiveUp` if it
had to wait, `Respond` (the SDK creates the session and the client has its id),
`Register`; or `InitializeFails` at either point. A session's requests call
`ConfirmToolCall`, `Touch` and `LoseTransport`, in any order and as often as
they like between `BeginCall` and `EndCall`, and `Release` after the SDK dropped
the session. `GoesIdle` marks an entry whose idle period is over; nothing
happens to it until some method purges. The SDK is external: what it may do is
taken from how the handler treats its answers.

### RepositoryIndex

A state of the tree maps every file to a version. A job is keyed by the state
its caller probed, and a snapshot is identified by its job. A caller is a
program counter with the probed state, the files of its slice and the batch read
so far: `Probe`, `BeginNew` / `BeginResumed` / `BeginCompleted`, per file `Reuse`
or `Stat` and `Read`, `SaveBatch`, `ProbeAgain`, `Publish`, or `MarkFailed`.
`Edit` and `Crash` come between any two, and `DisposeStale` is the operator's
disposition of jobs a dead process left running. `shared` is history: the states
two callers worked on at the same time.

## 3. Runs

| Run | Instance | Shows |
|---|---|---|
| `outbox` | 2 rows, 2 workers, batches of 2, 2 attempts, 2 faults | six safety properties of leases and attempts, and `ImplementsEventQueue` with liveness |
| `store` | 2 memories, 2 contents, 2 clients, 4 operations, 6 rows | what saves do to the outbox, to content and to tombstones under every interleaving |
| `projection` | 1 worker, 1 memory, 1 client, 3 operations, 3 rows, 1 fault | acknowledged means projected, no regress, vectors fit, the projection catches up |
| `auto_requeue` | 1 sidecar, 2 rows, limit 2, 1 fault, Qdrant going and coming freely | the limit per readable state file and lost pass, the restriction to transient errors, and recovery while Qdrant is healthy |
| `hook_queue` | 2 competing workers and 1 of another kind, 3 hooks, capacity 2, 2 attempts, 2 faults | exact attempts, undisturbed jobs run once, only the holder settles, `ImplementsJobQueue`, every hook ends |
| `mcp_sessions` | 1 slot, 3 clients | no reservation leaks, the limit, first come first served, no waiter beside a free slot, every ticket settles |
| `repository_index` | 2 callers, 2 files, batches of 1, 2 edits or crashes | published means faithful and immutable, the pointer catches up |
| `store_events`, `store_undo`, `projection_two_workers`, `projection_retargeted`, `auto_requeue_limit` | smaller | five disagreements between code and documentation, section 5 |

Why the bounds are enough. In `outbox` two workers and two rows give every
overlap of one row and every split of a batch; two faults allow a lost lease
followed by a crash or a requeue, the longest chain the token argument talks
about, and with two attempts a row can fail, be retried and die. In `store` four
operations suffice for forget, update, undo and one more beside a concurrent
client; six rows are never short. All sets are symmetric there, which is sound
because the run checks no liveness. In `projection` one memory is enough because
memories share nothing but the batch; two contents with different routing give
a move in and out of the global collection; three operations let a state be
left and come back. `MaxAttempts = 1` makes the first failure a dead letter,
with a requeue as the one fault. In `auto_requeue` one fault is either the
crash, the failed backup, the unreadable state file, the lost lease or the
operator's requeue that each property is about; outages of Qdrant are not
bounded. The instance with two faults holds too, but takes longer than is
convenient (2.2 million states), so it is not among the runs.

In `hook_queue` two workers of one kind give every overlap on a job, the third
shows that a worker takes back leases it will not serve; a third hook makes the
capacity bind after one has ended. Two faults are a failure and a second thing
that goes wrong, the longest chain that `MaxAttempts = 2` can tell apart, and
enough for a heartbeat that raises and a stop. Executions, claims and lapses
without a living heartbeat are free. In `mcp_sessions` nothing but the clients
is bounded: three on one slot give a holder, a first and a second waiter, so
that order, a wake that skips and a reservation that leaks all show. More slots
only fit in the proofs, which hold for every number. In `repository_index` two
files make a slice and a batch shorter than the tree, one of them is absent at
first, and two edits let the tree leave a state and come back to it by removing
what was added, which is what makes two jobs and a moved-back pointer possible.

`CHECK_DEADLOCK FALSE` is set everywhere: the number of operations and rows is
bounded, so every run ends.

Fairness. `OutboxFairness`: a worker that can claim or settle does so (the loop
of `run_forever`, restarted by the sidecar script), backoffs end, and a lease
that nobody holds any more elapses. No fairness is given to faults, to clients,
to operators, or to a lease lapsing under a living worker. `ProjectionFairness`
is the same for the steps of `run_once`; a worker may fail an event for ever,
in which case it becomes a dead letter. `AutoFairness` lets the recovery thread
take its steps and the interval pass. The worker itself needs no fairness there.
Nothing is assumed of Qdrant: `TransientErrorsRecover` promises a recovery only
while it is healthy, as the runbook does ("при здоровом Qdrant"), and the event
is discharged when it turns unhealthy.

`HookFairness`: worker tasks run, delays and unattended leases end, a drain ends
(`wait_for` with a timeout) and the service is started again; submissions, stops
and faults are free. `McpFairness`: the event loop runs the handler of every
initialize request, whose wait ends with its event or its timeout and whose SDK
call returns or raises; nothing is assumed of clients, calls or expiry, so the
property holds although sessions may keep their slots for ever. `IndexFairSpec`:
callers keep coming (the watcher polls, a client continues its slices) and go
on; `SaveBatch` is strongly fair, because a caller's batch can be refused by the
other's failure of the job over and over: with weak fairness only, two callers
can alternate for ever, one reopening the job and the other failing it. In the
program they meet by chance of timing, so one gets through eventually.

Every property of a passing run has a planted bug (a definition marked "Planted
bug", next to the definition it would replace) that makes TLC refute it:
a token derived from the attempt, a verdict that keeps the token, a lease check
without the token, a charge not undone, an event identified by its revision, a
record that does not say it is tombstoned, the event's snapshot projected
instead of the authority, a limit off by one, and so on.

## 4. Proofs

`MemoryOutboxProofs`, `MemoryStoreProofs`, `ProjectionProofs`,
`AutoRequeueProofs`, `McpSessionsProofs`, `HookQueueProofs` and `RepositoryIndexProofs`, checked by
TLAPS for every value of the constants that satisfies the `ASSUME`s (row numbers
are positive naturals, event ids naturals, batch size, attempts, capacity and
slots positive, limits natural, tickets a finite set of naturals, the files of a
tree a finite set of naturals; the sets of workers, kinds, payloads, memories,
contents and clients and the number of faults are arbitrary).

*The outbox.* The inductive invariant `Inv` is `OutboxTypeOK` with
`TokenOnlyWhileProcessing`, `AttemptsAreStrikes`, `DeadLettersAreExhausted` and
two facts no run checks: `TokensIssued` (every token in the table or in a
worker's memory has been issued) and `LeasesDistinct` (two workers never
remember the same token of a row). `OneOwner` is not inductive by itself: after
a requeue and a new claim the old holder's token must differ from the new one,
which needs that the new one was never issued. `AttemptsAreStrikes` is needed to
know that `DeferOutbox` undoes a real charge, so that `MAX(attempts - 1, 0)`
never hits zero by accident. From `Inv` follow type correctness, the three state
invariants, `OneOwner`, the action property `OnlyOwnerSettles`, and
`OutboxRefinesQueue`: every step of the table is a step of `EventQueue` or
leaves it unchanged.

*The store.* `StoreInv` says four things. The tables and registers have their
types (`Types`; an upsert that has found a memory updates one that exists).
Every memory's present state was queued in a row, no row's stamp is ahead of the
clock, and a row that carries a payload is never taken again (`Recordings`). A lifecycle
client holds the content of the revision it will compare, and every client but
an undo holds a tombstone for each tombstone it has seen (`Snapshot`): another
client's save advances the version past the one seen. And a state that is still
to be saved for the first time has a stamp that no row carries and no other
client uses, while every other draft is of a recorded stamp (`Stamped`,
`Apart`). The last part is what `NewStateQueuesEvent` rests on, since
`_append_memory_event` queues nothing for a payload it finds; it has to account
for the second save of an upsert and for a rewrite, which do save recorded
stamps. A request is reduced to one lemma about what it drafts (`Drafted`), so a
new operation costs one lemma. No part of `StoreInv` needs a row to stay: a row
that retention has deleted keeps its payload in the model and is never taken
again (`RowsTaken`), and a present state's event need only have been queued once
(`CurrentStateQueued`). So the invariant and the
three action properties hold of the whole composition as well
(`ProjectionKeepsStore`, `ServedLifecycleKeepsContent`,
`ServedTombstonesSurvive`, `ServedNewStatesAreQueued`). Only
`AuthorityIsRecorded`, which says that a row with the present state is still
there, is about the writers without workers and retention (`StoreSpec`).

*The projection.* `ProjectionTypesHold` is for any number of workers. It needs
`Rows`: an inserted row carries a state of a memory that exists, and a worker
only holds inserted rows, so what it reads is a memory. The writers' steps and
the outbox's keep it by the lemmas of `MemoryStoreProofs` and
`MemoryOutboxProofs`; every step of `ProjectionNext` is one of those, or a step
that drops what a worker has read, or one of its work on it (`StepKinds`). Seen
from the outbox every step is a step of `OutboxNext` or a stutter
(`OutboxSteps`), and from the store one of `StoreNext`, a deletion or a stutter
(`StoreSteps`). That carries over, for any number of workers, the invariants of
both, `OnlyOwnerSettles` and the refinement of `EventQueue`
(`ProjectionRefinesQueue`).

The other theorems are for a single worker. `ProjectionIsMonotone` rests on
`Order`: what the worker has read is between what was written to each collection
and what the memory is now, because it reads the authority after its last write
and memories only move on. `VectorsEmbedPayload` rests on `KeptVectorFits`: when
the worker is about to set only the payload, the point it probed is still there,
with the content it is going to write. A second worker's write can come
between the two steps; `projection_two_workers` shows what becomes of the order.

`AcknowledgedEventsAreProjected` is the property the composition exists for. It
is not inductive: a worker that is about to acknowledge an event has compared or
written the collections one by one, and the memory may have moved on since. The
strengthening says that the memory a worker has read is the one of the row in its
hand, and that what it has read is the memory's present state if this row or an
acknowledged one carries that state (`InHand`); and that every collection the
worker has finished shows what it has read (`Progress`). A writer's step makes
the premise false instead of the conclusion: a state that is saved for the first
time is in no row, so neither the row in hand nor an acknowledged one can carry
it (`FirstSaves`, `FreshWrites`, from `StoreInv`). That is where the theorem needs that nobody upserts or rewrites, and
it is no artefact of the proof. An upsert saves its draft twice and a rewrite
saves what it has read; either can put a state back whose event was acknowledged
long ago, queue nothing, and leave the collections with the newer state that it
replaced. With two clients TLC refutes `AcknowledgedIsProjected` as soon as one
of the two operations is among the `Operations`, without any fault, and reaches
states where all events are completed, no request is under way and a memory is
not projected as it is; this is what disagreement 1 of section 5 amounts to. `ForgottenLeavesNoPoint` is the positive side of
disagreement 4: when the routing treats all contents alike, an acknowledged
tombstone leaves no point anywhere, so only a change of routing can.

*The recovery.* For any number of sidecars, `PassInv` adds to the invariant of
the outbox that what a pass has selected is transient unless somebody revived it
since (`SelectedStayTransient`); from it follow `PermanentLettersStayDead`, the
types of the state file, and, because a requeue touches dead letters only, the
outbox's own invariant, `OnlyOwnerSettles` and the refinement of `EventQueue`
next to the recovery. `RequeuesAreBounded` is for one sidecar: an event is
requeued at most `AutoLimit` times for each time the state file began empty (at
first, and at every `ReadNothing`), and once for each pass that was cut off. The
invariant keeps two accounts (`Accounted`): the requeues of an event are covered
by the counter in the file, and, during a pass, also by the counter the pass
has read, each with what may have been forgotten (`Allowance`) and what is
pending. They differ after a file that could not be read, and either may be the
next content of the file: the pass's if it is recorded, the old one if it is cut
off and the file can be read again. With two processes writing the file the
first account fails, and so would the bound.

*The sessions.* The argument is about the registry's methods, not about the
requests that call them. A registry is `Sound` if it is well typed, stays within
the limit, and its queue and reservations are exactly the queued and the admitted
tickets, the queue in order. It is `Settled` if, in addition, nobody waits beside
a free slot. Every method is lemma by lemma a function from settled registries
to settled ones; the ones that free something break only the last part, and
`Wake` repairs it (`Wake` turns sound into settled). `McpInv` adds that every
queued or admitted ticket has a handler that still answers for it (`Answered`),
which is what keeps a reservation from leaking. Order of admission and
`SlotsNotSnatched` are facts about each method too, so they hold of each step.

*The hook queue.* `HookQueueProofs!Inv` has three parts. `Types` adds to
`HookTypeOK` that the workers of a service that is down hold nothing, without
which a lease could survive into the next process. `Counts` makes the two
statements about attempts inductive: a job has a row or a tombstone and not both
(`OneRecord`), one that was never accepted has been charged nothing
(`Uncharged`), and a job that is still queued or leased has room for one more
failure (`RoomForFailure`), which is what bounds the failures even though leases
that are taken back spend the same budget. `Single` says that a job nothing has
disturbed is held by at most one task, its lease's owner, and has not succeeded
before (`OneHolder`); it needs that a lapsed lease always counts as a
disturbance (`LapsedDisturbed`), so that taking it back cannot produce a second
holder of an undisturbed job. The refinement maps a row and its tombstone to one
state (`Seen`): a submission is an `Accept`, a verdict that ends the job an
`End`, and claims, renewals, retries, restarts and retention are stutters.
`JobQueue` states no fairness, so the theorem covers all of
`ImplementsJobQueue`.

*The repository index.* `RepositoryIndexProofs!Inv` has four parts. `Types` adds
to `IndexTypeOK` the types of the callers' records. `Stamps` says that a file
that is there has the newest version anybody knows of: rows, batches and probed
states are no newer than the tree (`NotNewer`), and rows and batches are no older
than the state they were read for. From it follows `SecondProbeExact`, the core
of the argument: if the second probe sees the state of the first, every row read
between them is squeezed between two equal versions. `Alone` says that two
callers in the middle of the same job have made it shared, so that in a job that
is not shared nobody saves a batch between the second probe and the publication.
`Results` carries this from the second probe to the completed job and to the
pointer. That a completed job is never written needs no invariant beyond the
types: every writer looks at the status in its own transaction. The one fact
about order that is needed, that a nonempty set of files has a first one, comes
from the library's well-foundedness of the naturals.

*Only model-checked:* every invariant and action property of a passing run is
also proved, under the conditions named above. Liveness under fairness is out of
this prover's reach, so the liveness half of `ImplementsEventQueue`,
`ProjectionCatchesUp`, `TransientErrorsRecover`, `EveryJobEnds`,
`EveryTicketSettles` and `IndexCatchesUp` are only checked on the instances of
section 3.

## 5. Where code and documentation disagree

1. `store_events`: `docs/troubleshooting.md` says that every changed memory
   creates an outbox event. `_append_memory_event` queues nothing when any row
   of the memory, however old, has the same payload; a rewrite of all records or
   the second save of an upsert can write exactly such a state back over a
   concurrent change. The collections then keep the state that was replaced,
   although the event of the present one is acknowledged (section 4).
2. `store_undo`: forget, update, undo leaves `metadata.lifecycle =
   "tombstoned"` on an active memory, which the next update turns into a
   tombstone again. `tests/unit/test_forget_lifecycle.py` asserts that the key
   is gone after an undo, for a forget and undo with nothing in between.
3. `projection_two_workers`: re-reading the authority does not keep an old
   state from overwriting a newer one when two workers run. They do: the
   operator's drain stops only the API process, and a stopped sidecar leaves
   its python child to finish its batch.
4. `projection_retargeted`: when a memory's routing changes, its point in the
   former collection is never visited again, not even by its tombstone.
5. `auto_requeue_limit`: the runbook says that an event is requeued
   automatically at most twice. A state file that cannot be read counts as an
   empty one and is overwritten, and a crash between the transaction and the
   write of the file leaves a requeue uncounted; either allows a third.

Two more are visible as exceptions that properties of passing runs have to make.

6. `EveryJobEnds` excepts hooks whose workers are all gone (`Deserted`). Awaiting
   the cancelled heartbeat (`app_lifecycle_hooks.py:213`) re-raises whatever its
   renewal raised, for instance a write that stays busy through all retries; the
   task dies, nobody restarts it, and the queue goes on accepting hooks of its
   kind until the service is restarted. The comment at line 148 says that the
   background worker must survive transient queue failures. On shutdown the same
   exception ends the drain at once.
7. `SnapshotFaithful` excepts states two callers have worked on at once
   (`shared`). One caller's second probe passes, another has passed the stat of
   a file, the file is edited, the second caller's batch replaces the row of the
   job that is still running (`repository_index_store_jobs.py:254`), and the
   first publishes it. `repository_index_types.py:475` says that a caller is
   told when files change while a snapshot is being built. TLC refutes the
   property without the exception with a single edit.

## 6. Not modelled, and why

Within the modelled parts: artifacts, links and the governed and refinery bulk
transactions; the upsert key itself (so two upserts that both find nothing are
not seen to create duplicates); the preview digests of forget and requeue;
memories in more than one project; the JSON store used when SQLite is not the
authority; the length of delays; the wording of errors. Update stands for the
other read-modify-write handlers (aliases, tags, votes, merges), which take the
same path. A failing SQLite transaction is a transaction that does not happen.
`_find_live_memory` and the load of a rewrite are single steps, as each is one
query. `projection_matches` asks each collection in turn; the model asks them at
once, which is the same with one worker, the only writer of what the model keeps
of a point. (Retrieval and the idle hook set access counts and decay scores on
points, `memory_routes_base.py:82` and `app_lifecycle_hooks.py:547`; the
comparison does not look at them.) The optional doc2query enrichment
(`write_enrichment.py`, off by default) saves enriched copies of records from a
background thread; to the store that is one more update whose read is old.
Routing looks at metadata as well as content; in the model a change of routing is a
change of content.

In the hook queue: the wording of errors, the length of delays, the integrity
checks, backups and the coordination between waiting submissions and other
writers inside one process, which decides who waits but not what happens. A
worker that serves several kinds, which the service never starts. In the
sessions: `reset`, which has no caller, and what a tool call does. In the index:
forced refreshes, the watcher's backpressure and checkpoints, files that are
skipped, the retention of snapshots, and a probe that is itself overtaken by
edits, since a probe is one step here. That step also reads the current pointer,
which the code does a moment later (`repository_index.py:202`); versions only
grow, so what it reuses is compared with the same file either way. Whether a job
is complete is asked of the set of its rows, where the code compares a count
that includes skipped files; finalizing raises on a mismatch, so a miscount
publishes nothing.

In the recovery: the database file exists, as the sidecar cannot run without it,
and a state file that parses but holds a counter that is no number is left out
(every pass raises until somebody removes it).

The code graph and its deferred builds are the next candidates: publishing a
graph that exists already leaves the current graph where it was
(`code_graph/store.py:274`), and a deferred build whose last bookkeeping write
raises stays `running` until a restart. The local model jobs
(`llm_job_queue.py`) have claims and verdicts that no code calls.

## 7. Plan

Done: the outbox with its abstract queue and proofs, the store and the
projection with theirs, composed up to what an acknowledgement promises, the
automatic recovery with its bound and its effect on the outbox, the hook queue
with its abstract queue and proofs, the MCP sessions and the repository index
with their proofs.

Next, in this order:

1. `MemoryStore` with upsert keys and a forget of several candidates; the
   governed consolidation transaction on top of it.
2. Small state machines: generation binding, context tiers, the code graph with
   its deferred builds, the resource governor.
