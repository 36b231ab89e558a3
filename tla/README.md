# Formal model of Arquibancada Viva

Arquibancada Viva is the foundation of a real-time stadium game: a Next.js browser client, a
NestJS/Fastify API with Socket.IO, a worker, PostgreSQL (READ COMMITTED), Redis (pub/sub, BullMQ,
rate limit) and S3 storage. A browser submits an action over REST, the API makes it durable in one
transaction, an outbox carries the event to Redis, every API instance emits it to the sockets in
the match's room, and the browser folds it into the scoreboard it shows. This directory holds
TLA+ models of the parts where that chain can go wrong, the TLC runs that check them on small
instances and proofs, checked by TLAPS, of the properties that matter most.

Paths below are relative to the repository's root.

## The system

| Component | Code | State | Operations | What is hard | What makes it correct |
|---|---|---|---|---|---|
| Idempotent command | `packages/database/src/idempotency.ts`, `technical-action.ts`, `transactions.ts` | `idempotency_records`, `match_sequences`, `outbox_messages` | execute a command, delete expired records | concurrent requests with one key, row locks, roll-backs, lost answers, clean-up | one effect per key within its retention, contiguous sequences, answers that are durable |
| Outbox | `packages/database/src/outbox.ts`, `apps/worker/src/outbox/recovery.ts`, `apps/worker/src/realtime/redis-publisher.ts` | status, attempts and lease of each message | record, claim, publish, mark | crashes, leases that run out, lost acknowledgements, overlapping workers | published means delivered, bounded attempts, no message forgotten |
| `match:join` | `apps/api/src/platform/realtime/socket.ts`, `redis-runtime.ts`, `packages/database/src/realtime.ts` | the socket's room, each handler's position and what it has read | join with or without a cursor, live stream | the handler gives up the processor at every await while events commit and stream in | nothing falls between the state read and the live stream |
| Browser client | `apps/web/src/components/connected-arena.tsx`, `lib/match-socket.ts`, `lib/connection-state.ts`, `packages/contracts/src/realtime.ts` | phase, cursor, projection, synchronizations in flight | connect, reconnect, synchronize, apply events, go offline | answers of outdated synchronizations, duplicates, gaps, dropped events | a ready scoreboard is a prefix of the match and keeps listening |
| Competitive rules | `packages/game-core/src/competitive.ts` | none (pure) | validate, grant points and XP, decide a match | level caps, several levels at once, safe integers | totals and caps kept, results consistent |
| Competitive ledger | `packages/database/migrations/0005_black_vanisher.sql` | matches, participants, actions, receipts | the triggers and deferred checks | checks that read other rows under READ COMMITTED | an accepted match is not cancelled, history is append-only |
| Competitive contract | `packages/contracts/src/competitive.ts` | none (pure) | the refinements of the public projection and of two events | dominance and winner are derived a second time, from other data | what the rules produce, the contract lets through |
| Technical queue | `apps/worker/src/queue/`, `packages/database/src/queue-fixture-effects.ts` | BullMQ jobs and locks, `queue_fixture_effects`, `exhaustedJobs` | enqueue, process with a timeout, retry, report, remove | a timeout while the effect is still being written, stalled runs that go on without their lock | a completed job took its effect, none is given up early, reports are true |
| Object storage | `packages/storage/src/s3-object-storage.ts` | objects in quarantine, private, approved | upload, promote (copy, then delete), delete, sign | a crash between copy and delete, concurrent promotions, lost answers | nothing is lost, nothing returns to quarantine, approved stays approved |
| Rate limit | `apps/api/src/platform/security/rate-limit.ts`, `http-security.ts` | a counter with a time to live per scope and address | consume | Redis fails, scripts are sent twice, windows turn over | a bounded burst, every limit ends; mutations fail closed, reads open |
| Lifecycle of the worker | `apps/worker/src/main.ts`, `runtime.ts`, `dependencies.ts` | start and close promises | start, shutdown with a limit | a signal during the start, a batch or a job | a stop ends, the database closes last |
| Lifecycle of the API | `apps/api/src/app.ts`, `main.ts`, `platform/dependencies.ts`, `platform/*/runtime.ts`, `platform/realtime/redis-runtime.ts`, `modules/health/health.controller.ts` | shutdown tasks, Redis clients, adapter and subscription | start, activate, probe, shutdown with a limit | a signal during the start, Redis that comes late or goes away, connected clients | traffic after readiness is shared, the database closes last, a shutdown ends |

The components interact through the database (the outbox is written in the command's transaction
and read by the worker), Redis (`PUBLISH` by the worker, one subscriber per API instance) and
Socket.IO (`match:join`, `match:event.v1`, `match:snapshot.v1`, acknowledgements).

Left out, with the reasons in `PROJECT.json`: configuration, authentication (only the revocation of
a session is visible to the models), observability, web pages, scripts, and the cryptography of
the verifiable randomness.

## Modules

| Module | What it is |
|---|---|
| `IdempotentCommand` | `executeTechnicalAction` run by concurrent requests, one action per SQL statement, with row locks, time-outs, lost answers and the clean-up |
| `MatchActionLog` | what the command promises: an atomic command either takes effect once or is answered from its earlier effect |
| `IdempotentCommandRefinement` | the refinement mapping from the first to the second |
| `OutboxDispatch` | dispatchers of several workers and of the API over the outbox table |
| `RealtimeJoin` | one Socket.IO connection: `handleJoin` cut at every await, the live stream, drops and revocations |
| `MatchClient` | the browser: `ConnectedArena`, its reducers and `requestAuthoritativeSnapshot` |
| `CompetitiveLedger` | transactions over the competitive tables: their constraints, triggers and deferred checks under READ COMMITTED |
| `CompetitiveCore` | the rules of the game as operators |
| `CompetitiveSeason` | accounts that play match after match by those rules |
| `CompetitiveContract` | what the wire contract accepts of a match, derived a second time from the scores |
| `TechnicalQueue` | the BullMQ queue: runs, attempts, time-outs, stalls, locks, reports |
| `WorkerProcess` | worker processes that start, stop and crash around `OutboxDispatch` and `TechnicalQueue` |
| `ObjectStorage` | concurrent calls of the storage adapter, command by command |
| `RateLimit` | the hook of the API and its Redis counter |
| `ApiProcess` | the API process: start, realtime runtime, readiness, shutdown, with `RateLimit` and `ObjectStorage` in it |
| `RealtimeSync` | `MatchClient` composed with `RealtimeJoin` through the socket's channel, over connections that come and go |
| `MC*` | constants, scopes, symmetry and instances for TLC |
| `*Proofs` | theorems and their TLAPS proofs |

### IdempotentCommand

A request is one HTTP call and one transaction. `pc[r]` is the next statement: `insert` (the
idempotency record, `ON CONFLICT DO NOTHING`), `select` (only after a conflict), `sequence`
(`nextMatchSequence`), `outbox`, `complete`, `commit`, `respond`. `writes[r]` holds the rows it has
written and not committed: others cannot see them and wait for them (`KeyFree`, `MatchFree`), which
is how PostgreSQL treats a conflicting unique index entry and an updated row. `Abort` is any
failure before the commit (statement and lock time-outs, an error of the database), `LoseReply` a
response that never arrives. The clean-up deletes under the same locks and skips locked rows.
A retry is another request with the same key. `clock` is bounded by `Horizon`.

### OutboxDispatch

A claim is one `UPDATE` over rows locked with `SKIP LOCKED` and so one action; so is each mark. A
worker holds what it claimed (`holding`), takes one message after the other to the publisher
(`current`, `outcome`) and marks it. `Interrupt` is a crash or a database error. Time is relative:
`due` counts down to `next_attempt_at`, `lease` to the end of the batch's lease. `delivered` is a
history of what reached a subscriber, `timely` tells whether every batch so far ended within its lease;
`PublishUnacknowledged` delivers and fails. Batches that outlive their lease are part of the model:
`OneHolderWhileTimely` no longer speaks of them, `PublishedWasDelivered` still does.

### RealtimeJoin

`handler[j]` is one invocation of `handleJoin`: its step, the `lastSequence` it was given and the
`latestSequence` it has read. Each await is a boundary between actions: the session, the first
state, entering the room, the second state, the replay or the projection. `sent` is what was
emitted to the socket in order; `told` the `latestSequence` of the last answer that was ok. Sequences in `Unrecorded`
were numbered without an outbox message, which the repository's tests and data do and which forces the
gap in a replay.

### MatchClient and RealtimeSync

`syncs[s]` is the promise of one `requestAuthoritativeSnapshot`; `current` tells whether its version
is still `synchronizationVersionRef`, `ref` is `synchronizationRef`. The continuation of a promise
(`Settle`) is separate from the message that resolved it. `RealtimeSync` identifies a
synchronization with the `match:join` it emits, makes `sent` the channel (a message is removed
when the browser handles it) and gives the server a fresh socket at each reconnection.

Decisions a reader may question:

- `navigator.onLine` turns false before its event is handled; engine.io closes an open socket at
  the `offline` event (it does so on every host but localhost, where the model does not apply).
- The browser handles `online` before a connection can come up again.
- Payloads of another contract revision and unmounting the component are left out.
- What handlers of a replaced socket still do reaches nobody and is left out.

### CompetitiveLedger

The commit has no code yet that accepts a competitive action; it has the tables of migration 0005,
the triggers that guard them and an integration test that writes to them. The model therefore lets
transactions issue the statements of that test in any order the constraints admit. A transaction
that accepts an action has a `request`; `wrote[t]` names the rows it has written and not committed,
`change[t]` is its version of a match's row. Uncommitted rows of others are invisible (`StateSeen`,
`LockSeen`); a row that another transaction has updated and an entry of the unique index that it has
inserted are waited for (`MatchRowFree`, `ParticipantRowFree`, `KeyUnused`). An action's identifier
is its transaction. `Commit` runs the two deferred checks, `Rollback` is a statement that raises, a
time-out, a deadlock or a `ROLLBACK`.

`ActionsUpdateMatch` is the discipline that keeps the triggers' checks true: whoever accepts an
action also updates the match's row (score and `statusAfter` of `evaluateAction`) in the same
transaction. With it, the rows' locks order an action and the end of its match; without it, they
do not, see findings.

Checks that look at one row or only at a match's immutable columns are left out, and so are the
unique sequence and build version numbers: with fewer refusals the model has more behaviours.

### TechnicalQueue

`job[e]` is the job in Redis: its state, BullMQ's counters (`made` attempts, `started` runs,
`stalls`) and, as a history, how many `faults` of the database or of time it met. A slot is one of the
concurrent runs of a worker; `lock[e]` names the slot whose token BullMQ accepts. The processor is
cut at its awaits: up to the INSERT (`Fetch`), the INSERT (`Insert`, `InsertFails`), the time limit
(`Timeout`), the outcome (`Complete`, `Fail`, `EndWithoutLock`). A time-out leaves the INSERT in
`late`: nothing cancels it, and it lands, or not, at any later time. `Stall` takes the lock from a
run that may go on. What BullMQ does is modelled from the options the code gives it and the
counters its handlers read; `Report` is the code's own handler of `failed`.

### WorkerProcess

`phase[w]` follows `startWorker` and `runtime.close()`; `started` and `closed` are the dependencies
whose promises are settled. The publisher and the storage are closed as soon as a stop begins, for
their `close()` does not wait; the recovery's waits for the active batch, the queue's for its runs,
and `pool.end()` for the queries under way. `SHUTDOWN_TIMEOUT_MS` only decides the exit code: what it
gives up waiting for goes on, so the limit, the exit code and the answers of the probe server are left
out. A crash is a kill, a signal before the handlers are registered, or the same signal a second time. `deployed` are the processes that are launched again.

### ObjectStorage

A call sends one command at a time. A command is executed at once, fails (`CommandFails`), or is
executed without its caller learning of it (`CommandUnanswered`), which is also how a crash between
the copy and the removal of `promoteObject` appears. `KeyOf` and `TargetOf` are the keys, a stage with
an identifier; only upload makes a new identifier. No method looks whether `close()` has destroyed the
client, so calls may start after it; their commands may fail like any other.

### RateLimit

One client address, two scopes (`auth-mutation` behaves as `mutation`). `Consume` is the Lua script
with its answer; `ConsumeUnanswered` the script whose answer is lost and which ioredis sends again, as
often as connections break. A connection is lost with the counters (`RedisRestarts`) or without (`RedisLost`).
`OPTIONS`, the health and readiness paths and requests with a foreign origin never reach the counter and are
left out. `recent` is a history: `recent[k][n]` is how many requests of a scope were let through in the
last n + 1 instants, and `restarts[n]` how often Redis restarted in them: only a restart inside an
interval makes room for another window in `BurstIsBounded`.

### ApiProcess

`stage` follows `createApiApplication` and `listen()`, `closing` the shutdown: Fastify waits for its
requests and connections (`Dispose`), the `onClose` hooks flush the telemetry (`Flush`), and
`dependencies.close()` runs the shutdown tasks last to first, then storage and database (`CloseNext`),
within a limit of its own (`Expire`), after which the process exits or, if it was the start that
failed, goes on closing. The telemetry is therefore flushed before the API's dependencies are
closed, although `docs/observability.md` lists it last. `ready` are the Redis clients that are up,
`adapter` the one in use, `attached[s]` the adapter in whose rooms a socket is: Socket.IO does not
move a connected socket when the adapter changes. A `SUBSCRIBE` may be refused
(`SubscribeFails`): only the next ready event of a client tries again, so `refused`, a history, is the one
excuse that `ActivationFollowsRedis` accepts of Redis while its clients stay ready. `probe` is the ping that a readiness probe awaits.

### CompetitiveCore, CompetitiveSeason and CompetitiveContract

`CompetitiveCore` translates `competitive.ts`: 50, 100, 10000 and 2^53 - 1 are constants, the while
loop of `grantActionXp` is a recursive function over its turns. `CompetitiveSeason` feeds what
`evaluateAction` returns into the next call, as its tests do, and opens and ends matches with rules
of their own. `granted`, `spent` and `lastAccepted` are histories for the properties; `Price`, the cost of all levels
below one, is what `spent` is counted in.
`EvaluateAction` is enabled only if every sum it checks is safe, for nothing is kept otherwise.
`CompetitiveContract` translates the refinements of the wire schemas; what puts a projection
together from the core's results is not written yet and is external (`PublicProjection`).

## Runs

| Run | Instance | Shows |
|---|---|---|
| `command` | 3 requests over 2 keys of one match, 2 actions, 2 cleaners of one row each | sequences, answers and retries are right, the command implements `MatchActionLog`, every request settles although no lock wait ever times out |
| `worker` | 2 workers with a slot each, 2 messages, 1 job, 2 interruptions, in four scopes | marks and completions happened, no overlap while timely, nothing is forgotten or given up early, reports are true, the pool outlives its users, a stop ends |
| `outbox_exhausted` | 1 worker, 1 message | violation, see findings |
| `join_safety` | 2 joins in turn, 4 events, replay window 2, one event without a message | snapshot, replay and live stream fit together |
| `join_overlap` | 2 joins at once | violation, see findings |
| `sync` | 2 synchronizations, 3 events, endless reconnections, in two scopes | a ready scoreboard is a prefix, never goes back, listens and shows what it is handed; every open connection settles |
| `sync_stale` | 1 synchronization at a time, 2 events | violation, see findings |
| `ledger_safety` | 4 transactions, 1 match, 2 users, 2 keys | the ledger's properties when actions update the match's row |
| `ledger_skew` | 2 transactions, 1 user, without that discipline | violation, see findings |
| `season_safety` | 2 accounts, 3 modalities, levels up to 2 and 3 in total, 3 instants, largest safe integer 6 | XP is conserved, cooldowns outlive their match, the contract accepts what the rules produce |
| `api` | 2 requests, 2 sockets, 3 Redis clients that come and go, 2 storage callers, in five scopes | the storage keeps contents, the limit holds and ends, mutations fail closed, readiness means shared, activation follows Redis, the database closes last, a shutdown without clients ends |
| `api_shutdown` | the same | violation, see findings |

Scopes. A liveness property excludes `SYMMETRY`, and independent parts multiply their states. The
modules `MCWorkerProcess`, `MCApiProcess` and `MCRealtimeSync` therefore choose a scope in the
initial state, which fixes what else happens meanwhile: the states of the scopes add up. Each scope
keeps the parts that meet: a batch with an interruption, a run with an interruption, two workers
with overlapping claims, two workers with one job; a socket, a read and the Redis clients with a shutdown, storage calls
with a shutdown, two requests with the counter and its restarts;
all events with a connection that comes and goes, an outdated synchronization with a browser that goes offline. That parts which no scope joins do not disturb each
other's safety is proved, not checked: `WorkerImplementsOutbox`, `WorkerImplementsQueue`,
`ApiImplementsStorage` and `ApiImplementsLimit` hold without any scope. `MCIdempotentCommand` leaves out behaviours
that differ only by the names of requests, keys and cleaners.

Why the bounds are enough: with three requests on one key one can hold the key, one wait for it and
one retry later, and one tick of the clock takes a record past its retention. Two workers and two
attempts suffice for one to take over the other's message and for a stale mark under the second
claim. Three attempts, one allowed stall and two slots let a job fail, be retried, stall in one slot while
its run goes on, and finish in the other. Two interruptions are a signal and a crash, or a signal to a process that was launched
again. Four events and a window of two give joins inside the window, at its edge and beyond it,
before and after the gap. Three events let one arrive after a gap; two synchronizations let an
outdated one end while its successor runs. Four transactions are two actions of one user, one of
another and one that ends their match. Three modalities let a side dominate more of them with fewer points. The season's
curves rise and fall, its grants cross two levels at once, its sums reach the largest safe integer,
and `MCRules` holds a snapshot that `ValidRules` must refuse, because its curve ends at zero. Limits of one
and two with two requests and a window of two ticks are reached, refuse and start anew; with a limit of two
an old and a new window let through three requests within two ticks, the most there can be, and with one or
two restarts of Redis in that time five and seven. There may be any number of restarts over time. Two storage callers are two promotions, a promotion and a
deletion, or a retry of one object. `MaxAdapters` leaves room for a second adapter that must not come.

`CHECK_DEADLOCK FALSE` is set where the bounded system comes to rest (all requests answered, all
messages settled, all joins used, the process ended).

### Fairness

- `IdempotentCommand`: the event loop runs a request to its answer (weak fairness); PostgreSQL
  wakes the waiter of a lock when the holder ends (strong fairness of the insert). Nothing is
  assumed of time-outs.
- `WorkerProcess`: a start and a stop go on once nothing blocks them; the recovery loop schedules a
  batch after each one, failed ones included (`recovery.ts:65`), and a batch goes through its
  messages; BullMQ ends a backoff, hands a waiting job to a free slot and frees one whose run is gone;
  a run goes on to its outcome, if only by its time limit; time passes. Crashes are never
  required, and never excluded.
- `ApiProcess`: start and shutdown go on, a request that is waiting is settled by an answer or by
  ioredis's limit of retries, a `SUBSCRIBE` on a connection that stays is answered, if only with an error, time passes. Clients need not
  leave, Redis need not come up.
- `RealtimeSync`: timers fire, promises continue, emitted messages arrive on an open connection,
  handlers go on, a published event reaches this API instance (its subscription is up). Connecting, answering without failure and staying connected are not
  assumed.

### Findings

- `api_shutdown`: `docs/observability.md:41` says that the whole shutdown is limited by
  `SHUTDOWN_TIMEOUT_MS`. In the API the limit covers only what comes after Fastify has waited for every
  connection (`app.ts:71`, `platform/dependencies.ts:101`), and Socket.IO, which would disconnect its clients,
  is closed only then (`platform/realtime/runtime.ts:48`): one WebSocket that stays connected keeps the process
  open. Without connected clients the shutdown ends (`ShutdownEndsWithoutClients`).
- `outbox_exhausted`: `docs/outbox-and-idempotency.md:27` says that a message stays in `failed`
  after its last attempt. A worker that stops during the last attempt leaves it in `publishing`,
  which no claim selects again (`outbox.ts:100`).
- `join_overlap`: `docs/realtime.md:30` says that the API enters the room and answers. The room
  belongs to the socket: of two joins at once, the one that fails leaves the room for both, and the
  client of the other is told ok without being in the room.
- `sync_stale`: `connected-arena.tsx:287` tells the user that the scoreboard will be updated by the
  live event. Events that arrive while the client awaits a snapshot are dropped
  (`connection-state.ts:65`); when the snapshot's state was read before such an event was
  committed, the client becomes ready without it and only a later event makes it notice.
- `ledger_skew`: migration 0005 refuses to cancel a match with accepted actions
  (`0005_black_vanisher.sql:206`), and the integration test expects that. The trigger reads the
  ledger and the ledger's trigger reads the match, neither with a lock: under READ COMMITTED an
  action accepted with the test's statements and a concurrent cancellation both commit. Code that
  will accept actions must update or lock the match's row, which the runs and the proofs show to
  be enough.

## Proofs

Every theorem holds for all values of the constants under the named assumptions of its module.

- `IdempotentCommandProofs`. The inductive invariant has four layers, proved one after the other:
  `Typed` (types, and which variables are set at which statement), `Locks` (at most one transaction
  has written a key's row or a match's row, deletions are of expired records), `Effects` (numbers
  in use are exactly those up to `lastSequence`, a drawn number is the next one, records match
  their effects, and every effect within its retention still has its record), `Answers` (what a
  transaction will answer is durable). From them: `SequencesAreContiguous`,
  `RecordsAnswerForEffects`, `AcceptedActionsAreDurable`, `RefusalsAreJustified`,
  `RetriesWithinRetentionAreSafe`, `HistoryOnlyGrowsAtTheEnd`. Contiguity alone is not inductive:
  it needs that whoever holds the match's row has drawn the only number that is not yet committed.
  `CommandImplementsActionLog` is the refinement of `MatchActionLog`: a commit with an effect is the append of
  one entry (which has the next number, by `Effects`), a refusal or an answer is told when it is decided
  and names an entry of the log (by `Answers`), a clean-up forgets entries past their retention, and all other
  statements, retries and roll-backs are no step of the log.
- `RealtimeJoinProofs`. `Typed` adds to the types that a handler past the first read has found the
  match, that its request was parsed and that emitted events were committed. `StepGrows` shows that
  each step only adds sound messages to the stream, which makes `SnapshotsStayConsistent`
  inductive. For a client that has one join at a time, `InRoom` (a handler that has read the state
  in the room is still in it) and `StreamFollows` (every emitted event after the state that was read is in the stream,
  for a running handler and for the last answer) give `JoinMissesNothing`. For `AnswersStayInOrder`
  the stream's order is not enough: `AnswersInOrder` also says that no answer is past the state that a
  replaying or projecting handler holds, which is where the next answer comes from.
- `RealtimeSyncProofs`. A browser that is ready shows what it should because its question was
  alone: from the moment it asks until it has settled the answer, no other handler runs on its
  socket and no other answer is in the channel. `ChannelInv` says so of the server (one handler at a
  time, no reply in the channel while it runs, nothing after an answer), `SyncHolds` of the browser:
  once acknowledged, everything is `Settled` (no handler runs, neither snapshot nor answer is in the
  channel, and the room was entered), which stays so while the browser is ready. `Holds` says what a message
  in the channel is worth when it arrives: a snapshot is one of the match and no older than what
  is shown. From them: `ReadyScoreboardIsRight`, `ReadyIsInTheRoom` and `CursorGoesForward`. TLC checked
  `Inv` first, also with events that no snapshot records.
- `CompetitiveLedgerProofs`. `Typed` adds to the types that what a transaction has written fits its
  phase and its request. `RowsHeld` (a match's row is written by one transaction at a time, and not
  once it has ended) gives `MatchesNeverGoBack` and, when actions update the match's row,
  `LedgersCloseWithMatch`. `CancelsEmpty` (a cancellation under way is of a match without actions)
  makes `AcceptedMatchesAreNotCancelled` inductive: an action that would commit in between needs
  the row that the cancellation holds. `KeysApart` (keys differ among committed and uncommitted
  receipts) gives `OneActionForEachKey`; `LocksHeld` (a participant is locked by one transaction at
  a time, and an action agrees with the lock it saw) gives `SidesAreThoseOfFirstActions`. The two
  theorems about the end of a match assume `ActionsUpdateMatch`; the others do not.
- `CompetitiveSeasonProofs`. Sums over modalities, the climb of `grantActionXp` and the prices of levels are
  recursive over data. The library's theorems state induction for a predicate, which no
  prover here can instantiate; `Induction` states it for a set and follows from the library's
  theorem that a well-founded relation has minimal elements. From it: the recursions have
  solutions (`SmallRecursion`, `IntervalRecursion`), a sum of natural numbers is one (`SumType`), it
  changes by what a term changes by (`SumChanges`), and every turn of the loop keeps limits and
  worth (`RiseKeepsWorth`, `GrantReaches`): a progress is worth its rest and the price of its level. This
  makes `SeasonInv` inductive and gives `ExperienceIsConserved`, `CooldownsOutliveMatches` and `ContractAcceptsTheCore`
  for any finite set of modalities, any limits and any rules that `validateRules` lets through.
- `ApiProcessProofs`. For the object storage, `StorageInv` adds two facts to the properties. `Orderly`: the
  stages of a call are in the order quarantine, private, approved, and a removal is of an earlier stage than
  the copy it follows. `LaterCopyExists`: while a source is about to be removed, the content exists at a
  later stage, unless somebody asked to delete it. As every other promotion only removes what it has copied
  further on, the copy furthest on is never removed: `ContentsAreKept` and `ApprovedIsKept`. `QuarantineIsLeft`
  needs `PutOnce`: an identifier is uploaded by one call, so none puts it back.
  `ApiImplementsStorage` and `ApiImplementsLimit` map every step of the process to
  one of the component or to none. `MutationsFailClosed` carries over a request's whole life that whoever goes on without a
  count is of the general scope. `BurstsAreBounded`: an interval as long as the window that reaches into the
  present touches the current window, which let through what the counter says (`Counted`), and what came
  before, which is less than one limit and one more for each restart of Redis in that interval (`Earlier`);
  `WindowsAdjoin` says so of every shorter interval too, and adds that one that began after the current
  window's first request saw nothing of the earlier ones, and not that request either.
  `ReadinessMeansShared`: whatever a probe or a client has seen
  as ready implies that the one adapter is attached, so later sockets are in it. `DatabaseIsLast` ties
  the list that is still to be closed to what is open and to how far the start got; its core is that
  a runtime is registered before the close list is made or not at all, and that nobody is served when the list is begun.
- `TechnicalQueueProofs`. `QueueInv` counts: for an unfinished job, `made` is below the attempts and
  the runs started are the attempts made, the stalls and the run under way; that is what
  `maxStartedAttempts` is compared with. The lock's holder justifies its report (a run that gives up has
  a job out of stalls, one that fails met a fault or the job's own mode), and a run that is
  completing has its effect. From it: `CompletionImpliesEffect`, `AlarmsHold` and
  `GivingUpIsJustified`, the last for at most one allowed stall, which is BullMQ's `maxStalledCount`:
  with two, the one start that `maxStartedAttempts` adds to the attempts would be too few.
- `WorkerProcessProofs`. For the outbox, `IInv` says that claims are counted by `attempts`, that claims of
  different workers differ, and that an outcome belongs to a claim: an outdated worker may hold the
  same message, but never with the same attempt. From it follow `PublishedMessagesWereDelivered`,
  `AttemptsStayCounted` and `PublishedStaysPublished`; `ClaimsInForce` (a claim's lease and the row's lease
  agree) gives `OneHolderAtATime` for timely batches. Each step of the process is a step of the outbox or leaves it alone (a crash
  without a batch drops nothing, which needs `OutcomeHasClaim`), and likewise for the queue:
  `WorkerImplementsOutbox`, `WorkerImplementsQueue`, and with the theorems about the two, `WorkerKeepsPromises`.
  `ProcessInv` says that what is closed in a process that stops is at rest, and that nothing is closed before
  the stop; `DatabaseOutlivesAll` follows.

Types are proved rather than checked: every module of proofs but that of the API process, which
needs none beyond its invariants, has its type invariant as a theorem or as the first part of its
invariant.

Every invariant and every action property that a passing run checks is a theorem. Only
model-checked: the liveness properties (`EveryRequestSettles`, `EveryMessageSettles`,
`EveryJobSettles`, `GracefulStopEnds`, `EventsHandedAreShown`, `EveryConnectionSettles`,
`LimitedIsTemporary`, `ActivationFollowsRedis`, `ShutdownEndsWithoutClients`), as fairness and `ENABLED` are
outside the prover's reach.

## Not modelled

- The submission of an action by the browser, payloads of another contract revision, unmounting the
  component; what handlers of a replaced socket still do.
- The order in which BullMQ hands out waiting jobs and the outbox claims due messages; metrics and traces.
- What a worker answers to probes, logs and exits with when its stop exceeds `SHUTDOWN_TIMEOUT_MS`.
- CORS, security headers and the problem details of HTTP errors; sessions and the cookies of Better Auth.
- Accounts, clubs, groups and memberships of the competitive schema, whose constraints look at
  one row or at keys.
- Configuration, scripts, migrations' runner, load tests, pages and styles: no state that a protocol depends on.
- The cryptography of the verifiable randomness: its properties are not those of a state machine.

## Plan

What could come next, in this order: an abstract specification of delivery from the command to the
browser over all components, with the components' theorems as its lemmas; invariants that support the
liveness properties (that a waiting state always has an enabled way out), which can be proved although the
properties themselves cannot; the code that will accept competitive actions, once it exists, in the place of
the statements of `CompetitiveLedger`.
