# HiveCore: a TLA+ development

HiveCore is a gateway for language-model workers. Clients send HTTP requests to
the proxy; the proxy authorises them, plans a route and queues them; worker
nodes connect to HiveCore, poll over their connection for work, receive a request and
send back the response, which is relayed to the client. It is one Rust process
with a thread per connection or pooled thread, locks, condition variables and
channels, a SQLite database, and sockets. There is no async runtime.

This directory holds TLA+ modules translated from that source, TLC
configurations that check them on small instances, and TLAPS proofs. Paths below
are relative to `src/` of the crate (`src/src/` in the repository); line numbers
of every definition are in `PROJECT.json` under "map".

## Inventory

| Component | State | Operations | Hard part |
|---|---|---|---|
| Request queue (`servers/proxy/queue.rs`) | two indexes (by model and kind, by node) of `Arc<Mutex<VecDeque>>`, `IdleGate::generation` with a condition variable | `enqueue_*`, `next_for_worker`, `expire_older_than`, `snapshot` | an index entry is fetched, removed and pushed to under different locks; lost wakeups |
| Overseer (`servers/worker/overseer.rs`) | none | expire queued requests every 500 ms; drop stale worker connections | acts on snapshots |
| Admission (`servers/proxy/admission.rs`, `app/rate_limiter.rs`) | per key: five sliding windows, `concurrent` | `check`, `start_request`, `finish_request`, `snapshot` | check and reservation are two steps; the release is in another thread, on some paths only |
| Proxy connection (`servers/proxy/server.rs`) | none | read, authorise, look up the key again, plan, enqueue | outcome of every branch for the reserved slot |
| Route planner (`servers/proxy/planner.rs`) | none (reads registry and probe cache) | `plan_request` | a decision on a snapshot of the workers |
| Cache probes (`servers/proxy/probe.rs`) | cached answers per worker | enqueue a probe, wait with a timeout | the late answer |
| Worker connection (`servers/worker/server.rs`) | per thread: name, index, backend | authenticate, ping, latency, poll, relay | every error path of `handle_poll` |
| Worker registry (`servers/worker/models/worker_status.rs`) | per worker: nonce, connections by index, phase, time last seen | register, touch, remove, summaries | indices and nonces across reconnects |
| Key store and cache (`auth/keys.rs`, `shared/sqlite/key_store.rs`) | table of keys, cache by token | verify, insert, update, delete, refresh | cache and table are written in separate steps |
| Model policy (`auth/policy.rs`) | none | `allows_model` | tags and precedence |
| Usage tracking (`shared/sqlite/usage_tracking.rs`) | channel, batch, tables | batch insert with identity upserts | a failing batch |
| Capture writer (`shared/capture/mod.rs`) | a file per day | append, compress earlier days | crash between compression and removal |
| Thread pool (`shared/taskpool.rs`) | job queue, `workers`, `idle` | `spawn`, `worker_loop` | hand-off, growth, retirement |
| HTTP and relay (`shared/http`, `servers/worker/server.rs`) | none | parse, relay chunked bodies, scan usage lines | boundaries of chunks and lines |
| Telegram bot (`servers/telegram.rs`) | `current_day` | report and compress the day that ended | works on the writer's files without a lock |
| Management API (`servers/management`) | none | create, change and delete keys, read the rest | its key routes write the table and the cache |
| Dashboard, logging, start-up | none of their own | call the components above | |

Interactions: client threads call admission, then the planner, then the queue.
Worker-connection threads call the registry on every frame and the queue on every
poll, and finish a request's slot, capture event and usage event. The overseer
calls the queue and the registry. Management threads call the key store, the
registry and the queue (worker commands are node-targeted requests; their answers
come back over a channel, as those of cache probes do). Writers
for usage and captures sit at the end of `mpsc` channels.

What makes each component correct:

- queue: a pushed request is dispatched once, or expired once and its client
  told; no worker sleeps on announced work; order per route; every request
  leaves the queue although nobody polls;
- admission: limits hold up to the races the code admits; every reserved slot is
  accounted for;
- pool: every job runs once and in the end; the counters are true; a job is never left without a thread;
- registry: a connection in the registry belongs to the thread that registered it;
  a live worker is not refused and not removed;
- key cache: what `verify` accepts agrees with the table but for the races that can be named,
  and for rules the table keeps otherwise than they were given;
- usage and capture: an event is written at most once, and what is lost or spoilt is known;
- planner, policy, relay: the tables of routes that admission, the planner and the usage
  events keep agree; a request reaches a worker that can serve it, ends, and is recorded as
  it was relayed.

The hazards, each at its line and with the properties aimed at it, are listed in
`PROJECT.json` under "hazards".

## Modules

| Module | Models | State ↔ code | Actions ↔ code |
|---|---|---|---|
| `RequestQueue` | queue, its callers' calls, the overseer's expiry pass | `index` the two `HashMap`s; `deque` the `VecDeque`s as objects that outlive their key; `arc` the `Arc` a thread holds; `generation` the idle gate | one per critical section: `FetchDeque`, `CreateDeque`, `PushBack`, `BumpGeneration`, `NotifyAll`; `IdleMark`, `FetchKey`, `LockAndPop`, `RemoveKey`, `WaitForWork`, `WaitTimesOut`; `OverseerSnapshot`, `OverseerExpire`, `OverseerRemove`, `OverseerAnswer` |
| `QueueContract` | what the queue promises, without locks, deques and wakeups | the life of each request | `Accept`, `Dequeue`, `Expire`, `Answer` |
| `TaskPool` | `GrowablePool` | `queue`, `workers`, `idle` as in `PoolState`; `thread`, where each worker is | `Spawn`, `Look`, `Resume`, `TimeOut`, `SpuriousWake`, `Finish` |
| `Admission` | authorisation, limiter, life of a slot | `concurrent`, `stamps` as in `KeyState`; `stage` of each request's thread; `now` the instant `check` read; `keyId` the task's `RequestContext`; `cleanup` the local of `handle_poll` | `Verify`, `ReadClock`, `Check`, `StartRequest`, `LookupKey`, `PlanRequest`, `ExpireQueued`, `TakeTask`, `Forward`, `Relay`, `Snapshot`, `DeleteKey` |
| `WorkerRegistry` | registered connections, their threads, the overseer's removal of stale ones | `conns` the `connections` of each entry of `AppState::workers`; `next` its `next_connection_index`; `index` what a thread remembers; `stale` the overseer's list; `age` the two timeouts against `last_ping` and `last_poll` | `Refuse`, `Authenticate`, `AnswerAuth`, `Ping`, `Latency`, `Poll`, `StartWork`, `Pong`, `FinishWork`, `Disconnect`; `OverseerLook`, `OverseerRemove`; `Age` |
| `KeyCache` | the key table, the cache in front of it, `verify` and the key routes | `row`, `deleted` the table, a name and normalised rules for each key; `cache` as in `KeyStore`; `held` what a thread has read and not yet written to the cache | `BeginVerify`, `Lookup`, `LookupFails`, `CacheFill`, `Reread`, `Answer`; `InsertRow`, `CacheInsert`, `UpdateRow`, `DeleteRow`, `List`, `ListFails`, `Refresh`; `Restart` |
| `UsageTracking` | the usage event of a request, its channel, the thread that writes batches, both tables | `channel` of `stats_tx`; `pending` the batch; `usage`, `byWorker` the tables; `alive`, the thread has not returned with an error | `Admit`, `Rename`, `Finish`, `Fail`, `Recv`, `TimesOut`, `Restart`; `UsageForKey` |
| `CaptureFiles` | the writer of captures, the daily compression, the files both work on | `plain`, `gz` the files of a key and day; `writer`, `event` the writer's step; `bot`, `todo`, `file`, `copy` the Telegram thread and the `gzip` it runs | `Take`, `Send`, `Open`, `WriteBody`, `WriteNewline`, `WriteFails`; `NextDay`, `BeginReport`, `Gzip`, `Skip`, `GzipOutput`, `GzipUnlink`, `EndReport`; `Restart` |
| `Routing` | model policy, routes, and the tables of admission, planner and usage events | operators, no state | `AllowsModel`, `Refusal`, `Plans`, `UsageModel`, `AddsStreamUsage`, `CompatibleWith` |
| `UsageScan` | usage found in a whole body and in a chunked stream | operators, no state | `Parse`, `Push`, `Finish` |
| `RequestPath` | a client request from the listener to its end; composes `Routing` and `UsageScan` with the registry's backends, tags and cached answers, probes, the queue's choice and the relay | `stage`, `plan`, `answer` of a request; `registry` the entries of `AppState::workers`; `conn`, `polled`, `job`, `relay` a worker's thread; `probe` its probes; `usage`, `captures` the events sent | `ReadRequest`, `AuthorizeRequest`, `PlanRequest`, `ExpireQueued`; `StartProbe`, `ProbeTimesOut`, `AnswerProbe`, `AnswerList`; `Register`, `Poll`, `Take`, `Pong`, `RelayHead`, `RelayChunk`, `FinishRelay`, `EmptyStatusLine`, `JobFails`, `Disconnect`, `OverseerRemove`; `DeleteKey` |
| `...Proofs` | theorems about the module they are named after, see *Proofs* | | |
| `MC...` | instances of these for TLC | | |

Abstractions worth knowing:

- A deque object is named by the enqueue that allocated it, so an `Arc` fetched
  before its key was removed stays distinct from the deque created later. A
  deque is a set of tasks with `ahead`, the tasks each was queued behind; the
  front is the task with nobody ahead left.
- `overdue` stands for the clock of the queue: a queued task may pass its timeout
  at any moment, and stays overdue.
- A key without limiter state is a key with empty windows and no slot in use, so the
  limiter's clean-up of empty states cannot be observed and is not an action.
- `Admission` and `RequestPath` do not look inside the queue: a queued request is taken by a
  worker whose poll finds it or expired by the overseer, which is what `QueueContract`
  promises.
- In `RequestPath` the answer to a probe reaches the prober and the cache in one step: the
  prober is waiting for nothing else, and the cache is overwritten whole.
- `RequestPath` gives each worker one connection, makes registration one step, and lets
  the limiter refuse any request: several connections and nonces are in `WorkerRegistry`,
  slots and windows in `Admission`. The worker map is a `HashMap`, so the planner's "first"
  worker is any of them.
- A key's record in `KeyCache` is its name and one list of rules, for both lists, which are
  written in one transaction with the name. A rule is a model or blank, with or without
  white space around it, which is what `normalize_models` tells apart; its duplicates are left
  out, since no reader of a list can see one. A model name in `Routing` is a name and a tag; a response's body a sequence of pieces, in
  which a usage record is two halves that a chunk may separate.
- A file of captures is a sequence of whole events, partial events and newlines. `gzip`
  is external: it reads to the end, completes its output, removes its input, and an error
  on the way leaves the input.
- One model and one day stand for all rows of usage, the request count for all figures.
- History variables (`taken`, `answered`, `dropped`; `admitted`, `reserved`,
  `released`, `raced`, `latest`, `late`; `moved`, `missed`, `wasLive`, `wasDead`, `swept`;
  `recorded`, `lost`; `overtaken`; `planned`) record what happened. No action's guard reads
  them; they only feed each other.
- Operators whose name contains `_Bug` are deliberate mistakes. They are used by
  no action; putting one in the place of its original must break the property that
  `PROJECT.json` names with it under "mutants".

## Runs

| Run | Instance | Shows |
|---|---|---|
| `queue` (`MCRequestQueue.cfg`) | two requests for one model, one of them a probe, and one for the node; two connections of one worker, which may stop polling; the overseer; see below for who meets | `ExactlyOnePlace`, `NoSleepOnWork`, `ExpiryIsDueAndTold`, `NoVisibleTaskUnlinked`, `FirstComeFirstServed`, `OwnWorkFirst`, `Refinement` of `QueueContract`, `VisibleLeaves` (liveness), types |
| `queue_orphan` (`MCQueueOrphan.cfg`) | the same | **violated**: `AnnouncedVisible`, see below |
| `task_pool` (`MCTaskPool.cfg`) | four jobs, core 2, room for four workers | `JobInOnePlace`, `NoStrandedJob`, `JobsRun` (liveness), types with true counters |
| `task_pool_core` (`MCTaskPoolCore.cfg`) | the same | **violated**: `CoreStays`, see below |
| `admission` (`MCAdmission.cfg`) | one key with one slot and one request per window of two ticks (a second window is unlimited); two inference requests and one discovery request; clock up to 3 | `SlotsAccounted`, `OnlyRacesOvershoot`, `WindowLimit` |
| `slot_leak` (`MCAdmissionLeak.cfg`) | the same | **violated**: `CountsInFlight`, see below |
| `registry` (`MCWorkerRegistry.cfg`) | one worker; two connections of one life (nonce), one of the next | `OneLife`, `IndexNamesOne`, `AliasNeedsEviction`, `GhostsFromErrors`, `SparesTheFresh`, `GhostsLeave` (liveness); the types are proved |
| `key_cache` (`MCKeyCache.cfg`) | an admin's key and one more, two names, a tidy list of rules and an untidy one, three requests at a time (symmetric); one failing read, one restart | `StaleIsExplained`, `AcceptsLive`, `RefusesDead`, types |
| `usage_tracking` (`MCUsageTracking.cfg`) | two requests of a key, one without a key, two workers, batches of two, three names for two keys; one failing transaction, one restart | `EachCountedOnce`, `SentIsRecorded` (liveness), types |
| `capture_files` (`MCCaptureFiles.cfg`) | three captured requests of two keys, two days; one failing operation, one restart | `Kept`, `OneSpoiltPerFault`, `EndedDayCompressed` (liveness), types |
| `request_path` (`MCRequestPath.cfg`) | a request of any route, with any key or none, with and without a Node header and the fields the route reads; a second one for a model list; a client's and an admin's key with tagged and bare rules; two workers, one of which is Ollama or vLLM from poll to poll, one SystemOne; bodies with two usage lines, a line broken by a newline, none | `WithinPolicy`, `ListsFaithful`, `RightWorker`, `RecordedOnce`, `TokensAsRelayed`, types |
| `request_ends` (`MCRequestEnds.cfg`) | the same workers and one request: an administrator's of each route that gets through, or one for a node | `EveryRequestEnds` (liveness) |

Why these bounds. The queue's races need two enqueues of one key (the second finds
or misses the first one's deque), two pollers in the same route (one empties what
the other locks) and the overseer between any two steps; a probe next to a client
request tells the two kinds of expiry apart, and the node's request is what a poller must
take first. `MCBound` says who meets: two requests and a poller, or one and both. Nobody whose
steps are fair is kept from going on by it, and the safety properties are proved without it.
`generation` grows once per request and pollers may poll for ever, so nothing
else is bounded. In the pool, four
jobs overfill the queue while two workers are busy, so both growth and the refusal to
grow occur, twice each; the pool grows only when more jobs wait than workers live, so that
`PoolAssumption` (as many names as jobs) leaves no growth out. In admission, a
clock of three ticks lets a window of two expire and fill again, one slot makes every
overshoot visible, and the discovery request is the one that releases what
it did not reserve. In the registry, two connections of one nonce
are needed to empty an entry, make it anew and meet an old index again, and the third meets
a ghost of the previous life; workers of different names share nothing but the lock.
In the key cache, two threads make one race; a third is the client that meets its
outcome, or the second administrator. A second name lets a rename meet a taken one, and the
untidy list has an entry that normalising changes and one it drops. In usage
tracking a batch of two is cut between the two events of the renamed key or after
both, and the third event is left for the timeout; the third name is what a rename needs. In
the captures, a second event of a key is what a partial line spoils and what is written
while `gzip` works, and the second key is what a failing compression must leave alone. On
the request path one request suffices for policy, the choice of the worker and what is
recorded: requests share nothing there but the workers and their cached answers, the workers'
every change is an action of its own, and no plan but a list's reads a cached answer. The lists
need two, for a list uses a cached answer only where its own probe found none, so that another
request's probe must have filled it: `MCBound` lets a second request in when both ask for a
model list, the same or the other one, of a worker whose models change, together or one after the
other. It lets both workers in for each route's typical requests, so that each of
the planner's routes is met with no, one and two workers, before, between and after their
polls; of the rest, which differ in what policy makes of them, either worker is met alone.
For the end of a request its key and its fields say nothing that its plan
does not. `Awaited` stops workers once no request can need one.

`MaxTime`, `LastDay`, `MaxFaults` and `MaxCrashes` are the only caps on counters, and the two
`MCBound` the only constraints.

Deadlock is checked in the runs of the queue, the pool, admission, the key cache and
usage tracking, where some thread can always move (a poller polls again, a worker times
out, a snapshot is read, a key is verified, a key is renamed). It is not in the registry's:
when every node has disconnected nothing happens until another comes; nor in
`capture_files` and those of `RequestPath`, which end when their days and requests have.

### What the violated runs say

- `queue_orphan`: `enqueue_model` fetches the deque's `Arc` under the index's lock and
  pushes later. If the overseer or a dequeue removes the still empty deque's key in
  between, the request lands in a deque nobody can find. It is announced ("Called
  once the task is visible in its queue", queue.rs:145) and is not visible: no worker
  takes it and no overseer pass expires it. `VisibleLeaves` and `QueueContract` state
  exactly what remains true: a request that is visible once it is pushed always leaves.
- `slot_leak`: a slot is reserved in `authorize_request` and released in
  `handle_poll` only. A request the planner answers or rejects, or that expires in
  the queue, keeps its slot: `concurrent` is not "Current number of in-flight requests
  for this key" (rate_limiter.rs:51).
- `task_pool_core`: a worker whose wait times out retires while `workers > 1`
  (taskpool.rs:150), whichever it is: nothing tells the "evergreen" core workers (taskpool.rs:3)
  from the others, and an idle pool decays to one worker, not "back toward the core size"
  (taskpool.rs:6).

Further differences between comments or tests and code, met while modelling, without a run:

- Two requests that pass `check` before either calls `start_request` both get the last slot
  (`OnlyRacesOvershoot` bounds by how much).
- The timestamps of a window are "Sorted" (rate_limiter.rs:15) only if racing callers take the
  mutex in the order of their clock reads (`WindowLimit` is stated for keys where they did).
- A worker that `try_handoff` has notified stays counted as idle until it has the mutex again, so
  that the jobs of a burst are all taken for handed off to it, where the pool is to "track burst
  depth" (taskpool.rs:95). With no worker idle a new one is spawned only if the queue is longer
  than the number of workers, so that with `n` busy workers the first `n` further jobs wait
  (`JobsRun`: until a job ends).
- "matched by key_id, falling back to key_name" (usage_tracking.rs:250) is an OR in the query, so
  a key is shown the rows of another one that had its present name when last recorded.
- A key is written to the table through `normalize_models` and cached as the request gave it
  (keys.rs:71, key_store.rs:69), where the tests expect the lists to agree (keys.rs:288) and use
  tidy lists only. Until a refresh a blacklist entry with a space around it blocks nothing, and a
  whitelist of one blank entry allows nothing.
- A key that `delete` has removed may be accepted again, against what the test
  `delete_removes_key_from_database_and_cache` (keys.rs:387) expects of a single thread, if a
  `verify` had fetched it, or an `insert` had not cached it yet, and writes the cache after the
  refresh: the entry then stays until the next refresh. `StaleIsExplained` lists these ways and the
  rules' one; there are no others.
- The answers to `/api/tags` and `/v1/models` are cached in one field (probe.rs:90, :105), and
  neither list finds its array in the other's answer (planner.rs:322). A worker that cannot be
  asked is then missing from a list, where the tests expect it to be shown from its cached catalog
  (planner.rs:1008, probe.rs:199).
- A keepalive does not always refresh "the connection's last-ping timestamp"
  (worker/server.rs:110). The overseer removes a connection that was silent for the polling
  timeout, or relays for longer than the working one, although its thread goes on, and nothing
  registers it again: it is offered no model work, and its index may come to be another
  connection's (`AliasNeedsEviction`: that is the only way in).

## Fairness

- `RequestQueue!FairSpec`: time passes for queued requests and the overseer's loop goes on.
  Nothing makes a client send, an enqueue finish or a worker poll; `VisibleLeaves` holds by the
  overseer alone.
- `TaskPool!FairSpec`: weak fairness of a worker's own steps (it runs when it has the
  mutex; jobs end since their sockets have timeouts) and strong fairness of the
  condition variable's timeout, since spurious wakes may disable it over and over.
  Nothing makes the listener submit.
- `WorkerRegistry!FairSpec`: the overseer's loop goes on, and time passes for a
  connection. Nothing makes a node send, so `GhostsLeave` is the overseer's doing.
- `UsageTracking!FairSpec`: the usage thread goes on, since `recv_timeout` returns within a
  second. Requests need not end and keys need not be renamed.
- `CaptureFiles!FairSpec`: the writer goes on, the Telegram thread returns from its calls,
  and days pass. `NextDay` waits for the thread to have noticed the day before: it looks many
  times a day. Without a Telegram token the thread does not run and nothing is compressed.
- `RequestPath!FairSpec`: the proxy's threads go on, a probe times out, the overseer
  expires what is queued, and a response ends, completely or with an error (sockets have read
  and write timeouts). Nothing makes a worker connect, poll or stay, so
  `EveryRequestEnds` holds by these alone. That the overseer
  sees what is queued is `VisibleLeaves`: a request orphaned as in `queue_orphan` is the
  exception, and is left out of `RequestPath`.

## Proofs

TLAPS proves every safety invariant and action property of the passing runs but one
(`TokensAsRelayed`), and the refinement of `QueueContract`, for any values of the constants
that satisfy the module's assumption. Each theorem is an `Init`/step/implication
argument over an inductive invariant, whose step has a case or a lemma per action.

| Module, from | Theorems (property) |
|---|---|
| `RequestQueueProofs`, `QueueAssumption` | `TypeCorrect`, `ServedAtMostOnce` (`ExactlyOnePlace`), `ExpiryIsDue` (`ExpiryIsDueAndTold`), `NoLostWakeup` (`NoSleepOnWork`), `RemovalHidesNothing` (`NoVisibleTaskUnlinked`), `FirstComeFirst` (`FirstComeFirstServed`), `OwnWorkComesFirst` (`OwnWorkFirst`), `QueueKeepsContract` (`Refinement`) |
| `WorkerRegistryProofs`, `RegistryAssumption` | `RegistryTypes`, `RegistryOneLife`, `RegistryIndexNamesOne`, `RegistryGhostsFromErrors`, `RegistryAliasNeedsEviction`, `RegistrySparesTheFresh` |
| `KeyCacheProofs`, `KeyCacheAssumption` | `CacheTypes`, `StaleRecordsExplained` (`StaleIsExplained`), `AcceptedWasLive` (`AcceptsLive`), `RefusedWasDead` (`RefusesDead`) |
| `TaskPoolProofs`, `PoolAssumption` | `PoolCounters` (`TypeOK`), `NoJobStranded` (`NoStrandedJob`), `JobsInOnePlace` (`JobInOnePlace`), `NamesSuffice` |
| `AdmissionProofs`, `AdmissionAssumption` | `SlotsAreAccounted` (`SlotsAccounted`), `OnlyRacesExceed` (`OnlyRacesOvershoot`), `WindowsLimit` (`WindowLimit`) |
| `UsageTrackingProofs`, `UsageAssumption` | `AccountTypes`, `EventsCountedOnce` (`EachCountedOnce`) |
| `CaptureFilesProofs`, `CaptureAssumption` | `CaptureTypes`, `WrittenIsKept` (`Kept`), `FaultsSpoilOne` (`OneSpoiltPerFault`) |
| `RequestPathProofs`, `PathAssumption` | `PathTypes`, `EveryPathWithinPolicy` (`WithinPolicy`), `ListsShowTheVisible` (`ListsFaithful`), `TheRightWorkerTakes` (`RightWorker`), `ResponsesRecordedOnce` (`RecordedOnce`) |

The assumptions say that the constants have the shapes the modules declare them for
(a key for each request, a name and a nonce for each connection, `None` outside the sets it
is told from, finite sets where something is counted) and these facts of the code: node
keys come first in a scan and nowhere else; a window is longer than nothing
and a batch holds at least one event; the first key of a new database is an administrator's;
a request's route is one of the listed ones. They bound nothing but the clock, the days, and
the numbers of failures and restarts, each by an arbitrary number, and in the pool the
names of threads: `NamesSuffice` proves that this bound is never felt.

**Queue.** A poller that holds an `Arc` may push anything anywhere unless the `Arc` is a
deque of the key it works on; a parked poller says nothing unless the scan before it is
accounted for. The invariant has three parts, and two results add to it:

- `Shape`: types; `ArcsOk`, every held `Arc` and snapshot entry is an allocated deque of
  its holder's key; `IndexOk`, an index entry is an allocated deque of that key and a
  deque only holds requests of its key, none before it is allocated.
- `ExactlyOnePlace` and `ExpiryIsDueAndTold`, inductive on top of `Shape`.
- `Wakeup`: a poller in its first attempt with no announcement since its mark has
  left nothing announced under the keys behind it; if it is about to lock a deque that
  has lost its key since, there is nothing announced under that key. Only such a poller
  parks. Requests become visible only in `PushBack` and announced only with a change of
  `generation`, which is why the generation check closes the window. The same invariant
  gives `OwnWorkFirst`: the node's key is behind a poller that is about to take model work.
- `AheadOk`, for `FirstComeFirstServed`: what a request was queued behind was pushed before it
  and, while both wait, waits in the same deque.
- `QueueKeepsContract` maps each step to its step of the contract: a push accepts, a pop
  dequeues at most one request and the overdue probes before it, a pass of the overseer
  expires and then answers, and every other step leaves the life of each request as
  it is. That removing a key strands no request is `RemovalHidesNothing` again.

**Registry.** The invariant adds two parts to the properties. `OwnersOk`: a
connection's index, name and nonce are those of the thread that registered it.
`LookOk`: no thread that the overseer spared has its name and index on the overseer's list,
since within an entry an index names one connection; that is kept until the removal because
a thread draws its index once. Most steps are shown together: they leave each
registration in place but for its phase and age (`Quiet`). The four others, to register,
to disconnect, and the overseer's two, have a lemma each.

**Key cache.** What `StaleIsExplained` lets a cached record be is the row, or what the rows were
made from when the key was created (`AsGiven`), or the outcome of a named race. It says nothing of what a thread will write to the cache
next, so it needs `HeldOk`: what a thread has read of a row, or has written to it, and has not yet
cached is the row's present content, or what that was made from, unless the row was changed
since (`moved`). `DeadIsExplained` is the same
for a record whose key is gone, and `VerdictsOk` follows a `verify`: at each of its steps the
key's present state is among those it has been seen in, and a record that has vanished
before the second read of the cache was dropped by a refresh. The two action properties
are read off the last steps of `verify`.

**Thread pool.** The counters of `TypeOK` count threads and are inductive by themselves;
`NoStrandedJob` is inductive with them: a thread retires, and a spawn wakes nobody, by the
counters, under the lock under which the queue was looked at. `JobInOnePlace` needs
`RunnersHaveJobs`, that a thread has a job exactly while it runs.

**Admission.** `SlotsAccounted` needs `SlotsOk`, what is true of a request at each stage
(which key its task and `handle_poll`'s cleanup carry); the counter saturates at zero, so it
is bounded from both sides rather than equal to the reservations. `OnlyRacesOvershoot` is
inductive with the same part. For `WindowLimit`, `WindowsOk` says that for a key whose callers
came in order the stored timestamps are sorted and are the tail of the admissions that
pruning leaves; the lemmas about sorted sequences (`BelowIsPrefix` and those after it) show
that the pruning drops exactly the admissions outside the window.

**Usage tracking.** `EachCountedOnce` counts; the invariant says it with sets (`PlacesOk`:
channel, batch, tables and losses are disjoint, without repetition, and together the events
of the finished requests) and `CountsOk` ties the tables to what is recorded.

**Captures.** `Kept` needs to know what `gzip` has read (`GzipOk`: its copy is a prefix
of the file, and what follows came too late) and that a file is compressed once (`DaysOk`).
`OneSpoiltPerFault` is not inductive: a failure spoils no event yet, it leaves a line without
its end for the next one to spoil. `SpoiltOk` counts both, the events spoilt and the files
that would spoil the next.

**Request path.** `KnownOk` says of every stage what the policy and the planner have
established by then. It rests on lemmas about the tables of `Routing`: `PlansAreSound`, every
plan names a model the request asked for or a node that has what the route needs, and
`TablesAgree`, admission checks every model that the planner routes by, whether to any worker or
to the one that has the model, and every model that usage is recorded under, and refuses a
client every route that changes or inspects workers. `AdmissionReads` has what an accepted
request has passed. The code has these tables in five places, and nothing but their text keeps
them together. `JobsOk` (a request is on one worker's thread exactly while it is taken) and
`RecordInv` (nothing of it is recorded before) give `RecordedOnce`.

Only model-checked:

- Liveness (`VisibleLeaves`, `JobsRun`, `GhostsLeave`, `SentIsRecorded`,
  `EndedDayCompressed`, `EveryRequestEnds`): it rests on fairness and thus on `ENABLED`,
  outside the prover's reach.
- `TokensAsRelayed`: what `Push` has found when a stream was cut anywhere is an induction over
  the stream, as is what `SelectSeq` leaves of it, and induction over data is out of
  reach too. `RecordedOnce` has what can be proved of a relay without looking into its body.
- The violated properties (`AnnouncedVisible`, `CoreStays`, `CountsInFlight`), which TLC
  refutes.

## Not modelled

- Poisoned locks and panics (a panicking job would leave its dead thread counted in
  `workers`).
- Text: parsing of request lines, headers and chunk sizes, JSON layout, log lines, messages of the
  Telegram bot, the ini file, the dashboard. A connection whose request
  does not parse is closed before anything happens, an OPTIONS request answered 204.
- The SQL schema and its migrations (storage layout), and the reports that only sum or list
  what is stored: usage by day and worker, the queue's `snapshot`, the workers' summaries.
- The rebuild of a deque at an expiry (queue.rs:518): the model keeps of each request whom it was
  queued behind, so `FirstComeFirstServed` is about the order of takes by several threads and
  would not see a rebuild that reorders. That the 504 of an expired request reaches its client is
  a write to a socket: `ExpiryIsDueAndTold` says it is attempted, once.
- For a key whose callers take the limiter's mutex in another order than they read the clock,
  `WindowLimit` promises nothing, as the code's binary search does not.
- A look-up of a key that fails for a moment: in `KeyCache` and `RequestPath`, not in `Admission`.
- The pieces in which an event is written to its file: `WriteBody` writes it whole and
  `WriteFails` stops in the middle, but nothing happens between two pieces of a write that goes
  on, such as `gzip` reading the first. A clock that goes back over midnight.
- Models that `WithinPolicy` does not claim, because the code does not check them: the name a
  model is copied to or created under, and an administrator's Node-targeted discovery request,
  which is relayed with the worker's whole answer (`Concerned` names what is claimed).
- Retry hints of the limiter. A change of a key's tier, role or rules while a request is in
  progress: `KeyCache` has the change, `RequestPath` only the deletion.
- In `RequestPath`: an error of an enqueue (a poisoned lock), several connections of one worker
  (`WorkerRegistry` has them), several requests at once but for the lists, the `Authenticating`
  phase between a connection's registration and the answer to its AUTH (`WorkerRegistry` has it),
  worker commands of the management API (requests for a node whose answer goes to a
  channel, as a probe's does).
- A writer that does not start, because the capture directory cannot be made or the database
  not opened.
- The platform case of `rate_limiter.rs:28` where the clock cannot be moved back by a window is
  taken not to occur.

## Plan

Open, by what it would add:

1. Worker commands of the management API, several connections of one worker in `RequestPath`,
   and the summary of their tags; each is a change of `PathInv` as well.
2. An abstract specification of one request's life (admitted, queued, served by one worker,
   recorded once) that `RequestPath` implements, with its step-by-step proof.
3. A window without a limit (rate_limiter.rs:155), a job that panics (taskpool.rs:169) and the
   order in a rebuilt deque (queue.rs:518): the three hazards no property covers.
