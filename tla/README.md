# A specification of Infera's serving path

Infera serves large language models from a fleet of engine workers. Workers
register with etcd or with the Kubernetes API; a server mirrors the
registrations into a pool; a router sends each request to one worker, or to a
prefill and a decode worker, over HTTP or NATS; a policy chooses workers from
what their KV caches hold, which it learns from a stream of events; a circuit
breaker keeps failing workers out of rotation; a daemon on each node keeps KV
blocks for the engines of that node. The repository also holds `agent_sys`, which
runs graphs of tasks. This directory has TLA+ modules for the control logic of
these parts, TLC configurations that check them on small instances, and TLAPS
proofs of the most important invariants for instances of any size.

Paths below are relative to `src/infera/`, those of `agent_sys` to `src/`.
`PROJECT.json` maps each definition to the lines it models and lists the hazards
each property is aimed at.

## 1. The system: parts, state, operations

| Part | Source | State | Operations that change it | Module |
|---|---|---|---|---|
| Circuit breaker | `router/breaker.py` | per worker: state, consecutive failures, cooldown, probe slot | `allows`/`filter`, `record_success`, `record_neutral`, `record_failure`, `forget`, time | `CircuitBreaker` |
| Worker pool, canaries, listeners | `common/worker_pool.py`, `common/discovery.py`, `server/__main__.py` | pool, reference canary per model, subscriptions, reconciler targets | upsert, remove, mark draining, and the listeners behind them | `WorkerPool` |
| etcd discovery | `common/discovery.py`, `common/registration.py` | keys and leases, the watch stream, the client's lease | register, heartbeat, deregister, expiry, snapshot, watch, reconnect, stop | `EtcdDiscovery` |
| Kubernetes discovery | `common/discovery_k8s.py`, `common/registration_k8s.py` | Pods and annotations, watch log, Pod-to-worker table | register, deregister, list, reconcile, watch, event, expired version | `K8sDiscovery` |
| In-flight accounting | `router/policy/kv_event_aware.py` | block reference counts per worker | `on_request_started`, `on_request_finished`, `on_worker_removed` | `BlockRefs` |
| Mixed router | `router/mixed.py` | per request: attempt, tried workers, migrations left | dispatch, attempt, admission, answers, first event, end, resume | `MixedRouter` |
| Migration | `router/migration.py`, `router/mixed.py` | text, ids, poison flags, budget left | `observe`, break, `next_continuation` | `Migration` |
| NATS transport | `common/nats_request.py` | messages, inboxes, proxy tasks, backlog cache, drain phase | client: admit, publish, read, time out, cancel; worker: take, proxy, reply, ack, drain | `NatsRequest` |
| Prefill/decode router | `router/disagg.py`, `router/pd_abort.py`, `router/disagg_protocols/` | per request: both legs, engines, verdicts | dispatch, handoff, open and retry, stream, abort, drain, cancellation | `DisaggRouter` |
| KV view over NATS | `kv/nats_relay.py`, `kv/nats_bus.py`, `engine/flush.py`, `router/kv_event/` | the engine's blocks, the relay's and the router's views, stream, bucket, writes on their way | store, remove, clear; flush and register; forward, rebuild, write, fail; track, replay, seed | `KvView` |
| kvd | `kvd/store.py`, `kvd/shared_arena.py`, `kvd/server.py`, `kvd/ssd.py`, `kvd/client.py` | slots, leases, versions, rows, eviction log, two SSD regions, what readers hold | set, reserve, fill, commit, cancel, get, get_many, check, copy, expire, clear, warm, restart | `Kvd` |
| Task scheduler | `agent_sys/task_graph/` | status, leases and attempts per task, handoff slots | submit, stop, `on_task_done`, `resume_task`, the dispatch pass, `resume_all` | `TaskScheduler` |
| Attempts, runner, monitor | `agent_sys/agent/`, `agent_sys/monitor/` | threads, wakes, the planned queue, published versions | the three phases, gate, seal, crash, halt, carry on, advance, unfold, shut down | `TaskAttempt` |
| KV index over ZMQ, engine drain, decode barrier, session affinity | `kv/`, `engine/`, `router/policy/` | | | section 7 |
| Operator, planner, gateway, tools | elsewhere | | | section 8 |

How the parts interact:

- A worker registers (`EtcdDiscovery`, `K8sDiscovery`). The registry upserts the
  record into the pool after the canary check, and tells the server's listeners,
  which open a KV event subscription and a reconciler target (`WorkerPool`).
  A removal drops the policy's counts and the breaker's entry.
- A router asks the breaker which candidates are allowed, lets the policy pick,
  charges the worker (`BlockRefs`), dispatches, and reports the outcome to the
  breaker and the policy (`MixedRouter`, `DisaggRouter`, `CircuitBreaker`).
- Over NATS the dispatch is a publication to the worker's subject and a reply
  inbox (`NatsRequest`). A worker that drains hands back what can be continued
  elsewhere, and the mixed router carries the stream on (`Migration`).
- A worker flushes its engine before it registers, so that its relay starts from a
  known cache. The relay forwards the engine's events to the routers and keeps a
  bucket from which a late router seeds itself (`KvView`).
- Engines save blocks into the daemon of their node through leased slots of a
  mapped arena, and read them back through the same mapping (`Kvd`).
- In `agent_sys` the scheduler launches attempts, an attempt reports the end of a
  phase to the monitor, and the monitor moves the task on, submits its subgraph
  and wakes the attempt (`TaskAttempt` over `TaskScheduler`).

What makes the code hard to get right, and so what the models keep: outcomes that
arrive after the state they speak of has moved on; a watch that loses events; a
process that is killed and restarted under the same key; awaits at which a client
may leave; two workers charged for one request; a worker that drains while
requests are on their way to it; a stream that breaks and is carried on; two
coroutines that write one bucket; a slot that is reused between an answer and the
copy made from it; a thread that outlives the attempt it belongs to.

## 2. Modules

    WorkerPool ---- EtcdDiscovery ---- MCEtcdDiscovery
                \-- K8sDiscovery  ---- MCK8sDiscovery
                                       both: DiscoveryProofs
    BlockRefs ----- DisaggRouter  ---- MCDisaggRouter
    CircuitBreaker ------------------- MCCircuitBreaker
                                       both: DisaggRouterProofs
    BlockRefs ----- MixedRouter   ---- MCMixedRouter
    ClientStream <- Migration     ---- MCMigration
    NatsRequest ---------------------- MCNatsRequest
                                       all three: RequestProofs
    KvView --------------------------- MCKvView, KvViewProofs
    Kvd ------------------------------ MCKvd, KvdProofs
    TaskScheduler - TaskAttempt   ---- MCTaskAttempt
                             \-------- TaskInvariants (definitions only)
                                         TaskAttemptProofs, TaskProtocolProofs
                                         both: TaskOutcomeProofs

`RequestProofs` extends three specifications, so the names of `Migration` and
`NatsRequest` that another one uses carry a prefix (`MigrationSpec`, `natsVars`, ...).

**CircuitBreaker.** A worker's entry with the requests that report about it. Time
is kept as what is left of each deadline and `Tick` lets one unit pass, so the
state is finite without a clock. `Dispatch` is a router's `filter` (which claims
probe slots of every half-open candidate, whether or not it is then chosen)
followed by the choice. `Abandon` is a request that ends and reports nothing.

**WorkerPool.** The part of the server that both backends drive. A registration
record is reduced to the fields that are told apart (parses, model, canary, kv
block, events port, snapshot target). `upsert`, `remove` and `mark_draining`
include the listener calls. `subs` is the set of endpoints with a subscriber, since
that is how the code keys them; `contested` is history: endpoints that two workers
have announced at once.

**EtcdDiscovery.** `store` is etcd, `client` the running processes, `holds` those
whose client keeps the lease of its own key alive. `stream` is what the watch has
sent and the server not read. The code opens the watch without a start revision,
so `KeyChange` reaches `stream` only while a watch is open. `stale` is history: the
workers whose last change was lost or refused.

**K8sDiscovery.** Pods with annotation, phase and deletion mark; list, per-Pod
handling, reconciliation of absent names, watch from the list's version, and the
410 that sends the registry back to the list. An address is a worker id, and may go
from one Pod to another; `crossed` is history: the addresses that did so while the
registry's table still had them under the first.

**BlockRefs, MixedRouter.** Each action is what one request does between two
awaits. Which candidates the breaker leaves and which one the policy picks is
open. A request may be cancelled at any of its awaits (`drop_unguarded`,
`end_stream`, `left_resuming`). `leaked` is history: charges whose request ended
without releasing them.

**Migration, ClientStream.** One streamed generation. A token is its place in the
generation and a worker goes on from what it was given, so output the
continuation left out is read twice. `ClientStream` is the abstract promise;
`Migration` refines it (`out <- seen`).

**NatsRequest.** Routers, broker and one worker. A message is queued, handed to
the local subscription, delivered, acknowledged; a proxy task streams frames into
the inbox; the drain of `stop()` is taken phase by phase.

**DisaggRouter.** Ten ways to dispatch (concurrent or serial, HTTP or NATS,
unary or streamed, with or without an id to abort by). `leg` is what the router
knows of each leg, `engine` what the engine does, `verdict` what the breaker was
told. The client may leave at every await (`drop_*`).

**KvView.** One worker with one rank, its relay, the broker and one router. A view
is a set of blocks together with the map from engine hashes to router hashes that
removals need. `puts` are the bucket writes on their way, tagged with the coroutine
that awaits them (`_loop` or `_drain_dirty`); `rebuilding` is one that found the
bucket gone. `exact` is history: since the clear it last applied, the router has
followed the stream without a loss or a seed. Nothing orders a reader of the
stream with a reader of the bucket. The bucket is one for all workers: another one
that rebuilds it (`AnotherRebuilds`) takes this worker's entry away. `stale` is
history: why a clean view need not be in the bucket.

**Kvd.** The daemon is one event loop whose handlers do not await while they touch the
store, so a handler is atomic for other handlers, but not for the engines that map the
arena. A put is therefore two steps (the slot's version becomes odd, then the bytes and
the even version), and `job` is the handler in between. An engine has an answer (`view`),
then compares the version, then copies. `pending` is the eviction log: keys whose slot a
reservation took and whose row the store has still to drop. It holds `EvictLogCap` keys
(4096 in the code); `rolled` is history: the keys that fell off a full one. The bytes of a
block are named by its composite `<<namespace, key>>`.

**TaskScheduler, TaskAttempt.** An operation of the scheduler holds its lock to the end
of the dispatch pass it starts; attempts write slots without the lock, so the pass is
taken task by task (`pass`). An attempt is numbered and its thread has a `pc`; a retried
task has two, of which the older may still be running. A task has any number of
outputs, opened and sealed one after the other, and either loop may raise between two:
`orphan` is history, the versions then left open for nobody. A task that reserves
tokens settles them; one that does not is charged what it reports, below zero if it must
be (`overdrawn`). The monitor reads a status and
writes the next one in two steps (`mon`), as `enter_phase` does. `why` is history: what
disturbed the current attempt of a task. So is the mark `early` of a subgraph's
announcement: the end task that announced it had been hurried on by an earlier attempt,
or has a further one by now.

## 3. What the runs check

| Run | Properties | What it shows | Distinct states |
|---|---|---|---|
| `breaker` | ExclusionEarned, OutageStateIsReset, NeverWedged | exclusion is earned by consecutive failures; probe claims and backed-off cooldowns end with their outage; no lost outcome keeps a worker out for ever | 26 thousand |
| `etcd` | PoolFollowsStore, TokenizersAgree, GoneLeavesPool | the pool is wrong only about changes that were lost or refused; a worker that is gone leaves it; routed workers of a model share a tokenizer | 176 thousand |
| `k8s` | RoutesToCandidates, KvWorkersWatched, CondemnedLeaves | after any lost watch the registry catches up to exactly the addresses of candidate Pods, but for refused records and addresses that changed Pods unseen; what is routed to is watched, through draining and return, but for endpoints that two workers announced at once | 2.0 million |
| `mixed` | TypeOK, LoadIsAccounted, Answered | every attempt is charged while it lasts, through failover, refusal, migration and cancellation, and the charges that are lost are named; the retry loop ends unless an HTTP worker never answers | 493 thousand |
| `migration` | IdsCoverRead | ids still relied on are those of everything the client read | 14 thousand |
| `migration_plain` | BudgetKept, OneUninterruptedStream | with plain-text engines the router implements `ClientStream` within the budget | 4 thousand |
| `nats` | DrainIsPlanned, GaugeIsLive, EachAnswered | a drain is a planned handover, the backlog gauge counts work in progress, requests are answered while the worker is up | 561 thousand |
| `disagg` | TypeOK, PairIsAccounted, NoneRunsUnheard, ScoredByItself, AdmittedOnce, PairWindsUp | both workers released once, engines told, each scored by its own answer, the decode sent once, a settled pair winds up | 297 thousand |
| `kvview` | TypeOK, RelayTracksEngine, ExactReplay, CleanIsWritten, Settles | after an observed flush the relay holds what the engine holds; a router that replays is behind it by what it was not delivered; a clean view is in the bucket, but for the cases `stale` names; when the engine goes quiet all three agree | 1.0 million |
| `attempts` | TypeOK, LeasesBalance, OneWriter, PublishedFirst, NobodyForgotten, SuccessIsUsable, Finishes | leases and attempts balance, in runs without a race on a status; an open version has one writer, or none if it was left open between two outputs or by a process that died; a task is validated only after its outputs are published, by itself or by its subgraph; an undisturbed task in a phase is somebody's; a graph that nothing disturbs finishes, restarts included | 619 thousand |
| `kvd` | OneOwner, RowsPointHome, ReadsOwnBlock, BilledForInline | a slot has one owner; a row points at the slot of its key or is about to be dropped; a single read gets its own block or nothing, in both cases unless the key rolled off the full log; the store is billed for what it holds inline | 540 thousand |
| `kvd_shared_keys` | ReadsOwnBlock (violated) | the same key in two namespaces: the row of the first is answered with the bytes of the second | |

Each property has a mutant in `PROJECT.json`, a plausible slip in one definition
(`AfterSuccessKeepsBackoff`, `UnpinAlways`, `cleanupNoAck`, `TakeSilently`, ...),
under which TLC finds the property violated. The mutants stand beside the
definitions they change.

Some runs leave out a type invariant that is proved (section 4). That of `Kvd` is
proved for the arena and, with torn bytes allowed, for the store (`StoreTypeOK`).

### Bounds

- Two workers and two requests are what the properties relate: an attempt and its
  failover, a worker and the one that disagrees with it, a request and the one
  that takes its probe slot. The fleet properties speak of pairs of workers.
- `MCEtcdDiscovery` and `MCK8sDiscovery` give each worker its own records: one
  moves its port or loses its kv block, the other changes its tokenizer or sends
  a payload that does not parse. `MaxStream` and `MaxLog` (2) let a second event
  arrive before the first is read. In the Kubernetes instance one of the two Pods
  may be given either address and announces, when it moves, the events endpoint of the
  other; the proof of `RoutesAreCandidates` has each name keep its own address.
- `FailureThreshold` 2, `Cooldown` 1, `MaxCooldown` 3: the doubling meets the
  ceiling between two powers. `ProbeTimeout` 2 outlasts the first cooldown.
- `MaxRetries`, `MigrationLimit`, `MaxOpenRetries` 1 in the routers: the last retry, the
  last migration and the one beyond are all reached. `MaxLeaks` 1 bounds history.
- In `migration` three tokens and two migrations: the ids can be abandoned
  before, between and after the moves.
- `Limits = {0, 1}`: core NATS and JetStream with a backlog that is full with one.
- In `disagg` the first request takes each of the ten ways, the second is a unary
  HTTP pair beside it.
- `MCKvView`: a chain of two blocks, so that a block can arrive whose parent is unknown.
  Five worlds, each with one kind of trouble (flushes that fail, bucket faults, stream
  faults, worker restarts, router restarts); `Budgets` says how often each may happen.
  Two bucket faults reach a rebuild that fails, or whose write does, or a rebuild by
  another worker beside it.
- `MCTaskAttempt`: a task with a subgraph of two, one with a subgraph of one, and a
  chain of two leaves, the first with two outputs, on one GPU and two tokens, of which
  the second leaf reserves one and the first may report three that it did not reserve. A
  world submits one of the graphs and bounds the refusals, the interventions of an
  operator and the restarts; a stop, a resumption and an output that fails half-way come
  together for a single leaf. Two attempts of
  a task are what a late thread needs. The graphs have the shape that section 4
  supposes; the module assumes it (`GraphsAreWellFormed`), so TLC evaluates it.
- `MCKvd`: two slots and three connections, so that one lease and one put compete
  for the last slot while a third reads; two blocks that fit a slot and two that do
  not, with room for one inline, and a log of one key, so that the second eviction before a
  drain rolls one off. `World` bounds saves, loads, leases and losses
  together. Keys that behave alike, and the two sharing engines, are symmetric.

### Fairness

- `CircuitBreaker`: time passes. Nothing is assumed of requests or their outcomes.
- `EtcdDiscovery`: the watch loop reconnects and reads. A lease that nobody keeps
  alive runs out; this is strong fairness only because `MaxStream` can bar the
  deletion now and then, which etcd itself would not do.
- `K8sDiscovery`: the registry's loop lists, reconciles, watches and reads.
  Nothing is assumed of the Pods.
- `MixedRouter`: over NATS an attempt is answered or fails, for which the idle timeout
  sees, if it is left on (it is by default). Over HTTP there is no read timeout
  (`router/mixed.py:65`), so nothing is assumed of a worker that has been sent a request,
  and `Answered` excepts a request that waits for one for ever. A stream that is
  committed may last for ever.
- `NatsRequest`: both event loops run, and the engine answers or fails. The
  timeouts are not assumed to fire.
- `DisaggRouter`: what the router does by itself after the decode is settled, and
  the drain timeout (`prefill_drain_timeout_s`, 300 s by default; at 0 the code
  waits without bound and `PairWindsUp` does not hold). Over NATS a
  prefill that stays silent ends with the idle timeout.
- `KvView`: the relay's two coroutines run, the write interval passes, the broker
  answers a write or fails it, and the router takes what it was delivered. Nothing
  is assumed of the engine, of restarts or of the order in which a router is told
  of the worker.
- `TaskAttempt`: the CLI submits, a dispatch pass goes on, the monitor's thread and
  every attempt's thread run. That a thread takes its next step supposes that executors
  and validators return: `_sweep` of the monitor (`agent_sys/monitor/base.py:580`) does
  nothing about one that never does. None is assumed to accept; `Finishes` is about runs
  in which none refuses, raises or is stopped, and which escape what section 5 lists
  under `"raced"`, `"stale"`, `"hollow"`, `"missed"` and `"stranded"`.

`CHECK_DEADLOCK FALSE` appears where the system may stop: a generation that ended
(`Migration`), a worker that was shut down (`NatsRequest`), an engine that is quiet
(`KvView`), a graph that is done (`TaskAttempt`), engines that ask for nothing more
(`Kvd`).

## 4. What is proved

The proofs hold for every value of the constants that satisfies the ASSUME of the
module; no instance is fixed.

**DiscoveryProofs** (`WorkerPool` under both backends). For etcd `EtcdTypeCorrect`,
`PoolIsFaithful`, `EtcdCanariesAgree`, `EtcdKvWorkersWatched`.
`TokenizersAgree` speaks of two workers and is not inductive. `Pinned`
strengthens it: the reference canary of a model is that of each of its workers.
`KvWorkersWatched` follows from `Stashed` (the stash holds the current record of
each routable kv worker) and `Backed` (what is stashed is a target, and is subscribed
to or contested). `PoolFollowsStore` needs `Quiet`: nothing is in the
stream while no watch is open, and nobody drains under etcd. Its hard case is the
arrival of one of several events of a worker, where only the last one counts.

For Kubernetes `K8sTypeCorrect`, `K8sCanariesAgree`, `K8sKvWorkersWatched`, and
`RoutesAreCandidates` under `OneAddressEach` (no two Pod names share an address and
no name changes its own; section 5 says what happens otherwise). `RInv` follows a
Pod through the registry: a pooled worker stands in the Pod-to-worker table
(`Tracked`), the last event about a Pod in the log is the Pod as it is (`Newest`),
a list that is being worked through differs from the cluster only where the log has
news (`Listing`), and while watching a Pod without news is routed as its state says
(`Watching`). The steps that matter are the ones that apply a list or an event that
is already out of date.

**RequestProofs: the mixed router.** `TypeCorrect`, `LoadAccounted`. The policy's counter
of a block is compared with the number of requests charged for it, a cardinality. A step
of one request moves both by at most one, in one of four ways (`Shift`: nothing, a charge
taken, released, or lost track of), and the finite-set theorems do the count once, for all
actions. What is lost track of is the charge of a streaming attempt that a broker error or
a cancellation breaks off before its first event is read. The strengthening (`Sound`) is
that whatever is charged names its worker and that a continuation goes to another one.
`Requests` is assumed finite.

**DisaggRouterProofs.** Of the router `TypeCorrect`, `PairAccounted`, `NoneUnheard`,
`EachScoredByItself`, `DecodeAdmittedOnce`. Requests meet only in the policy's counters,
so the invariant is one part for each request by itself and one that adds them up
(`Account`, by the same count). The first is `Shape`: the place of the handler tells
which legs are open, which are answered and which were never sent. From it follow
`Watched` (an engine that runs is listened to, unless it was told to stop), `Fair` (a
verdict is that of the leg's own answer) and the single admission. Of the circuit
breaker `BreakerTypeCorrect`, `ExclusionIsEarned`, `OutageStateResets`: `BreakerInv` says
that each entry is good (`GoodEntry`), that is typed, excluded exactly when its count is
at the threshold, for no longer than the larger of `cooldown` and `max_cooldown`, its
slot claimed only half-open, its next cooldown the configured one
when closed and never below what is left of the current one. These facts support one
another (the count can only be reset together with the state), so they are proved
together.

**RequestProofs: migration.** `MigrationTypeCorrect`, `ExactIsWhole` (IdsCoverRead, for
engines that send anything), `BudgetAddsUp` and `StreamIsUninterrupted` (the refinement
of `ClientStream`). The last two assume `"other" \notin Kinds`: both fail with tool
calls, for the reason section 5 gives. The refinement also assumes `LateBreaks = FALSE`:
a stream that breaks between its sentinel and its done frame is carried on past the
sentinel. Their invariant is `Whole`: the worker goes on from everything the client has
read, and as long as the generation can be carried its recorded text is all of it; the
refinement adds `SentinelIsLast`, that the sentinel was read from the worker now
streaming.

**RequestProofs: NATS.** `NatsTypeCorrect`, `DrainPlanned`, `GaugeLive`. Three things can
cancel a task: its router's signal, the handing back, and the end of the drain. The
invariant has a reason for each why a resumable request is not told "cancelled":
who sent a signal does not listen any more (`Silent`), who was handed back is marked
until its task has ended (`Told`, `Planned`), and every resumable request in flight
is on the list or marked once the list is drawn up (`Resumable`), so none is left
for the end.

**KvViewProofs.** `TypeCorrect`, `RelayHoldsEngine`, `RouterReplays`,
`CleanViewIsInBucket`, from one invariant, `KvInv`, for any number of rebuilds by others.
`CleanIsWritten` is about a mark
that two coroutines set and clear around writes that are on their way; its part
(`WriteInv`) adds that each has one write on its way at most, that `_loop` takes no
event while it awaits its own (so its write is current), and that of several writes the
last is current unless it is the one a rebuild delayed.

`RelayTracksEngine` speaks of a relay that has caught up and `ExactReplay` of a replay,
so the invariant must say where the events still on their way will lead. `Leads(c, q, d)`
says it without recursion: there is a function of the views in between that begins at
`c`, ends at `d`, and goes on by one `HandleEvent` at a time. `Tracks`: what is on the
wire leads the relay, from a clear on, to what the engine holds. `StreamFollows`: since
the last loss, what follows a clear in the stream leads from nothing to the relay.
`RouterFollows`: what an exact router has still to be delivered leads it to the relay. A
step publishes (`Leads` grows at its end), takes (it shrinks at its head) or clears (what
came before does not count). That the recursive replay of `ExactReplay` computes what
`Leads` says (`ReplayLeads`) is an induction over the events, done by the least
counterexample.

**KvdProofs.** `SlotsHaveOneOwner`, and under `KeysApart` (no two namespaces share a
key) `RowsPointAtTheirSlots` and `ReadsAreOfTheirOwnBlock`. `ArenaInv` is inductive
by itself. `KvdInv` adds what makes a version comparison meaningful: a leased slot
has an odd version, a row whose slot is not being written points at its own bytes,
and an answer whose version is still that of the slot is about the bytes of its
block. `KeysApart` is not true of every deployment, the ranks of a tensor-parallel
engine break it: `kvd_shared_keys` is the same property without it. Both theorems leave
out keys that rolled off a full eviction log, which the invariant keeps from leading
other rows astray; `NothingRollsOff` shows that there are none in an arena of at most
`EvictLogCap` slots, since a slot is logged for one key between two drains.

`BillIsExact` needs no such assumption. `_used_bytes` is kept by difference (`Drain`,
eviction, replacement, refusal and `clear` each adjust it), and `BilledForInline`
compares it with the cardinality of the inline rows. One lemma counts what a row more or
less does (`OneBill`); the others say which rows each operation drops, adds or replaces.
`BillInv` adds the types of the put under way and of the store, without which a row could
be the missing one.

**TaskAttemptProofs.** `TypeCorrect`, `LeasesBalanced`, `EverySlotOneWriter`, for every
graph, with any number of outputs per task, every pool and number of attempts, with
finitely many tasks. What is missing from a
pool is the cardinality of the units leased; `UnitsAdd` says that one task more or less
moves it by what the task needs. The balance is inductive only together with the types
(`PoolType`), since the clamp of `give_back` must be shown never to bite. It speaks of
runs in which no status was written over another, which is never forgotten
(`Remembers`), and of the tokens until they are overdrawn, for then the clamp does bite.
`OneWriter` counts writers where `Written` names the one there is, and says that a
version left open for nobody stays open.

**TaskProtocolProofs, TaskOutcomeProofs.** `ValidatedIsPublished`, `LeafSuccessUsable`,
`NobodyIsForgotten`. They rest on what thread, record and monitor tell one another,
which is proved first, by itself (`Talk`, in `TaskInvariants`). Its core is `Protocol`:
of a task in a phase that nothing has hurried, at most one record of the current attempt
is on its way, of the phase the task is in, and the place of the thread says whether it
is still to be written, on its way, in the monitor's hands, or answered by a wake
(`Follows`, `Place`). It needs that an attempt not launched yet has left no trace
(`Fresh`), so that no late thread of an earlier attempt speaks for the current one; that
a task in a phase has an attempt and its leases (`Zero`, `Opens`); that a thread which
left while its subgraph ended is in the monitor's hands (`Parted`); and that a subgraph
whose end is over is announced (`Announced`). On top of it `Pub` says that what is on
its way to the output validation is published, `Use` that the outputs of a leaf stay
open until they are sealed and valid from then on, and `Unfolded` that a subgraph is
submitted as a whole or is being submitted. `NobodyForgotten` is about tasks with
`why = ""` while the monitors are open: it does not speak of a task whose wake was lost.

Each supposes something of the graph. `ValidatedIsPublished`: the end of a subgraph
writes what the task of the subgraph promises (`EndsExport`). `LeafSuccessUsable`: no two
leaves write one slot (`SlotsApart`). `NobodyIsForgotten`: every subgraph has an end
(`SubgraphsEnd`), and what the CLI submits is of no subgraph (`RootsAreRoots`). The
wiring makes them usual, since the last entry is an end unless it is marked otherwise
(`task_graph/models.py:293`), only an end is given its parent's slots, and every other
output has a new one (`models.py:796`). Nothing enforces them: `check_graph`
(`task_graph/graph.py:33`) asks neither for an end, nor that an end produce every kind its
parent promises, nor that two ends produce different ones.

Only model-checked: the liveness properties (`NeverWedged`, `GoneLeavesPool`,
`CondemnedLeaves`, `Answered`, `EachAnswered`, `PairWindsUp`, `Settles`, `Finishes`),
since fairness and ENABLED are out of this prover's reach. The library's induction
theorems take an operator as a parameter, which the provers cannot instantiate; where an
induction over data was needed it was done through the least counterexample
(`NatLessThanWellFounded`, `WFMin`). Every safety property that a run checks is a
theorem; the hypotheses are those named above.

## 5. Where the code and its own words disagree

One statement of the repository is checked as a property and violated:

- **kvd_shared_keys.** `kvd/store.py:833`: "Two composites can legitimately share the
  same key bytes (different `(model, compat_key)` namespaces)", beside a drain that
  exists so that a get does not "return the wrong key's bytes". The arena is indexed
  by the key bytes alone (`store.py:712`, `store.py:779`, `server.py:760`). A save of
  the same key in another namespace goes into the slot of the first, whose row keeps
  pointing there with a valid version. The tensor-parallel ranks of an engine are
  such namespaces (`engine/vllm/kvd_connector.py:3364`).

Others were met while modelling. Unless the entry says that it is not modelled, the
models contain the behaviour, and a property that would fail names it as its exception:
such a property shows that nothing else breaks it, and does not catch the exception
itself. No run is spent on them.

Discovery and routing:

- `src/README.md:52`: "the router works from a live view and never routes to a worker
  that is gone". The etcd watch (`common/discovery.py:211`) is opened without a start
  revision and nothing lists the prefix again. A DELETE that falls into a gap is
  never seen (`stale` in `PoolFollowsStore`).
- `record_neutral` frees the probe slot whoever holds it, and the headers of a
  probe's own decode stream are such an outcome, so a second probe is admitted
  (`router/breaker.py:34`: "admits one probe at a time").
- A late `record_failure` recreates the entry of a worker that was forgotten.
- A Pod name reused with a new address, or an address under a new name, misleads the
  Kubernetes reconciliation when the deletion in between was not seen (`crossed`).
- Subscribers are keyed by endpoint alone (`kv/subscriber.py:172`). Two workers that
  announce one endpoint at the same time, as when they swap ports, share a subscriber,
  and the first to leave stops it for both (`contested`).
- `breaker.py` clamps a doubled cooldown to `max_cooldown` and the first one not.
- A streaming attempt is charged before its backlog is asked for and released by the
  generator of its response. A broker error before its first event
  (`router/mixed.py:225`), and a cancellation before the generator is first read, lose
  the charge. `LoadIsAccounted` shows that nothing else does.
- `router/migration.py:161`: "continuing from a partial prefix would silently drop
  output the client already read". A tool-call or reasoning chunk with ids leaves the
  text path open, a later text chunk without ids abandons the id path, and the text
  continuation leaves the tool call out.
- A stream that breaks between its sentinel and its done frame is carried on
  (`router/migration.py:214`; `LateBreaks`).
- A pre-tokenized prompt whose stream breaks before any text reaches the assertion
  of the text continuation (`crashed` in `Migration`).
- `common/nats_request.py:543`: "closing the door first would strand work the router
  already handed us". What is published between the last reading of the backlog and
  `unsubscribe()`, or lies in the local subscription then, is discarded.
- The NATS backlog is checked from a cache before publication: the admission limit
  is a soft one. A cancel signal that overtakes its request finds no task.
- Over NATS the body of a 5xx arrives before its status, so the stream is committed.
- `router/pd_abort.py:6`: "Abort a stuck PD engine request so it cannot occupy an
  inflight slot forever". A client that closes its connection after the end marker
  cancels the wait that holds the drain timeout. The shielded prefill POST has no read
  timeout and nothing aborts it any more.
- A cancellation at the awaits of the `finally` in `_concurrent_nats`
  (`router/disagg.py:868-881`) skips the releases behind them. `PairIsAccounted`
  shows that every other way out releases both workers.
- Over HTTP, the 5xx of a prefill whose pair is aborted is not scored. A broker error
  on the decode of a unary NATS pair drains the prefill where it could abort it, and
  scores the prefill for the wait.
- The serial topology posts to workers over HTTP also when they registered on NATS.

The KV view over NATS:

- The write after a rebuild clears the dirty mark (`kv/nats_relay.py:284`) although the
  view may have moved on while it was awaited; the comment at 255 says that such an event
  "must leave the rank dirty so the next tick writes it". `CleanIsWritten` names the case
  (`"heal"`).
- `kv/nats_bus.py:320`: the bucket is created again "so a cold router can still seed from
  live workers". It is one bucket for all workers and ranks, and the rebuild writes the key
  of one. The others, whose views are clean, are missing from it until their next event
  (`"shared"`).
- `router/kv_event/nats_client.py:137`: "subsequent PUTs self-heal drift". A seed is
  applied to an empty view only (175), so a view that has drifted stays as it is.
- `router/kv_event/client.py:406`: "under-reports hits instead of mis-reporting them".
  The removal of a block whose hash was never mapped leaves the block in the view.
- An entry of the bucket that arrives late can seed a view that a clear has just
  emptied.
- A rebuild that raises ends `_loop` while `_drain_dirty` goes on.

kvd:

- `get_many` holds the entries it has collected while the promotions of later keys
  take slots (`kvd/server.py:570`), so a batch may answer a key with the slot of
  another. `ReadsOwnBlock` is about single reads for that reason.
- `get_slot_for_key(...) or -1` takes slot 0 for a missing one: a commit into slot 0
  becomes an empty inline row.
- A drain drops the row that was just saved when its key is still in the eviction
  log. A commit with long retention does not write through.
- A refused inline set has already evicted its victims. A put that finds every slot
  leased raises. An overwrite that grows is not held against `max_bytes`.
- The eviction log keeps 4096 keys. In an arena of more slots, leases may take more than
  that between two drains, and a row whose key rolled off points at the slot of another
  with a valid version (`rolled`). `kvd/shared_arena.py:534` says so itself and leaves it
  to the operator.
- `get_slot_metadata` says it returns None for a slot that is being written and does
  not look. "Both regions are disjoint" ends with a short save after a long one.

Tasks:

- `agent_sys/handoff/store.py:289`: "after a failed attempt `exists(hid)` is False and
  the gate reports `OUTPUT_ABSENT`, which is the truth about the attempt". The gate
  (`agent_sys/agent/gate.py:110`) asks for any version, so a retry that published
  nothing passes on the version of an earlier attempt (`"hollow"`).
- `agent_sys/monitor/base.py:812`: every transition "routes through the scheduler's
  single writer under its `RLock`". `enter_phase` reads and writes without that lock and
  may write over a stop (`"raced"`). `LeasesBalance` says nothing more of such a run.
- A record of an earlier attempt moves the new one, which may then skip its body
  (`"stale"`).
- `agent_sys/agent/runner.py:247`: "a wake can no longer be lost to a thread that died
  between them". One that comes before the thread of a task with a subgraph has released
  itself is: the subgraph ended first, the thread then leaves, and nobody wakes the task
  again (`"missed"`). `NobodyForgotten` and `Finishes` except it.
- `_open_outputs` sets `_model_open` after its loop, and `_seal_model_versions` clears it
  before its own (`agent_sys/agent/runner.py:927`, `970`). What raises in between leaves
  the remaining outputs `GENERATING`, and every later attempt is refused them
  (`orphan`), the case that `run` says its `finally` is there to prevent.
- `agent_sys/task_graph/resource.py:109`: a charge may take the pool below zero, "the
  honest outcome". The clamp of a later `give_back`, and that of a restart, forget what
  is below zero or was spent above the capacity (`overdrawn`). The backends that are
  shipped report no tokens.
- Not modelled: after a stop that raised, `begin` may start a thread for an attempt whose
  first thread has not found itself halted. The model lets it wait for that one.
- A subgraph that was half unfolded when the process died strands its parent, and a
  stopped end of a subgraph never announces it (`"stranded"`).
- A parent may succeed before the end of its subgraph has sealed their common slot.

## 6. What the models leave out

- Bodies, headers, metrics and logging. Chunks are the kind of their line; a line
  split inside its prefix is below the model's grain.
- Scores and recency in the kv-aware policy: which worker is picked is open.
- Breaker and routers are separate modules. `MixedRouter` leaves open which
  candidates the breaker lets through, so what holds of it holds for any breaker.
- etcd, the API server, the broker, the engines, executors and validators are
  external, modelled from how the code uses them.
- `NatsRequest`: messages of one subject keep their order, a signal may be lost and a
  reply to nobody is dropped. Not modelled: an acknowledgement whose failure is swallowed
  (`common/nats_request.py:788`), redelivery when `ack_wait` (3600 s) runs out, and a
  notice of handing back that is followed by an error frame.
- `DisaggRouter`: an engine counts as told once an abort is sent to it;
  `router/pd_abort.py:73-84` swallows the failure of sending it.
- `stop(drain=False)` of the NATS server and `stop()` of the Kubernetes registry
  end the process.
- `KvView`: several ranks and workers, but for the bucket they share; events that ZMQ
  drops at its high-water mark; redelivery by JetStream (`kv/nats_bus.py:261`); payloads
  that do not decode, groups that are not indexed, deleted bucket entries, the limits of
  the stream, a relay that fails to start.
- `Kvd`: which slot or victim is taken (any), the capacity of a region and files that
  cannot be read (a region may lose any block), one lease per connection at a time,
  batches of at most two blocks of one namespace, the wrap of a version at 2^32, and
  the refusals that change nothing. Engines write only slots they have leased. When a
  save has a deadline, and which, is open until it lapses.
- `TaskScheduler`: `update_task`, `remove_queued` and `cascade_cancel`, a pool whose own
  operation raises, and the order the policy gives a pass (any). `TaskAttempt` has one
  monitor.

## 7. Plan

In order of importance, each with its run and, where the prover reaches it, its
proof:

1. `KvIndexSync`: engine events, publisher batches, subscriber queue, writer and
   reconciler of the ZMQ carrier (`kv/`). Hazards: a snapshot judged fresh and applied
   after newer events (`kv/snapshot.py:373`); a publisher that restarts its numbering
   (`kv/publisher.py:43`).
2. `EngineDrain` with `NatsRequest` and discovery: the whole departure of a worker,
   with a gauge that lags (`engine/drain.py:116`).
3. The batch reads of kvd as a property of their own, with the entries that are not
   affected; the tablespace and its recovery between two writes.
4. `SessionAffinity` (a failure that must not drop a later binding,
   `router/policy/session_affinity.py:107`) and `RenderParity`.
5. The decode barrier; the operator's reconciler and the scaling API if their races
   warrant a module.

Proofs: the types of `Kvd` whole, which need that no row ever holds torn bytes.

## 8. Not modelled, and why

The repository has some 186 thousand lines, of which the models cover 7 thousand. What
is covered is the part with state that several actors share. The rest is mostly of
kinds a model checker has nothing to say about, or cannot hold:

- Auto and direct routers, request shaping, wire formats, hashing: stateless.
- Server start, HTTP handlers, metrics, profiling, preflight tools: input and output.
- Engine connectors, device copies, kernels and their benchmarks: code whose
  correctness is numeric or lies with the engine it is loaded into.
- SLA planner and performance projection: arithmetic on measurements, out of TLC's
  reach.
- The gateway endpoint picker: a gRPC shell around the policy and breaker.
- The Rust router: a second implementation of the Python one.
- The operator: builds and applies objects, level-triggered.
- The rest of `agent_sys`: prompts, manifests, back ends, rendering and reports.
