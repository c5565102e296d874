# CacheRoute in TLA+

Specifications of the parts of CacheRoute whose correctness depends on the order in which
things happen, their model checking with TLC, and proofs with TLAPS. The reference is the code
under `src/`; every definition names its lines in `PROJECT.json` ("map").

Contents: [the system](#the-system) · [components](#components) · [modules](#modules) ·
[runs](#runs) · [fairness](#fairness) · [proofs](#proofs) · [what the code does not
keep](#what-the-code-does-not-keep) · [abstractions](#abstractions-and-bounds) · [plan](#plan)

## The system

A client sends an OpenAI-style request to the **Scheduler**. The Scheduler finds the knowledge
blocks the prompt needs (a table it copies from the **KDN servers**), chooses a KDN and a
**Proxy**, and forwards. The Proxy chooses an **Instance** (an inference engine behind
`instance_api.py`), prepares the knowledge (as text, or by letting the KDN inject KV cache), and
forwards the request in a controlled order. The answer streams back the same way.

All processes are asyncio programs that talk HTTP. Each of them keeps its state in dictionaries,
nothing is persisted except the KDN's text database, and all membership is by registration,
heartbeat and TTL:

    client --> Scheduler --(KDN, Proxy chosen)--> Proxy --(Instance chosen)--> Instance
                  |  ^                              |  ^
      refresh     |  | register, heartbeat          |  | register, heartbeat, resource snapshot
                  v  |                              v  |
                KDN servers <--- fetch / inject --- Proxy

## Components

| Component | State | Operations | What makes it hard | What makes it correct |
|---|---|---|---|---|
| Proxy queue manager (`proxy/queue`) | per Instance: sequence numbers, `prepare_q`, prepared buffer, released numbers, `ready_q`, reservations, pending and decoding tasks, response queues; the predicted windows of link and prefill | enqueue, prepare, flush, reserve, dispatch, first token, end, read; reserve and correct windows | concurrent prepares that end in any order, a lock held over an await, bounded queues everywhere, exceptions at each step, a gate on which workers wait for each other; forecasts corrected by what really happens | the release order of the policy, one prefill at a time, a task in the ready stage at most once, the terminator last, every request answered, no window promised twice |
| Proxy instance pool (`proxy/resource`) with the Instance's life (`instance/instance_api.py`) | entries with TTL, capabilities, inflight | register, heartbeat (short and full), snapshot, unregister, select, begin/end request | crashes and restarts on both sides, calls that arrive after their caller gave up, counts that outlive entries | counts right, capabilities those of the running process, the running seen and the dead not |
| Scheduler proxy pool and HTTP service (`scheduler/resource`, `scheduler/scheduler.py`) | entries with TTL, inflight, request ids | register, heartbeat, unregister, route, stream, end | restarts on both sides, responses dropped before they start, an id counter that wraps | counts right, ids of open requests different, the list follows the processes |
| Scheduler strategies (`scheduler/strategy`) | cursors, history of blocks | choose a KDN, choose a Proxy | lists that change under a cursor, history that grows and decays for ever | turns taken, criteria in the promised order, bounded history that never outweighs load |
| KDN synchronisation (`scheduler/knowledge`), KDN pool | metadata cache, per-KDN index, round-robin counter, pool | refresh (several requests), register, heartbeat, expire, unregister | the KDNs and the pool change between the requests of one refresh; each request may fail | the table and the index come to say what the KDNs hold |
| Knowledge table (`store`) | blocks, their numbers, the search index, the counter of local items | register, delete, swap, build, search, update | two numbers per block that may clash, a clone swapped in without its index | a search answers with the best blocks under their own names |
| KDN server (`kdn_server`) | index rows, text files, KV dumps; the simulated link | register, delete, purge, build, inject; submit and serve transfers | several files per operation and a crash between them; blocks that change while an injection waits | a row has its text, a ready row its dump, no half dump injected, no transfer waits for ever |
| KDN tools (`kdn_server/util`) | results of a batch | register, delete, register again, build | calls that time out although they took effect; two tools at once | what is reported of a text is so |
| Traces (`src/cacheroute/observability`, `instance/observability.py`) | a collector on each side, stages | start, finish, skip a stage; export | every path of a request closes other stages, across two processes | whatever goes wrong, the trace is exported, and the two sides agree |
| Predictors and benchmarks (`instance/TTFT_predictor`, `instance/TPOT_predictor`, `proxy/metrics`) | sample buffers, a model, a coefficient file | warm up, report, collect, fit, save, predict | several sources fill one buffer, a file is read while it is written | a model, a curve, a prediction is of one campaign |
| Load generators (`client/perf_client.py`, `client/kv_timing_sender.py`) | requests, permits, results | send, answer, raise, gather, summarise | many tasks, any of which may raise | the summary is of the run that was asked for |
| LMCache patches (`env`) | free list, reference and pin counts; the deque of pages | allocate, free, batched free, pin; cut tokens into keys | coalescing over a list of freed objects, threads without a lock, two computations of one boundary | every unit has one owner, a key stands for its tokens |
| Gateway of the next API (`kdn_server/gateway`, contracts and cache models of `src/cacheroute`) | tasks under idempotency keys, observations, a generation | submit, start, complete, status, cancel, look up | answers that are lost and asked for again, observations that expire while they are answered, restarts under the next generation | one key, one piece of work; every request answered, with what it asked for |
| Dashboards, resource agent, user interfaces, scripts, other records | records, figures | validation, presentation, I/O | - | not a matter of order; not modelled |

Every component, with its sources and the reason where it is left out, is in `PROJECT.json`;
"hazards" there lists, at its line, what is hard to test in this code and which property
covers it.

## Modules

| Module | Models | Composition |
|---|---|---|
| `TicketDispatch` | the promise of the Proxy's queue, abstractly: tickets, one prefill at a time, in ticket order except for requests that may overtake, requests that are dropped | abstract |
| `ProxyQueue` | `QueueManager` for one Instance, with the handlers that feed and read it | implements `TicketDispatch` (`KeepsTicketOrder`) |
| `KdnSync` | a refresh of the Scheduler's knowledge with all its requests, the KDN pool, and what the KDNs do between the requests | composes KDN servers, KDN pool, refresh, table |
| `InstancePool` | the pool of a Proxy, the Instance processes that register there, the calls between them, the requests counted | composes pool, Instances, network, handlers |
| `SchedulerService` | the Scheduler's pool of Proxies, its data plane, the Proxies' registration and heartbeats | composes pool, handlers, Proxies, clients |
| `RoundRobinStrategy`, `KdnChoice`, `ProxyAffinity` | the strategies: the rotation; the KDN and the Proxy of the cacheroute strategy | what `SchedulerService` leaves open (it selects any live Proxy) |
| `QueueForecast` | the windows the queue manager reserves on a KDN link and on an Instance's prefill | the times `ProxyQueue` leaves out |
| `RequestTraces` | one request's context and the stages both sides record of it | composes propagation, Proxy and Instance collectors |
| `KdnLink` | the simulated link of a KDN | the waits between the blocks of `KdnStore`'s injections |
| `KdnStore` | a KDN's index, texts and dumps, with crashes and evictions | composes text database, builder, injector |
| `KdnTools` | the batch registration and an operator beside it | uses what `KdnStore` does, one call a step |
| `KnowledgeTable` | the Scheduler's table: numbers, index, search | the table `KdnSync` refreshes, seen from inside |
| `MemoryAllocator`, `PagedAllocator`, `TokenDatabase` | the patched LMCache: explicit-list and paged allocator, cache keys | - |
| `CacheGateway` | the two gateway adapters, the operations' states, the contracts of the answers | composes adapter, client, worker, restarts |
| `PerfClient` | the load generators | - |
| `TtftPredictor`, `TpotBenchmark`, `CoefficientFile` | the TTFT service, the TPOT benchmark, the Proxy's coefficients | - |
| `Routing`, `Storage` | the modules from `SchedulerService` on, side by side, for one run of TLC each | a behaviour is one of the module that the variable `part` names; the variables of the others are `Unused` |
| `InstanceHost` | instances, constants and variables of `MemoryAllocator`, `PagedAllocator`, `TokenDatabase`, `TtftPredictor`, `TpotBenchmark`, `CoefficientFile` | extended by `Storage`, and by `InstanceHostProofs` for the invariants of these six |
| `MC...` | constants for TLC | extends the module it names |
| `...Proofs` | theorems | extends the module it names; `RoutingProofs`, `StorageProofs` and `InstanceHostProofs` also hold the proofs of the modules they place side by side |
| `FiniteLemmas`, `Folding` | lemmas on finite sets and sums over them; on folds over sequences | extended, or instantiated with the operator that is folded, by the proofs |

`Routing` and `Storage` do not compose their modules: `part` is chosen in the initial state and
never changes. They have the constants of every module, under its prefix (`qf_Task` is the `Task` of
`QueueForecast`), and assume of them what the modules assume. The modules' own definitions are the
properties; `Typed` is the conjunction of their type invariants.

### ProxyQueue

asyncio switches only at awaits that suspend, so an action is the code between two such awaits.
A task's life, with the action and the method:

| Action | Code |
|---|---|
| `TakeSeq`, `PutPrepare` | `enqueue_prepare`: the number is taken, predictions are awaited, then the task is put |
| `DispatchPrepare`, `StartPrepare`, `FinishPrepare` | `_prepare_dispatch_loop`, `_run_prepare_task`: one asyncio task per request, bounded by a FIFO semaphore; fetch, classification and injection succeed or raise |
| `BeginFlush`, `Release` / `ReleaseRaises`, `PutReady`, `EndFlush` | `_mark_prepare_done_and_flush`, `_flush_prepared_to_ready`, `_release_prepared_task_to_ready`: under the flush lock, which is held over `ready_q.put` |
| `Fetch`, `Dispatch`, `Chunk`, `PutChunk`, `EndForward`, `PutEnd` | `_ready_worker_loop`, with `_wait_dispatch_turn` (`MayDispatch`), `_mark_task_first_token_and_recompute` (`MarkFirstToken`), `_mark_task_decode_end` |
| `Read`, `Disconnect` | `iter_response`, and the stream closed by a client that left |

`_instance_prepared_buffer` is the set of the tasks in it (the key of each is its number),
`_instance_pending_tasks` and `_instance_decode_tasks` are sets because only membership and
`reservation_seq` matter to the gate. Predicted times are left out; that a prediction may raise
is not (`Unpredictable`).

### KdnSync

One action is one request and what the Scheduler does with its answer: `VisitKdn` and
`VisitLastKdn` (`refresh_kdn_knowledge_index`, and after the last one `select_kdn_base_url`),
`FetchMeta` (metadata, `diff_kdn_meta`), `FetchItems` (items, new table, swap), `RefreshFails`
for any of them. KDNs register blocks, build KV, delete, and join, expire and leave the pool at
any time. The version of a block stands for its metadata signature.

### InstancePool

A call whose answer comes back is one action of both sides (`RegisterOk`, `HeartbeatOk`,
`FullHeartbeatOk`, `ReportOk`, `Stop`). A call that fails for its caller is either never received
or put into the bag `late`, from which the Proxy handles it at any later time (`Deliver`), also
when the caller has crashed and a new process runs under its id. A capability stands for the
capability object; the fingerprint is taken to be equal exactly when the objects are. `Select`,
`Begin` and `End` are the request handlers of `proxy.py`.

### SchedulerService

A handler of the Scheduler lists the pool, builds the request, selects and counts without an await
that suspends, so `Route` is one action. `Refuse` takes an id and answers an error. The stream is
started by the server (`StartStream`); a response whose client is gone before that is `NeverStarted`,
and its count is never undone (`lost`). `Start`, `Heartbeat`, `Stop` and the crash are the Proxy's
lifespan, `Expire` its TTL, `SchedulerRestart` empties everything. `age` and `renewed` are auxiliary:
the ids handed out since a request got its own, and the Proxies that were registered or removed
while they had requests.

### Strategies

`RoundRobinStrategy!Select` has the two cursors over lists that are reordered by every heartbeat.
`KdnChoice` gives the KDN as a nested choice, and the property a lexicographic order of its own.
`ProxyAffinity` has the update of the history: decay of every listed Proxy, one unit for the chosen
one, the `TopK` entries kept. Whole numbers stand for the scores and `Num/Den` for the decay, so
the entries the code drops below 1e-6 are those that become 0 here.

### QueueForecast

Time passes in ticks. `ReserveLink`, `Injected`, `InjectFails` are the corrections of the link's
forecast, `ReserveReady`, `FirstToken`, `EndForward` those of the prefill; `Rebuild` redoes the slots
after each of them. What really happens takes any time.

### RequestTraces

One action for each place where `manager.py` or `observability.py` starts, ends or skips stages, on
every path: an empty answer, a failure before and after the first chunk, a cancelled worker, a
reservation that raises. `Verdict` has what the Instance may find in the header it receives.

### KDN server and tools

`KdnStore`: an action is one change of the index or of a directory; the event loop is not given up
between them, so `op` says what it is at, and only `Crash` and `EvictKeys` come in between. `lost`
and `spoilt` are auxiliary, they remember the blocks whose text a purge removed, and those with a ready
row whose dump a build spoilt: it lost keys to an eviction while they were dumped, or it was a rebuild
that failed or was cut short.
`KdnLink`: `Submit`, `Start`, `Finish`, `Beat`, `Stop` of the network simulator. `KdnTools`: one call is
one step; it is answered, fails, or is abandoned after the server has carried it out.

### CacheGateway

Both adapters in one module: `profile` says which it is, `Supports` that the legacy one has only its
two lookups. A call is one action, but for `get_cache_observation`, which reads the clock first
(`AskObservation`) and answers later (`AnswerObservation`). `Respond` builds the answer and checks the
validators of its type (`Consistent`, `SuccessFits`), which in the code raise out of the call.
`SubmitRaises` and the refused branch of `Cancel` are the exceptions of the task's own validators: a key
of blanks, which the request lets through, and a clock that shows less than before (`StepBack`).
`told`, `ran` and `latest` are auxiliary: the end a client was told of and how often the work was
started, of each key under each generation, and the latest time the clock showed. `Restart` keeps them,
and with them what is promised of a generation outlives its tasks.
Fields that only identify a target are "mine" or "other". What a request may be is what its own
validation lets through.

### KnowledgeTable

`serving` is the table searches use and `work` the clone of a refresh. `First` and `Last` are the two
numbers of a kid, chosen so that they clash. The search, with an index and without one, is checked
against the blocks of the best scores.

### Memory, keys, benchmarks

`MemoryAllocator` has first fit, the merge with both neighbours and `BatchedFree`, which merges the
objects first, whatever objects they are. `stray` remembers a batch that was freed as a block it is not
(it began with an object that was not valid); the model ends there. `PagedAllocator` lets threads
interleave between the pops of a batch and give up references and pins of any page they have known,
twice too; `overdrawn` remembers when a page was lost by that, and ends the model. In
`TokenDatabase` a hash is the sequence of the chunks that went into it, so a key can be compared with
what it stands for. `PerfClient` has one variable per request and three modes. `TtftPredictor` keeps
for every sample where it came from and which label it got, and the samples of the scaler and of the
coefficients apart, since a fit may raise between them; `TpotBenchmark` which scenario a record
is of and whether it was disturbed; `CoefficientFile` of which fit a line is. The coefficients of the
TTFT and of the Redis pull come from two other files, which nothing in the model writes: what a
prediction reads there is open.

## Runs

Passing runs. The two composites take about two minutes with two workers, `ordered` about a
minute, the others less.

| Run (`.cfg`) | Instance and why it is enough | States | Shows |
|---|---|---|---|
| `ordered` (`ProxyQueueOrdered`) | 3 chat and plain tasks, 2 workers, 2 prepares at a time, all queues of size 1, one prediction that may raise, one client that may leave. Three tasks give a released, a waiting and an overtaking one; size 1 makes every put block | 400,835 | the five invariants and `KeepsTicketOrder` under the default policy |
| `bypass` (`ProxyQueueBypass`) | the same with `text_bypass`, two text tasks and one KV-cache task; the predictions of one text task may raise, nobody leaves | 200,917 | `TextNeverWaits` and the refinement under the other policy |
| `answered` (`ProxyQueueAnswered`) | 2 chat tasks with up to 2 chunks, 2 workers, queues of size 1 | 10,789 | `Answered` where predictions work and clients stay |
| `kdn_table` (`KdnSyncTable`) | 1 KDN, 2 blocks, 3 versions; the KDN joins and leaves. No request fails and no block is deleted: with either, `RefreshMirrors` is false | 24,996 | `RefreshMirrors`, `TableConverges` |
| `kdn_index` (`KdnSyncIndex`) | 2 KDNs, 1 block, deletions and one failed request | 114,816 | `IndexConverges` |
| `instances` (`InstancePool`) | 1 id with 2 process lives (one may stop gracefully), 2 capabilities, 2 calls that fail, 1 Proxy restart, 2 requests. Entries of different ids share no state, so one id is enough; two lives let a call of the first meet the second | 101,924 | counts, capabilities and liveness of the pool |
| `routing` (`Routing`) | the modules of a request's way, see the next table | 366,653 | ten properties of seven modules |
| `storage` (`Storage`) | the modules of what is stored and measured, see the next table | 590,240 | thirteen properties of eleven modules |

Symmetry: the two workers of `ordered` and `bypass` are interchangeable (`WorkerSymmetry`);
these runs check no liveness. `CHECK_DEADLOCK FALSE` stands in the configurations of systems that
really stop: all requests are answered (or lost), a calculation is over, or all bounds are used up.

| Part | Instance | Why it is enough |
|---|---|---|
| `SchedulerService` | 2 Proxies, 2 clients, ids 1..3, 1 response never started, 2 lives of a Proxy | the ids wrap around during a request; a second life meets requests of the first |
| `RoundRobinStrategy` | 3 KDNs, 2 Proxies, cursors modulo 6 | lists of every length, and 6 is a multiple of all of them |
| `KdnChoice` | 2 KDNs, 2 blocks of different lengths, loads 0 and 1 | every pair of KDNs that differ in each criterion |
| `ProxyAffinity` | 2 Proxies, 2 blocks, link quality 0 or 1, window 1, decay 1/2, one entry kept, 3 requests in flight | the load may exceed the window; an entry falls out of the history |
| `QueueForecast` | 3 tasks (2 with KV), 2 slots, time up to 3 | a third task waits for a slot; a transfer ends late, early, or fails |
| `RequestTraces` | one request, every mode and header | requests share no trace |
| `KdnLink` | 3 injections | one served, two in the queue |
| `KdnStore` | 2 blocks, 1 crash or failed purge | a second operation works on what the first left |
| `KdnTools` | 2 blocks, a manifest of up to 3 files | a file may be there twice |
| `KnowledgeTable` | 3 blocks whose numbers clash, 2 scores, the best 2, ids up to 2 | the third block finds both its numbers taken |
| `MemoryAllocator` | 3 objects, 6 units, alignment 2, requests of 1 and 3, batches of 3, 2 references, 1 pin | neighbours on both sides; requests that need rounding; batches with objects that are not valid at every place |
| `PagedAllocator` | 2 threads, 3 pages, batches of up to 3, 2 references, 1 pin | two batches of which one fails half way; a thread that gives up the page of the other |
| `TokenDatabase` | 5 tokens of 2 kinds, chunks of 2, a separator of 2 | separators at the start, at the end, adjacent; an unfull chunk |
| `PerfClient` | 4 requests, 3 templates, 2 at a time, 2 : 1 kinds, 1 failure | a second round of the mix; a request refused a permit |
| `TtftPredictor` | 2 configurations, 2 repeats, 2 retries, 2 reports | a late answer of one round in the next; a fit that raises after its scaler |
| `TpotBenchmark` | lengths up to 4, windows and overlaps 1 and 4, 1 prefill, 1 fault, 2 collections | overlaps larger than a window; both scenarios in either order |
| `CacheGateway` | 2 keys of which one is blank, 2 artifacts of which one is in the records, 2 operations, 2 generations, times 0 and 1, a gateway without the maintenance of evictions and the legacy one | a key reused for another artifact or operation, and after a restart; a record of another target or generation; an observation that expires during its call, a clock that is behind |
| `CoefficientFile` | batch sizes 1, 2, 4, asked for 0, 1, 3, 4; 3 samples, 2 fits, 4 tokens aligned to 2 | a nearest batch size on either side; a fit while the file of the last is read |

Runs that end in a violation each check one statement of a comment, docstring or document
against the code; see [below](#what-the-code-does-not-keep).

The properties, in short:

- `ReleaseOrder`, `TextNeverWaits`, `ReadyStageExact`: the order in which tasks pass from the prepare
  to the ready stage, each once, although prepares end in any order, exceptions end flushes half way,
  and the except branch of a prepare flushes a second time; and that the prediction state speaks of
  exactly the tasks there.
- `DispatchInOrder`: dispatch in the order of reservation, one task at a time in the prefill, and a
  gate that never waits for a task behind the waiting ones.
- `TerminatorIsLast`, `Answered`: what the reader of a response sees.
- `KeepsTicketOrder`: the order seen from outside, as a refinement of `TicketDispatch`.
- `RefreshMirrors` (action property), `TableConverges`, `IndexConverges`, `NewItemsAppear`: what
  the Scheduler knows of the KDNs. The convergence properties assume that the KDNs come to rest.
- `CountsAreTrue`: inflight counts of Instances, Proxies and KDN links are what is really open
  there, with the exceptions each module names. `CapabilityConverges`, `PoolFollowsInstances`,
  `RegisteredIsAlive`, `ListFollowsProcesses`: who is known is who runs. `FreshIds`: ids of open
  requests.
- `ChoosesAsPromised`, `HistoryIsShared`, `LoadBeforeHistory`: the strategies.
- `NoWindowIsPromisedTwice`, `EveryTransferEnds`: forecast and link. `OneStory`: every request whose
  two sides are over is told by both, and the same way.
- `IndexHasItsFiles`, `NoHalfInjection`, `VerdictsAreTrue`, `BlocksKeepTheirNames`: what is stored of
  a block, and under which name.
- `KeptWhileHeld`, `OneOwner` (of the buffer and of the pages), `KeysNameTheirTokens`: memory and keys.
- `AnswersHold`: a gateway's answers meet their contract and are about what was asked, no request ends
  with an exception but for a blank key or a clock that is behind, an intent submitted again is done once
  under its generation, and an end a client was told of stays.
- `SummaryIsOfTheRun`, `ModelIsOfOneCampaign`, `CurveIsAsPlanned`, `PredictionsAreOfOneFit`: that what
  is measured is what it is said to be.

`TextNeverWaits`, `ReadyStageExact` and `KeepsTicketOrder` hold under `text_bypass` only while the
predictions of no more than one task raise. Nothing in the code sees to that: they read the coefficient
file on every call. With two of them, which need not be text, and two text tasks besides, a
reserved text task can be released again: the except branch of a prepare (`manager.py:1202`) puts a
task back that the flush has released, and `text_candidates` of `_flush_prepared_to_ready` does not
look at the numbers that are released. TLC finds the behaviour with four tasks, in 28 steps; with five,
a prepared text task is then left behind by a flush. So in the run `bypass` the predictions of one task
may raise, and the theorems speak of the behaviours with `OnlyOneRaises(o)`: of any constants, so that
every prediction may raise, they are those in which, if the policy is `text_bypass`, only the predictions
of the task o do, whichever it is and however often. Under `ordered` that is every behaviour. The bypass
limit of a flush never limits anything as long as `TextNeverWaits` holds: each text task flushes for
itself.

## Fairness

- `ProxyQueue`: weak fairness of every step of the Proxy: the event loop runs whatever is not
  suspended, a prepare ends because its HTTP calls have timeouts, a forward ends because of
  aiohttp's total timeout. No fairness for a client: it need not send, nor leave. `ReleaseRaises`
  has the same fairness as `Release`; which of the two happens is open.
- `KdnSync`: weak fairness of the refresh (`RefreshNext`): the loop runs every 30 s and every
  request ends. Nothing makes a KDN act.
- `InstancePool`: weak fairness of the heartbeats that succeed (the loop goes on for as long as
  the process runs; the bound on failures makes it succeed in the end) and of the expiry of a TTL,
  which a heartbeat undoes. `PoolFollowsInstances` therefore says "again and again".
- `SchedulerService`: weak fairness of the heartbeat of each Proxy that runs (a loop of 5 s) and of the
  expiry of one whose process is gone (30 s). A Proxy that runs may expire or not.
- `KdnLink`: weak fairness of the worker that takes the next transfer and of the end of a transfer,
  whose duration is computed when it starts. Nothing makes an injection submit.

## Proofs

All proofs are for arbitrary constants under the named assumption of the module: the ASSUMEs
`ProxyQueueAssumption`, `KdnSyncAssumption`, `InstancePoolAssumption`, `RoutingAssumption` and
`StorageAssumption`, and in the other modules the definition `ConstantsAssumption`, a hypothesis of
each theorem (the two composites assume it of all their modules, so TLC evaluates it).

**`ProxyQueueProofs`**: `TypeCorrect`, `ReleaseOrderHolds`, `TextNeverWaitsHolds`,
`ReadyStageExactHolds`, `DispatchInOrderHolds`, `TerminatorIsLastHolds`, `TicketOrderKept`. The invariant
comes in layers, and each theorem uses as many as it needs:

1. `IInv`: the types, and the numbers. A flush decides by its cursor, so everything below the cursor
   and below the saved next number is released (`Prefix`), only numbers that were given are released,
   and a task in a queue has a number (`Arrived`, `Queued`). `NextUnreleasedOK` shows that the flush's
   next number exists at all: it is the least of a nonempty set of naturals (`MinIsLeast`, by
   well-foundedness of strict inclusion of finite sets).
2. `RInv` adds where a task can be: which queue, buffer or hand holds it (`Places`), and what a flush
   under `text_bypass` may have left in the buffer (`Bypassing`). It is kept by the
   steps that `OnlyOneRaises(o)` lets happen, after which nothing but o was lost (`OneLost`), and by others
   not (see [above](#runs)).
3. `QInv` adds the ready stage: queue, hands of the workers, and the pending set hold the
   same tasks, in the order they were reserved in, once each; and the response queues, in which a
   terminator has nothing behind it.

`TicketOrderKept` is the refinement of `TicketDispatch`: the initial states map to the initial one, and
one lemma per group of actions says that a step is an arrival, a start, an end or a drop of the
abstract counter, or a stutter (`StepsMap`). The case that matters is the flush: what it drops was
reservable there (`ReleasableIsReservable`, `FlushDrops`), and what a worker starts is the first of all
tickets not yet started (`DispatchStarts`).

**`KdnSyncProofs`**: `TypeCorrect`; `RefreshMirrorsHolds`, where no request fails and no block is deleted
(`MaxFailures = 0`, `Deletable = {}`). The invariant `Mirrored` says how the table and the remembered
signatures differ while items are being fetched. With a failure the theorem is false: run
`kdn_failed`.

**`InstancePoolProofs`**: `TypeCorrect`, `NotOverstatedHolds`, `ExactCountHolds`, and both as
`CountsAreTrueHolds`. For the exact count it must be known which calls can still arrive: as long as
nobody has stopped, none of the late ones unregisters (`NoLateUnregister`). `NotOverstated` needs
the exact bookkeeping of `begin_request` and `end_request` on cardinalities of the requests held.

**`RoutingProofs`**: all eight safety properties of the run `routing`. The invariant `RoutingInv` is, for
each value of `part`, the invariant of that module.

- `FreshIdsHolds`: that ids differ follows from where they are in the round: a request's id and the ids
  handed out since add up to the current one, or to that of the round before (`ServiceNumbered`), and no
  two requests are of one age unless both are a round old (`ServiceSpread`).
- `CountsAreTrueHolds`: the counts of the service need that a lost one was leaked (`ServiceLostIsLeaked`),
  so that the bound on leaks bounds them. Who waits for the link of a KDN is in the queue or on the
  link, once (`LinkQueued`), and the worker sleeps exactly while a transfer is on the link
  (`LinkOneTransfer`).
- `ChoosesAsPromisedHolds`: the turns of a rotation are where its cursor is, modulo the length of the
  list (`TurnRotates`); the choice of a KDN is the first in a lexicographic order of keys, which exists
  and is total and transitive on a finite set (`ChoiceFirstExists`), and the nested choice of the code
  is that one (`ChoiceFirstRanked`, `ChoiceFirstUsable`).
- `HistoryIsSharedHolds`, `LoadBeforeHistoryHolds`: one update of the history adds at most one unit to a
  decayed sum (`HistoryGeometric`), so `sum * (Den - Num) <= Unit * Den` is inductive, for any number of
  Proxies and any decay. Sums over finite sets are folds of the library; what they do under addition
  of an element, a part or a factor is proved first (`Total...`), by induction on the size of the set,
  which here is the absence of a least counterexample (`BySize`, `NatMinimum`).
- `NoWindowIsPromisedTwiceHolds`: a chain of reservations, each behind the last and the cursor behind
  them all (`ForecastInChain`), is what an append extends and what a rebuild makes anew. That the fold
  over the tasks that are left is such a chain (`ForecastFoldOK`) is an induction over its prefixes;
  that a removal leaves the order and the other tasks is `ForecastRemovalKeeps`.
- `OneStoryHolds`: a collector has stages with numbers of their own, whose parents are there and which
  can be finished by the handles that are kept (`TraceSound`); for each place of a request it is known
  which stages run and which outcomes the closed ones have (`TraceProxyStage`, `TraceInstanceStage`).
  One lemma per operation says what it does to these (`TraceStartOK`, `TraceSkipOK`, `TraceFinishOK`),
  and so no export is ever refused (`TraceExportOK`). `TraceTold` is why the sides agree.
- `TypedHolds`: the type invariants of the service, forecast, traces and link follow from these.

**`StorageProofs`**: all thirteen properties of the run `storage`, from `StorageInv`, made in the same
way; the invariants of LMCache and of the measuring campaigns are in **`InstanceHostProofs`**.

- `IndexHasItsFilesHolds`, `NoHalfInjectionHolds`: the invariant says what the running handler knows of
  its block (`StoreOpKnows`), that the rows left by a purge past the texts have lost theirs
  (`StorePurgeKnows`), and that a half dump is a known one or one whose block nobody can have found
  ready: the first build was cut short by a crash, which ended every injection that waited
  (`StorePartIsKnown`).
- `AnswersHoldHolds`: that no answer breaks its contract follows call by call from the guards of its
  branch; that an intent is done once under its generation, of which the tasks are forgotten and the
  history is not, needs what was started to be written in the task
  (`GatewayStarted`): a task is started at most once, none waits for a retry, and only a pending one can
  still be started. `GatewayRecordsGrow` is why time may pass.
- `VerdictsAreTrueHolds`: what the batch knows of a file follows the steps it has taken for it
  (`ToolsIInv`), whatever an operator does in between.
- `BlocksKeepTheirNamesHolds`: a block's number is its own or nobody's and the tables behind it agree
  (`TableSound`), through the refresh's clone and the swap; an index is of exactly the rows of the table
  it is in (`TableIInv`). That a search with the index and one without give the same answer is then one
  fact about two selections from the same rows (`TablePromises`).
- `OneOwnerHolds`: for batches of any objects. The buffer is described until a batch strays, the pages
  until a thread overdraws (see [below](#what-the-code-does-not-keep)); the totals, and that nothing
  leaks, hold after that too (`BufferCounted`). The buffer is the free list and the objects in use:
  free blocks have a gap between them (`BufferList`), objects are apart (`BufferObjects`), what is free is
  what nobody uses (`BufferOwned`), and the two totals count the cells and objects in use. A batch is
  gathered by one fold and given back by another: what the first i objects were gathered to is
  `BufferGathered`, and `BufferCoalescedOK` says that blocks apart from a free list, given back one by one,
  leave a free list of all their units. The pages: each is in the deque at one place, in one
  thread's hands, or pinned (`PagesIInv`).
- `PagesHaveOneOwner`: the parts on pages and leaks by themselves. `KeptWhileHeldHolds` is
  the action property of the explicit-list allocator, from the counters never being negative and an
  object in use being referred to or pinned (`BufferCounted`).
- `KeysNameTheirTokensHolds`: the chunks so far are the tokens before `start_idx` (`KeysOfChunks`), and
  the two computations of the segment database, of the cuts and of `start_idx`, are one separator
  apart (`KeysOfSegments`). This needs the places of the separator not to overlap (`KeysSpaced`):
  `KeysMatches` shows it of the fold over the sliding windows, and `KeysApart` where the assumption on the
  separator is used.
- `SummaryIsOfTheRunHolds`: the number of open requests is the one that is counted and its greatest is
  the peak (`ClientCounted`), nothing is sent before its time (`ClientSent`), and results are there when
  all have answered, each at its index (`ClientGathered`).
- `CurveIsAsPlannedHolds`: what was measured, and what the prompts that are left will measure, covers what
  was planned (`BenchCovered`): the plans cover their range to begin with (`BenchRange`,
  `BenchContinuous`), and a request moves its window from one side to the other. The load is on only
  while its own collection measures (`BenchLoads`).
- `ModelIsOfOneCampaignHolds`: the seed comes first in the samples or not at all, and the scaler is of
  the samples of the model but after a fit that failed between them (`TtftIInv`).
  `PredictionsAreOfOneFitHolds`: the lines in memory, those being written and those of the file are
  each of one fit, and a whole file has some (`CoeffIInv`).
- `TypedHolds`: every module's type invariant. That the buffer's
  total stays within its size, that `inflight` counts open requests, that a half-written file is one being
  written are more than types and come from the invariants above.

**`Folding`**: `FoldLeft` of the community modules is a `CHOOSE`n recursive function on the sets of
indices. That there is such a function is proved by the absence of a least counterexample
(`FoldingExists`); from it that a fold is the last of a sequence of results, each an `Op` of the one before
(`FoldSteps`), so that whatever each `Op` keeps holds of the fold (`FoldReaches`), and that a fold
may be cut before its last entry (`FoldAppend`).

What is assumed of the constants is `ConstantsAssumption` of each module: finite sets, positive
bounds and sizes. Those that say more: the buffer's size is a multiple of the alignment (`Size % Align = 0`),
the separator is not empty and does not overlap with itself (as the default ` # ` of
`doc/LMCache_config_para.md:109`).

Only model-checked, and why:

- `TableConverges`, `IndexConverges`, `Answered`, `CapabilityConverges`,
  `PoolFollowsInstances`, `ListFollowsProcesses`, `EveryTransferEnds`: liveness under
  fairness, and the ENABLED in it, are out of the prover's reach.
- `TextNeverWaits`, `ReadyStageExact` and `KeepsTicketOrder` where the predictions of two tasks raise: false.

## What the code does not keep

| Run | Statement | What happens |
|---|---|---|
| `lost` | "Notify the handler to finish even on error; otherwise the upstream side will hang." (`manager.py:1439`) | a reservation that raises loses its task: no queue holds it, no terminator comes |
| `kdn_failed` | "failure-safe (keep old table)" (`kdn_sync.py:277`), "allow up to 30 seconds for the new item to appear" (`README.md:383`) | the signatures are remembered before the items are fetched; after a failed fetch the block is never asked for again |
| `kdn_two` | the same sentence of `README.md` | each refresh deletes the blocks of the KDN it did not ask |
| `instance_rejoin` | "Resolve a restarted Proxy or changed local capability contract" (`instance_api.py:236`) | an unknown id is answered without `requires_capabilities`, and ignored: the Instance stays out |

Seen while modelling and not the subject of a run:

- Queues: under `text_bypass` text also overtakes text, although `proxy/README.md` ("Ready release
  policy") only speaks of blocked KVCache tasks. A chat client that leaves stops a worker for ever
  once its response queue is full (`manager.py:1387`); others wait behind it. A failed injection's
  window is not given back to the link's forecast.
- Knowledge: a block that is deleted and registered again between two refreshes of different KDNs
  keeps its signature; `avail_kdn_servers` of a block is never brought up to date with the KDN pool.
  A refresh that changes nothing swaps in a clone without its index, and searches scan from then on;
  a local table with whole-number ids makes `build_faiss_index` raise.
- Pools: an unregistration whose caller gave up can arrive after the next process registered
  (`instance_pool.py:427`). After a restart of the Scheduler a Proxy is answered 404 for ever
  (`proxy.py:244`). A response whose generator is never started leaks one inflight count.
- KDN: `build_kv` runs in the event loop and stops the heartbeats. Rebuilding a ready block while its
  keys are in Redis removes the old dump and times out; the row stays ready. Keys evicted during a
  dump are left out, and the part is marked ready and injected as if it were the whole, although
  `kv_builder.py:161` says "Never leave an empty/partial KV directory that could later be mistaken for a
  ready knowledge block"; so is what a crash leaves of a rebuild. `NoHalfInjection` states both as its
  exceptions (`spoilt`). Registration at the Scheduler is tried once.
  Stopping the simulated link leaves its waiters unanswered.
- Traces: a request that spends more than five minutes in queues gets a new trace at the Instance;
  one the manager loses (`lost`, above) is never exported.
- Memory: the reference and pin counts are changed without the lock; a page freed twice is freed
  under its next owner; a batch whose first object is invalid is merged with blocks that are not its
  own (the code warns and goes on, `memory_management.py:1106`), which `OneOwner` states as an exception.
- Gateway: an idempotency key of blanks passes the request (`cache_service.py:31`) and is refused by the
  task (`models.py:255`), as is a task whose clock went back between its two times; a cancellation while
  the clock is behind the task's last change raises (`models.py:273`). All of them leave the call as
  exceptions and not as answers; `AnswersHold` states them as its exceptions.
- Keys: after a prompt shorter than the separator the segment database goes on and raises.
- Benchmarks: one failed request discards all results of a load run; a report during a warm-up round
  is labelled as of that round; a collection in one scenario clears the other's; a range collection
  may leave out the last lengths below a step; reading the coefficient file while it is written
  raises. A fit of the TTFT model that raises after its scaler was fitted (`prefill_regressor.py:67`)
  leaves the seed's coefficients beside the scaler of the warm-up, and the server predicts with both.

## Abstractions and bounds

- `ProxyQueue`: one Instance (the manager's dictionaries are keyed by it). Workers are never
  cancelled (that happens at shutdown). Bounds: `MaxChunks`; the others are parameters of the
  code (queue sizes, concurrency, bypass limit).
- `KdnSync`: every KDN has an embedding model; a KDN's handlers are atomic; neither the Scheduler
  nor a KDN restarts; the kid-to-int64 collision check is left out. Bounds: `MaxVersion`,
  `MaxFailures`; the round-robin counter is kept modulo `RRPeriod`, a multiple of every possible
  number of KDNs, which no choice can tell from the unbounded one.
- `InstancePool`: resource values, addresses and the KDN link topology are left out, the strategy's
  choice among the alive Instances is open. An Instance always sends capabilities. A chat response that
  is dropped before its generator was started is not modelled here; its count would not be undone, as
  it is not in `SchedulerService`, which has it (`NeverStarted`). Bounds:
  `MaxStarts`, `MaxStops`, `MaxFailures`, `MaxProxyRestarts`.
- `SchedulerService`: the pool's figures are counts (nobody reports the others); `MaxId` stands for
  65535. Bounds: `MaxStarts`, `MaxLeaks`, and `MaxId` itself.
- Strategies: one number for a load, blocks of given lengths; qps and GPU figures are left out.
  Bounds: `MaxInflight`, `MaxLoad`, `MaxLink`; the cursors are kept modulo a period.
- `QueueForecast`: one KDN and one Instance; durations are predicted in ticks, and real ones are
  open. Bound: `MaxTime`.
- `RequestTraces`: sampled or not, no attributes or timestamps, ids are numbers.
- `KdnStore`: a dump is none, empty, part or whole; the keys of a block are there or not. Bound:
  `MaxFaults`. `KdnTools`: a file is the block of its text, or missing. Bound: `MaxFiles`.
- `KnowledgeTable`: an embedding is its score against one query, FAISS (external) the best `TopK` of
  the rows it was given. Bound: `MaxId`.
- `MemoryAllocator`: one call at a time; tensors, formats and statistics are left out. Bounds:
  `MaxBatch`, `MaxRef`, `MaxPin`. `PagedAllocator`: the same bounds.
- `TokenDatabase`: hashes are injective; separators that overlap themselves are left out, as the
  counting of both computations differs for them. Bound: `MaxTokens`.
- `PerfClient`, `TtftPredictor`, `TpotBenchmark`, `CoefficientFile`: no figures, only where each comes
  from. Bounds: the number of requests, failures, repeats, reports, faults, collections, samples and
  fits.
- `CacheGateway`: the records a gateway is built with are all of one artifact and one target; the token
  ranges of a coverage, the list of endpoints and a summary's figures are left out. An illegal start or
  completion raises to the worker and changes nothing, so it is no step. Nothing in the code puts an
  operation into `retry_wait`. Bounds: `MaxGen`, `MaxTime`.
- Not modelled at all, with the reason in `PROJECT.json`: the other records of `src/cacheroute`
  (routing, knowledge, runtime: immutable, and not used by the services yet), the resource agent and
  the dashboards, the user interfaces, scripts and tests: no state whose order of changes matters. Of
  the modelled parts: floating-point regressions, embeddings, request parsing, the Redis protocol, the
  link topology of the Proxy (`p_control_plane.py:397`), the list of tasks that only estimates add
  (`_kdn_kv_pending_tasks`), and the cancellation of workers at shutdown.

## Plan

Done: every component of the inventory whose state changes in an order that matters, and the
proofs above. What is worth having next, in this order:

1. That a task that may be released again is the only way to violate `ReadyStageExact`: the theorem for
   any number of predictions that raise, up to the second release.
2. An abstract `LoadLedger` that both pools are shown to implement (`CountsAreTrue` from outside).
3. The KV forecast's list of estimates (`_kdn_kv_pending_tasks`) and the link topology of the Proxy.
