# Verification of the vLLM V1 engine and ECHO draft pruning

This directory holds TLA+ specifications of the part of the repository that
decides *which tokens are computed when, where their keys and values live, and
how the processes that do so keep in step*: the V1 scheduler, the KV-cache
manager, the encoder cache, KV transfer, the engine loop, the shared-memory
message queue, the multiprocess executor, the waves of data-parallel engines, and
ECHO, the draft pruning of the Ascend model runner. TLC checks them on small
instances; TLAPS proves the block queue, the block pool, the ring buffer, the
message queue and the order of wave numbers for every size.

Paths below are under `src/vllm/vllm/v1/` unless they start with `src/`.

## The system

The repository contains three trees: `src/vllm` (the inference engine),
`src/vllm-ascend` (its Ascend back end, with ECHO) and `src/echo` (notes on
ECHO). The parts that keep state, and how they interact:

- **Front end** (`engine/async_llm.py`, `engine/core_client.py`): takes
  requests, sends them to an engine core, hands outputs back.
- **Engine core** (`engine/core.py`): one thread, a busy loop that takes
  requests and aborts from queues and calls `step` (schedule, execute, update)
  or `step_with_batch_queue` (the same with several batches in flight).
- **Data-parallel coordinator** (`engine/coordinator.py`): wakes and pauses
  engines that must make every forward pass together.
- **Scheduler** (`core/sched/`): the waiting queue (FCFS or priority), the
  running list, `schedule()`, `update_from_output()`, preemption, and the
  `AsyncScheduler`, which schedules requests whose outputs are still unknown.
- **KV-cache manager** (`core/kv_cache_manager.py`, `kv_cache_coordinator.py`,
  `single_type_kv_cache_manager.py`, `block_pool.py`, `kv_cache_utils.py`):
  block tables, reference counts, prefix-cache hashes, the free block queue.
- **Encoder cache manager** (`core/encoder_cache_manager.py`): slots for the
  embeddings of images and other items of a prompt.
- **Executor** (`executor/multiproc_executor.py`): sends each batch to worker
  processes over a queue in shared memory
  (`src/vllm/vllm/distributed/device_communicators/shm_broadcast.py`).
- **Workers** (`worker/`): write keys and values, sample, draft. ECHO
  (`src/vllm-ascend/vllm_ascend/worker/model_runner_v1.py`) verifies only the
  drafts that fit into `K_MAX` tokens.

`PROJECT.json` lists every component with its modules or with the reason it has
none.

## Modules

| Module | Models | State |
| --- | --- | --- |
| `FreeBlockQueue` | `FreeKVCacheBlockQueue`, a doubly linked list with fake head and tail | the link fields of each block, the counter, the call in progress |
| `FreeQueue` | what the list promises: a queue of distinct blocks | a sequence |
| `KVPool` | what the KV-cache manager promises: holders, counts, hashes | sets |
| `KVCacheManager` | `KVCacheManager`, the unitary coordinator, `FullAttentionManager`, `BlockPool` | operators on a record of the manager's fields |
| `Scheduler` | `EngineCore.step` with the synchronous `Scheduler`, on top of `KVCacheManager` | queues, requests, the step in progress, contents of the KV cache |
| `KVTransfer` | the same engine with a KV connector and with requests that wait for a grammar, on top of `KVCacheManager` | the above, loads and sends under way, what the connector reports |
| `EncoderCache` | `EncoderCacheManager`, its use in `schedule()`, the runner's cache of encoder outputs | counters and sets of both caches, the step in progress |
| `AsyncEngine` | `EngineCore.step_with_batch_queue` with the `AsyncScheduler`, or the plain one under pipeline parallelism | queues, token accounts, batches in flight, the deferred batch |
| `Echo` | `EngineCore.step` with `_echo_prune_drafts` in the worker | token accounts, the scheduler output as engine and worker see it |
| `ShmRingBuffer` | `acquire_write` and `acquire_read` of `MessageQueue`, on `ShmRingBuffer` | flags and chunks in shared memory, where each process is |
| `BroadcastQueue` | what the ring buffer promises: every message to every reader, in order, at most so many unread | two counters |
| `MessageQueue` | `enqueue`, `dequeue` and `SpinCondition`, on top of `ShmRingBuffer` | the sockets beside the ring |
| `Executor` | `MultiprocExecutor.collective_rpc`, its futures, the workers' loops, on top of `BroadcastQueue` | calls, futures, response queues |
| `DPWaves` | `DPEngineCoreProc`, `DPCoordinatorProc`, `DPAsyncMPClient` | wave numbers and running flags of all of them, the messages between them |
| `FreeBlockQueueProofs`, `KVPoolProofs`, `ShmRingBufferProofs`, `MessageQueueProofs`, `DPWavesProofs` | theorems | |
| `MC*` | instances for TLC: constants, and in `MCScheduler`, `MCKVTransfer` and `MCDPWavesCalm` history variables that name the cases a property leaves out | |

Definitions have the names of the methods they model. A definition whose comment
starts with "Mutant:" is a plausible bug in the definition after it; it is used
to make sure that a property can fail.

**FreeBlockQueue.** `popleft`, `remove` and `append` are one action each. The
loops of `popleft_n` and `append_n` are one action per iteration, because the
list is inconsistent in between.

**KVCacheManager.** The scheduler calls the manager as a plain object, so each
method is an operator from the manager's value to its value after the call. A
block hash is the prefix of tokens that it chains, so equal hashes mean equal
prefixes: hash collisions are excluded. The hash map keeps, under a hash, the
blocks in the order of insertion, as `BlockHashToBlockMap` does.

**Scheduler.** Every iteration of the loops of `schedule()` and
`update_from_output()` is an action; `phase` is the place in the code. Requests
and aborts come between steps, aborts also after the model has run
(`_process_aborts_queue`). `written` is what the GPU holds: for every slot the
prefix whose key and value were stored last. A request's tokens are a fixed
stream. A draft is the next token of the stream or is rejected, and the
worker may accept any number of them. End of sequence may come at any token.

**KVTransfer.** A load writes its blocks one by one, over any number of engine
steps, and may fail for some (a block is written while a batch is about to be
executed: only its order with forward passes and reports matters). The connector
reports failed blocks, and finished requests, with the output of a step. Its
lookup may answer "ask again later". `recompute` is the failure policy.
The connector and its worker side are external: they are
modelled by what `schedule()` and `update_from_output()` take from them.

**EncoderCache.** The manager only keeps accounts; the worker drops an entry when
a batch tells it to and asserts that every item a batch needs is there. `missed`
records a failure of that assertion. KV-cache blocks are left out: an allocation
may fail at any time. `reset_encoder_cache` may come between any two steps: with
unfinished requests the engine only warns (`engine/core.py`:590-599) and resets all
the same, and it resets scheduler and runner together.

**AsyncEngine.** A whole `schedule()` is one action, since here the question is
what happens *between* batches. Blocks are abstracted: any suffix of the running
list, but not all of it, may be preempted for lack of blocks, any waiting
requests may fit, and a prefix hit may have any length of `CacheHits`. `fits`
keeps one fact about blocks: a victim's blocks were taken by others, so without
drafts or outputs in flight it does not fit as a whole until some come back.
`outputs` records the position for which every appended output was sampled. With
a structured-output request in a batch and earlier outputs of it unknown,
sampling is deferred (`deferred`) until these have been processed.

**Echo.** `topk` over the drafter's cumulative log-probabilities may select any
`n_select` cells. This over-approximates the code, where without ties a row's
selected cells come first; the properties are about counts. Blocks are plentiful.

**ShmRingBuffer** and **MessageQueue.** Every load and store of a flag is a step.
Load order: `acquire_read` loads the reader's `read_flag` *before* the
`written_flag`. If it were the other way round, the writer could reuse the chunk
between the two loads and the reader would take a stale `written_flag` and a
reset `read_flag` for a fresh message. Sequential consistency is assumed on the
strength of the code's memory fences. No fence stands between the load of the
flags and the read of the data; reordering by the hardware at that place is not
modelled. A message that does not fit leaves a mark in its chunk and goes
through a socket; a reader that finds nothing for a while sleeps on another
socket, which holds at most one notification. Readers wait without a timeout,
as workers do.

**Executor.** The broadcast queue is used through what it promises, which
`ShmRingBuffer` is proved to implement. Only the order ties a response to its
call, so the model keeps for every response the call it answers.
`use_async_scheduling` chooses the branch of `handle_output`: with it an output
thread enqueues the responses, without it the worker's own loop does, and takes no
further call before its response has found room.

**DPWaves.** Every pair of processes has a FIFO channel of its own, and messages
take any time. A forward pass and an all-reduce are one step of all engines, which
must all have come to it: an engine whose partners are paused waits for ever,
which the liveness properties would show. Requests may be aborted at any time after
they have reached an engine, and a front end may hear of the coordinator's state at
any time.

## What is checked

| Run | Question | Distinct states |
| --- | --- | --- |
| `queues` | does the linked list stay a list, and implement a queue? the ring and the sockets beside it: exclusion, order, wake-ups, refinement of `BroadcastQueue`, delivery | 211,418 |
| `scheduler` | the synchronous engine in three configurations: block accounting, cache contents, batches and queues, refinement of `KVPool`, and that every request finishes | 634,163 |
| `async_engine` | two batches in flight, drafts, deferred sampling, preemption, resets: placeholders, cacheable tokens, order of outputs, grammar states, and that every request finishes | 27,084 |
| `echo` | accounts and sampling under pruning, and that every request finishes | 39,367 |
| `encoder_cache` | slot accounts, no miss in the worker, and that every request finishes | 31,433 |
| `remote_kv` | loads, failures and sends: who owns the blocks, what outputs are computed from, and that every request finishes | 473,544 |
| `executor` | do answers go to their calls, where do late ones go, and does the engine come back? | 526,918 |
| `dp_waves` | order of wave numbers, no engine left alone, every request and every wave ends | 626,206 |
| `async_reset_prefill`, `echo_shared_output`, `echo_k_max`, `dp_waves_abort` | disagreements, see below | stop at the counterexample |

Deadlock is checked except in `queues`, `executor`, `dp_waves`, `dp_waves_abort`,
`encoder_cache` and `remote_kv`. There the instances have a last message, call or
request, after which the processes rightly wait; their liveness properties show
that nothing is left undone when they do. (The free queue, which shares its run with
the message queue, always has a next call.)

The central properties:

- `ComputedIsWrittenIfClean` (Scheduler): whatever was shared, evicted, preempted,
  rejected or reset, the keys and values of every token that a running request
  counts as computed are in the slots that its block table names.
  `CachedIsComputedIfClean` says the same of the prefix cache. Both end with the
  first request that is preempted out of the batch it is in, see the disagreements
  below. `OneWriterPerSlot` says that shared blocks are only read.
- `BatchFollowsRunning` (Scheduler): also when a request is preempted out of the
  batch under construction, the loop of `schedule()` neither skips a running request
  nor takes one twice, and tokens and budget add up.
- `RefCountsExact`, `HashMapExact` and `ImplementsPool`: counts, free queue and
  hash map agree with the block tables, and the manager implements `KVPool`.
- `TransferOwnsBlocks`, `OutputsFromValidKVIfConfined` (KVTransfer): no block is
  reused under a transfer, and no token is sampled from blocks that failed to load,
  unless a block that failed inside a step has reached another request, see below.
- `SlotsExact`, `NoEncoderMiss` (EncoderCache): the manager's accounts are exact,
  and the runner holds what the manager believes it to hold.
- `PlaceholdersAreInFlight`, `CacheableTokensAccepted`, `OutputsInOrder` and
  `GrammarIsCurrent` (AsyncEngine): a placeholder is exactly an output in flight;
  no token that may be rejected is cached; outputs are neither lost nor repeated;
  a bitmask is made from the grammar's current state.
- `ComputedAllButLast`, `PruningKeepsSampling` (Echo): pruning changes what is
  verified, never the scheduler's accounts or whether a request gets an output.
- `NoOverlap`, `InOrder`, `DequeueInOrder`, `NoLostWakeup`, `AllDelivered` (the
  message queue), `WavesOrdered` and `RequestsAndWavesEnd` (DPWaves): the processes
  keep in step.
- `AnswersMatchCalls`, `AnswersNeverAhead` (Executor): until a `get_response` gives
  up, each call gets its own answers. After that a call may get late answers of an
  earlier one, but answers never come twice, out of order or ahead of their call.

### Bounds

*Scheduler, KVTransfer, Echo, AsyncEngine.* Two or three requests of at most
eight tokens, blocks of two tokens, and four or five usable blocks. At these sizes
two requests share a full block and part in the next one, a third hits what the
first has freed, the pool runs out while two requests run, a block is evicted and
hit again, a prompt is split into chunks, and drafts cross a block's end. The
batch budget is below the sum of the requests' tokens. `MaxResets`,
`MaxPreemptions`, `MaxFailures`, `MaxUnsure` and `MaxAborts` bound what could
happen for ever.

`scheduler` chooses one of three configurations at the start: FCFS with resets; FCFS
with eagle's recomputed last hit, a long-prefill threshold and whole prompts reserved
at admission (`scheduler_reserve_full_isl`, the default); and priorities with the
threshold. One request grows to `MaxModelLen = 7`, so that drafts are cut there. In
`AsyncEngine`, two batches in flight is what `max_concurrent_batches` gives the
`AsyncScheduler`; deeper queues come with pipeline parallelism only.

`async_engine` has a state constraint, `WellReset`: each reset that it follows
finds an output without drafts in flight for each running request. The other
resets are the disagreement of `async_reset_prefill`.

*EncoderCache.* Three requests that share three items. The cache holds two of
the items and a step may encode as many, so that both budgets run out, items
are evicted, and the token budget splits an item.

*Message queue, Executor.* Two readers or workers, a ring of two chunks and four
messages (the writer comes round twice), each small or large; three calls, two
pending futures, and queues of one chunk, so that each queue fills up. `EngineReturns`
needs room: with three pending futures, or with two and a late response of an
abandoned call, over queues of one chunk each, everyone waits for everyone. Futures
and late responses together must fit into a response queue and the broadcast queue;
the code has 10 chunks in each and as many futures as batches in flight.

*DPWaves.* Two engines, two front ends, two requests, an all-reduce every second
pass (32 in the code); one request outlives the all-reduce it may come just
before, one does not. In `dp_waves` the history variable `calm` ends with the first
of two races, `AbortedPaused` and `WaveOvertakes` (see below); both exclusions are
needed, and `RequestsAndWavesEnd` is about the behaviours that stay calm.

*Free queue.* Four blocks, in all their orders. `queues` follows either the free
queue or the message queue, as `which` says; they have nothing in common.

### Fairness

- *Engine modules*: the busy loop keeps stepping while it has work, and the
  worker returns from every batch: weak fairness of the engine's step. Except in
  `AsyncEngine` it is written as `[]<>~HasWork \/ []<><<TRUE>>_phase`, which TLC
  checks much faster; that `HasWork` holds exactly when a step is enabled was
  checked with TLC as an invariant of each module's instance. Nothing is assumed
  about arrivals, aborts, resets, or which drafts are accepted. Which waiting requests
  find blocks is chosen freely in `AsyncEngine`, except that the first one fits
  when nothing runs.
- *KVTransfer*: transfers and grammar compilations end as well. They run beside
  the engine, but the model lets them step in one phase of the engine's loop
  only, hence strong fairness.
- *MessageQueue*: the writer finishes an `enqueue` it has begun and each
  reader's process runs; nobody has to send.
- *Executor*: the engine's thread and the threads of every worker run.
- *DPWaves*: engines and coordinator run and get their messages, and a front end
  sends its `FIRST_REQ`. A front end may hear of the coordinator's state late or
  never.

## What is proved

`FreeBlockQueueProofs`, for every `NumBlocks`: `TypeCorrect`,
`LinkedInvariant` (both link directions describe one order of distinct blocks,
the counter is its length, blocks outside carry no links) and
`ListImplementsQueue` (the list implements `FreeQueue`). `Linked` alone is not
inductive: inside `popleft_n` and `append_n` the list is broken in known places.
The invariant `IInv` says where: it relates the links to the ghost order and to
the call in progress.

`KVPoolProofs`, for every set of blocks and hashes and every finite set of
requests: `PoolSafety` (types, counts are holders, free blocks are the unheld
ones, the map is the blocks' hashes) and `PoolHashStable` (a held block keeps
its hash). The conjunction of the invariants is inductive. The cardinality of a
block's holders is followed with `FiniteSetTheorems`, for which the requests must
be finite. By `ImplementsPool`, which TLC checks, both carry over to the
scheduler's pool.

`ShmRingBufferProofs`, for any number of readers, chunks and messages:
`RingExclusion` (`NoOverlap`), `RingDelivers` (`InOrder`) and
`RingImplementsQueue`. The invariant `RingInv` places every chunk relative to each
reader: the `lag(r)` chunks from its index on hold its next messages and are
unread, the others are not written or marked as read by it, and a `read_flag` it
has loaded as 0 is still 0. The last conjunct is where the load order is used.

`MessageQueueProofs`, on top of it: `DequeuesInOrder` and `WakeUpsAreKept`. In
`MqInv`, the socket of a reader holds exactly the large messages on the way to
it, in ascending order, so that the mark in a chunk and the head of the socket
are about the same message. And a reader that sleeps, or has loaded a `read_flag`
that will send it to sleep, has read everything or will be notified.

`DPWavesProofs`, for any number of engines, front ends and requests, and whether or
not the races of `dp_waves` happen: `WaveNumbersOrdered`. In `WaveInv` every
message is bounded by the wave its sender may know: requests and published states
by the coordinator's wave, `start_wave` by the engines', `wave_complete` by the
one before. So no message moves an engine to another wave: only the all-reduce
does, for all of them together.

`IInv`, `RingInv`, `MqInv` and `WaveInv` were checked with TLC before they were
proved. The proofs assume what the `ASSUME` of each module states, that sizes
are positive (at least two engines), and nothing else.

Only model-checked: `Scheduler`, `KVTransfer`, `EncoderCache`, `AsyncEngine`,
`Echo`, `Executor`, the refinement of `KVPool`, and all liveness, which is out of
the prover's reach. So are lemmas about folds over sequences, which need
induction over data; the totals in the engine modules are such folds.

## Disagreements between code and its documentation

Four are runs that TLC is expected to refute, with the quoted line in
`PROJECT.json`:

1. `async_reset_prefill`: a reset marks the next output of each running request
   as one to discard, also if none is in flight. The request then loses a real
   token, keeps a placeholder for ever and is never scheduled again.
2. `echo_shared_output`: the notes say that the original scheduler output is
   restored after pruning; the code does not do so. With the worker in the
   engine's process the engine then counts too few rejected drafts.
3. `echo_k_max`: the notes (`src/echo/echo_progress.md`:54-57, 243-244) say that
   requests without a drafter row lose their drafts and are counted in the budget.
   The code does neither, so a batch with drafts may have more than `K_MAX` tokens.
4. `dp_waves_abort`: the coordinator tells all engines but the one that has the
   request to start. If that request is aborted before its engine has stepped, the
   engine stays paused and the others wait for it in a collective for ever.

Others show when a passing run is changed as described:

- *Same-step preemption and the prefix cache* (`scheduler` with `ComputedIsWritten`
  instead of `ComputedIsWrittenIfClean`): under priorities, a request that is already
  in the batch may be preempted by the same `schedule()`. The block that it was about
  to fill stays in the prefix cache and was never computed.
- *Exact fit* (`Scheduler`, `EveryRequestFinishes`; one request that grows to
  `MaxModelLen = 4`, `NumBlocks = 2`, `BlockSize = 2`): the smallest pool that the
  start-up check accepts is one block short of a request of `max_model_len`
  tokens, because of the null block. The request preempts itself for ever.
- *Pipeline depth three* (`AsyncEngine`, `OutputsInOrder`; `Async = FALSE`,
  `BatchQueueSize = 3`, three requests of one prompt token and two outputs, one
  preemption): a request that is preempted and resumed before its result arrives
  outputs a position twice. `GrammarIsCurrent` likewise rests on a queue of two
  batches.
- *Resets with drafts in flight* (`AsyncEngine` without `WellReset`): drafts that
  are in flight across a reset are taken off the accounts of the request's next
  incarnation. With a structured-output request and an empty batch queue, the
  engine takes a batch from an empty queue.
- *Encoder items and EAGLE* (`EncoderCache`, `NoEncoderMiss`; `Shift = 1`,
  `TokenBudget = 2`, an item at offset 2 of a prompt of 4): the drafter reads one
  token ahead, but an item that begins right after the chunk is skipped, because
  the range of its embeddings is computed without the shift
  (`core/sched/scheduler.py`:1242-1256). The runner's assertion then fails.
- *Loads ahead of the pool* (`KVTransfer`, `EveryRequestFinishes`;
  `NumBlocks = 4`): the first waiting request needs blocks that finished loads
  behind it hold; neither moves. Nothing in the admission test prevents this: that
  every request finishes is shown for a pool of five blocks only.
- *Failed loads inside a step* (`remote_kv` with `OutputsFromValidKV` instead of
  `OutputsFromValidKVIfConfined`): blocks of the failed load are already in the
  prefix cache. Another request hits them if it is in the same step, or if the first
  one is aborted or preempted before it has computed them again;
  `src/vllm/tests/v1/kv_connector/unit/test_cache_pollution_prevention.py` is about
  this case with one request after the other.
- *A wave overtakes `FIRST_REQ`* (`dp_waves` without `WaveOvertakes` in `calm`): a
  `FIRST_REQ` carries the wave of the moment it is sent, not that of its request, and
  the coordinator may then leave out an engine that has no request of this wave.

And some assumptions under which the passing runs hold, where the code goes
further:

- `dequeue` with a timeout may give up after it has marked an overflow chunk as
  read and before the large message has come; ring and socket are then out of
  step. Workers wait without a timeout; response queues are read with one.
- Buffers that `dequeue` returns without copying refer to a chunk that is already
  marked as read.
- After a `get_response` that timed out or raised, responses to its call stay in
  the queues, and the next call takes them for its own (`Abandoned` in
  `Executor`). A failure of a worker that is not the one to answer is dropped.
- Without `scheduler_reserve_full_isl`, requests that have been loaded can wait for
  each other's blocks. Under the priority policy a request preempted in the step
  that scheduled it keeps encoder items booked that the worker never computes.

## Not modelled

- In the modelled components: LoRA limits, EC connectors, streaming sessions, pause
  states, pooling, `evict_blocks`, KV events, statistics; start-up, monitoring and
  shutdown of processes; remote readers of the message queue and its handshake;
  load balancing and elastic scaling of data-parallel engines.
- ECHO under the `AsyncScheduler`, where drafts are placeholders.
- Sliding-window, Mamba and hybrid cache groups: `KVCacheManager` has one
  full-attention group.
- The LRU and ARC managers of CPU offloading, the output processor's queues.
- Kernels, tensors, models, quantisation, sampling distributions and API servers:
  numerical code or I/O, without state that a model checker could explore. They
  are by far the largest part of the repository's lines.
