# Verification of RADaFlow's concurrent core

RADaFlow is a fork of the Proteus HTAP system: an OLTP engine ("Aeolus"), an
OLAP engine that generates code for CPUs and GPUs, the platform both run on
(threads, queues, memory, network, storage), and a runtime for clusters. This
directory models the parts whose correctness depends on the order in which
threads, devices and messages act, checks small instances with TLC and proves
the main invariants for every size with TLAPS.

## 1. The system and its parts

| Part | Source | What can go wrong there | Modules |
|---|---|---|---|
| Transactions, one-shot GC | `core/oltp`: `transaction_manager`, `txn-table`, `delta_storage`, `schema`, `mv-record-list`, `column_store` | a collector reclaims a version somebody still has to read | `OneShotGC` |
| Version memory | `delta_storage.cpp`, `delta-memory-ptr.hpp` | two versions in the same bytes, a stale pointer that passes | `DeltaMemory` |
| OLTP worker pool | `worker.cpp`, `worker-pool.cpp` | barriers passed early or never, a shutdown that hangs | `WorkerPool` |
| Thread pool | `threadpool.hpp` | lost wakeups, tasks that wait for tasks, destruction | `ThreadPool` |
| Asynchronous queues | `async_containers.hpp`, `threadsafe-set.hpp` | lost, duplicated or reordered items, a close that hangs | `AsyncQueue`, `FifoChannel`, `TicketQueue` |
| Exchange | `operators/router` | a packet reused or freed while it is read, a close that hangs | `Router` |
| Memory moves, io_uring | `operators/mem-move`, `io_uring.cpp` | a block handed on before it has arrived, requests nobody polls for | `MemMove`, `IoUring` |
| Buffer manager | `buffer-manager.cu`, `threadsafe_device_stack.cuh`, `threadsafe_stack.cuh` | a buffer lost or handed out twice, a shutdown that hangs | `BufferManager` |
| InfiniBand handler | `infiniband-handler.cpp` | data found in the wrong buffer, answers to the wrong read | `IBHandler` |
| Cluster control | `cluster-control.cpp`, `local-command-provider.cpp` | statements lost, status of the wrong broadcast or node | `ClusterControl` |
| the rest | | | section 6 |

How they interact: OLTP workers, created by the worker pool, run transactions
against the column store and its delta stores, whose versions live in the
version memory. OLAP queries are pipelines joined by exchanges and memory
moves; both hand blocks from thread to thread through the queues and run their
consumers on the thread pool, which also serves loading, compilation and the
network. Memory moves take buffers from the buffer manager and data from NVMe
drives through io_uring. Between servers, blocks travel through the InfiniBand
handler and statements through cluster control.

Four modules are joined by what one shows and another uses: `AsyncQueue`,
`IBHandler` and `MemMove` each implement `FifoChannel`; `Router` and `MemMove` use
queues as the FIFO channel that `AsyncQueue` is shown to be; `MemMove` extends
`IoUring`; and `DeltaMemory` lets a worker in only while nobody collects, which is
`CollectorAlone` of `OneShotGC`.

`PROJECT.json` lists every part, with the reason where it is not modelled, every
hazard with the line where it bites, and for every definition the lines it
models.

## 2. Modules

`MC<M>.tla` with its `.cfg` file instantiates module `<M>` for TLC. Definitions
whose comment starts with "Variant:" are plausible bugs of the definition that
follows them; for each property a run checks there is one that violates it. History
variables are marked HISTORY where they are declared. The default build type is
Debug, so assertions are on; where one fails the process has ended.

Several properties have the form "... unless H", where H is a history the code
is exposed to. Each such exemption is necessary: without it TLC finds a
violation. They are listed in section 4.

### OneShotGC

Workers run `executeFullQueue` over a stored procedure shaped like YCSB's: lock
all records to be written (or abort), then read and update. The state is that
of the code: the start-time generator, `min_active` of each thread's
transaction table, `current_delta_id`, `readers`, `max_active_epoch` and `tag` of each
delta store, `t_min`, the version chain and the write lock of each record. The
configuration is the repository's: `GcMechanism == OneShot`, `MV_RecordList_Full`,
one master version, `GC_CAPACITY_MIN_PERCENT == 0`, so that `should_gc` is always
true.

| Action | Code |
|---|---|
| `BeginTxn`, `PublishMinActive` | `getTxn` takes the start time, `beginTxn` stores it in `min_active` one statement later: two steps |
| `add_active_txn`, `switch_delta`, `update_delta_epoch` | `Schema::add_active_txn` and `switch_delta` |
| `increment_reader`, `spin_reader` | `CircularDeltaStore::increment_reader`: count, and wait while a collector is there |
| `decrement_reader`, `remove_active_txn`, `StartGC`, `NextGC` | who calls `GC()` for which deltas |
| `gc_acquire`, `gc_skip`, `get_min_activeTxn`, `gc_reset`, `gc_release` | `CircularDeltaStore::GC()`: the compare-and-swap of `readers`, the slot-by-slot scan, tag increment, `readers = 0` |
| `try_lock`, `lock_failed`, `locks_acquired`, `release_locks` | the lock phase and its abort |
| `create_versions`, `updateRecord`, `getIndexedRecord`, `endTxn` | writes, reads, end |

Three steps merge accesses that nobody can tell apart: `current_delta_id` is
assigned with the count although the code sets it just beside it (only its own
thread reads it); the increment of `readers` is merged with the store of the
epoch, since epochs are read only while `readers` is negative; and `gc_reset`
reads the epochs and resets in one step, since they cannot change while the
delta is collected.

### DeltaMemory

The memory behind one delta store. A thread registers its metadata in two
steps (`register_meta`, `emplace_meta`: the lock of `initThreadLocalPools` is never
given its mutex, so that two threads may lose an entry to each other), takes a
first slack with `initSlackCache` and then allocates
versions (`allocate`, `fetch_add`, `assert_not_full`, `getVersionDataChunk`). The
collector resets the cursor and zeroes the slack of one thread after the other.
`remaining_slack` is an `int` compared with a `size_t` (`AsSize`); pointers keep the
tag modulo `TagWrap`.

### WorkerPool

One client calls `init`, `start_workers`, `add_worker`, `snapshot` and `shutdown` in
some order. A worker's thread runs before `create_worker` has put it into the
map, both barriers compare with the size of the map, and worker 0 takes the
closing snapshot. Pausing a running worker meets an assertion of the worker.

### ThreadPool

The elastic pool: `enqueue` (by clients or by running tasks), the notification
after the unlock, the workers' loop, the destructor. A critical section is one
step, with the one exception that a worker holds the mutex between evaluating
its predicate and going to sleep, because the destructor does not take the
mutex. Spurious wakeups are possible. A task may run for ever.

### AsyncQueue and FifoChannel

`FifoChannel` says what a queue promises: items arrive once and in order, `pop`
returns false and `close` returns only when nothing is left. `AsyncQueue` is
`AsyncQueueSPSC`/`MPSC` with its consumer-side cache that is filled backwards and
emptied without the mutex. It implements the channel under the mapping
"transit = cache read backwards, then the queue". `push` is not called after
`close` (the class asserts so) and the consumer stops after the first `false`.

### TicketQueue

The ticket ring `AsyncQueueMPMCWithSleep` (`AsyncQueueMPMC` without the sleep):
every atomic access others can see is a step. `live` is a history variable: the
tickets that were published and not taken, with their items.

### Router

The exchange. Ready queues are FIFO channels, free pools are ticket queues.
Producers open, acquire a packet, store a block, release it, and close; the
last one closes the queues in order and joins the firing threads. A firing
thread allocates its packets, consumes, gives packets back, re-acquires all of
them and frees the memory. Policies choose any target. `shared` is the random
policy, where all targets use pool 0; it is chosen in `Init`. The memory a firing
thread frees (`fire_close`) is that of the packets it had allocated, whichever it
has re-acquired: a freed packet may keep its block or lose it, and a pipeline that
consumes one without a block consumes none. The code that consumes a block is
generated and is one step.

### MemMove and IoUring

`MemMoveDevice` between the pipeline's thread and its catcher. `kind` is chosen in
`Init`: `"ram"` (no NVMe relation), `"gpu"` (NVMe to GPU) or `"cpu"` (NVMe with a
ring: a CPU target, or staging of all fields). Blocks of an NVMe relation may
hold page ids or memory (`paged`).

| Action | Code |
|---|---|
| `consume_block`, `acquire`, `push_ring`, `push_gpu`, `push_memory`, `push_memcpy`, `push_async`, `decompress_refused`, `submit_fields` | the generated call sequence `acquire`, `make_mem_move_device` (`push`, `force_push`, `force_push_from_nvme`, `batch_push_nvme_to_gpu`, `overwrite_bytes`) |
| `read_field`, `read_full`, `poll_reap`, `poll_failed`, `poll_return` | `IoUringThreadUnsafe::read`, `poll_until_requests_can_be_made`, `poll` with the callbacks |
| `propagate`, `spin` | `propagate`: event, `tran.push`, and polling until a unit is idle |
| `close`, `flush`, `tran_close`, `tran_closed`, `join`, `drain`, `destroy_submit`, `destroy` | `MemMoveDevice::close` and the ring's destructor |
| `get`, `get_end`, `event_synchronize`, `stream_synchronize`, `check_complete`, `wait_block`, `wait_for_timeout`, `consume`, `release` | `catcher`, `getPropagated`, `release` |
| `decompress` | `GpuDecompressor`: the batch on the unit's stream, whose status is read only without a stream |
| `stream_step`, `kernel` | external: the CUDA stream, the kernel's side of the ring |

A read, of the ring or of cuFile, completes with all bytes, with fewer, or with
an error (chosen where the code first looks at it: in `poll` for the ring), which ends the process (`failed = "io"`), as do a submission that falls
short, a failed wait for completions and a decompression that is refused; a
`CHECK` that fails because the program counted wrong is `failed = "check"`. A copy
between sockets is a `memcpy` after the stream is done (`push_memcpy`); only a copy
to or from a GPU is left on the stream (`push_async`). Where memory lies (the
topology's lookup of its address) is any answer that the lookup may give. A
callback's decrement and its notification are one step: nobody acts on the value
between them except the catcher, which then needs no notification.

### BufferManager

One GPU and one NUMA node: the GPU's stack of free buffers, the host's cache of
them, the manager that refills it, the releases that trim it, both through
kernels on one stream and one staging array; counted host buffers; buffers that
kernels give up and the thread that collects them; `destroy`.

### IBHandler

One connection, in one direction: grants of buffers, writes, silent writes and
`write_to`, packed notifications, the pollers of both sides, reads of which one
in a batch is signalled, batched releases, and `disconnect` from either side: the
goodbye (`disconnect`) and the wait for an entry of the subscription
(`disconnected`). A notification carries sizes and nothing else: -1 stands for a
silent write and -bytes for a `write_to` (`Encoded`), and the poller tells the kinds
apart by the sign (`Decoded`), so a `write_to` of no byte is taken for a write and
one of one byte for a silent write. Work requests of one side take effect in
order and none is lost, as a reliable connection guarantees.

### ClusterControl

The primary and its executors: registration, the broadcasts (prepare, execute,
prepare and execute), the executors' tasks and status notifications, departure,
shutdown. gRPC is external: a call may be lost on its way out or back;
executors may crash. Faults are drawn from a budget. A step of the iterator over
`client_conn` is atomic. In the code it may run while a registration inserts into
the same `std::map`, since broadcasts take no lock (`cluster-control.cpp:194, 229,
266` against `313`), and what it then sees is undefined; the model has the
registrations between two steps.

## 3. Runs

| Run | Expect | Shows |
|---|---|---|
| `gc` | pass | a transaction that was published in time always finds a readable version (`ReadableUnlessExposed`); no delta is reset under a writer (`NoResetUnderWriter`); write locks have one owner and are never leaked (`LockOwnership`); every transaction ends (`EveryTxnEnds`); the inductive invariant `GcInv` of section 5, with it that a collector is alone with its delta |
| `fatal` | violation | a transaction scanned between start time and publication loses its version and dies in the code's fatal log |
| `versions` | pass | versions with valid pointers do not overlap (`ValidPointersIntact`) and lie in the delta's memory (`VersionsInMemory`); the inductive invariant `MemInv` |
| `workers` | pass | data is loaded before anyone runs (`LoadedBeforeRun`); the closing snapshot meets no transaction and nobody is paused (`PoolInv`); every worker starts and shutdown returns (`LifeGoesOn`) |
| `pool` | pass | a thread for every queued task (`ThreadPerTask`), every task starts (`EveryTaskStarts`), destruction returns (`DestructionReturns`) |
| `queue` | pass | the mutex queue implements the FIFO channel (`IsFifoChannel`); nobody sleeps in vain and both sides agree on where the queue is (`QueueInv`); every item arrives and `close` returns (`EverythingArrives`) |
| `tickets` | pass | nothing overwritten (`NothingOverwritten`), nothing stranded, lost or doubled, every ticket drawn once (`RingInv`), every pop returns (`PopReturns`), also over `close` and `reset` |
| `router` | pass | packets are freed only when unused (`PacketsAlive`); every block is consumed exactly once (`RouterInv`), both until a shared pool lets a thread free packets that are not back; the query ends, so every acquire returned (`QueryEnds`) |
| `memmove` | pass | a block is handed on when all of it is in place (`ArrivedWhenConsumed`); requests and work units are counted right and acquiring never waits where it must not (`MoveInv`); the operator is a FIFO channel and ends (`IsFifoChannel`, `MoveEnds`) |
| `buffers` | pass | a GPU buffer is in one place (`DeviceBufferInOnePlace`); host buffers are counted right (`PoolsInv`); what is drained fits (`DrainFits`); takers, collected buffers and `destroy` make progress (`NobodyWaitsForEver`) |
| `infiniband` | pass | the two sides' buffer queues stay mirror images (`PositionsRight`); the subscription is a FIFO channel (`IsFifoChannel`); reads are completed with their data and given back once (`ReadsSound`); notified writes arrive, reads are answered and `disconnect` returns (`ConnectionProgresses`) |
| `cluster` | pass | broadcasts reach every registered executor (`BroadcastReachesAll`); an executor answers a broadcast at most once (`AnsweredOnce`); addresses, connections and ids fit (`TablesInv`); statements are answered and shutdown reaches everyone (`RequestsTakeEffect`) |

An invariant or liveness property named after a whole module (`QueueInv`,
`RingInv`, `RouterInv`, `PoolInv`, `TablesInv`, `PositionsRight`, `PoolsInv`, `MoveInv`,
`EverythingArrives`, `LifeGoesOn`, `RequestsTakeEffect`, `ConnectionProgresses`,
`NobodyWaitsForEver`) is a conjunction: the invariants start with the module's
type invariant, and each further conjunct has a name and a comment of its own.
Section 4 uses those names. The type invariants of `OneShotGC`, `ThreadPool` and
`DeltaMemory`, and `IdleCounted` and `NoSleepOverWork` of `ThreadPool`, are proved
instead (section 5).

Bounds, and why they are enough:

- `gc`: two workers, two records, two deltas, three start times with a switch at
  every one, so a delta is filled, left, collected and reused while the other
  worker reads and writes, and an abort may hold another lock. `fatal` has four
  start times and one record. The tag width is the real one. The safety
  properties are proved for every number of start times.
- `versions`: two threads, a delta of two slacks of four bytes, versions of two
  bytes and of five, one more than the slack, three versions, tags up to 3 that
  wrap at 2.
- `workers`: two workers and one hot-plugged, two rounds, one snapshot.
- `pool`: one initial thread and three tasks, so threads are added, tasks
  enqueue tasks and all threads can be stuck in tasks.
- `queue`: a cache of two slots, two producers and three items: refills that are
  full, partial and empty.
- `tickets`: three slots, three packets, five tickets: a second round of the ring.
- `router`: two targets of two packets, two producers and three blocks, so that
  producers compete for packets and one target ends while the other works.
- `memmove`: two work units, three blocks, so that a unit is used again; two
  fields and two request slots, so that requests of two blocks are under way at
  once and complete in any order, and `read` polls in the middle of a block.
- `buffers`: five GPU buffers, a staging array of two, a cache of three; the
  calls of each kind are bounded by budgets (`MCBudgets`), one of which each
  behaviour keeps.
- `infiniband`: grants of five buffers (the smallest for which a fifth is a
  whole buffer), packs and batches of two, writes of zero, one and two bytes (the
  sizes the encoding tells apart), budgets of writes, reads and disconnects.
- `cluster`: two executors, budgets of broadcasts, faults and departures.

`CHECK_DEADLOCK FALSE` stands where the system may really stop: workers that have
used up the start times, a pool without tasks, a ring nobody uses, a query that
has ended, a process that has ended. The liveness properties exclude the stops
that are not wanted.

Fairness is weak fairness of each thread's own steps, which is what the
scheduler gives, and of what a device was asked to do. Nobody is obliged to
call anything, with these exceptions: the consumer of a queue calls `pop` until
it returns false, as `Router::fire` does; the producers' scans of `Router` and
`MemMove` are finite and end with `close`. In `ThreadPool` nothing is assumed of
tasks; in `BufferManager` and `OneShotGC` a call that was begun goes on.

The finding behind `fatal` is in `PROJECT.json` with the lines of the code and of
the check it contradicts.

## 4. Exemptions

What each conditional property excludes, and why it must. All of these can
happen in the code as written.

| Property | Excluded | Because |
|---|---|---|
| `ReadableUnlessExposed` | a transaction scanned before it is published (`exposed`); a tag wrap | `txn-table.hpp:61-62` are two statements; run `fatal` |
| `ValidPointersIntact`, `VersionsInMemory` | a thread that initialises its slack during a reset (`raced`); a record larger than the slack (`oversize`); 2^20 resets; a capacity that is no multiple of the slack | `initSlackCache` allocates unregistered; the comparison at `delta_storage.cpp:404` is unsigned; the assertion looks at the first byte only |
| `LoadedBeforeRun`, `ClosingSnapshotAlone`, `NobodyPaused`, `EveryWorkerStarts`, `ShutdownReturns` | a worker faster than `create_worker` (`early`); hot-plugged workers; a snapshot the client takes of running workers (`unsafe`); second rounds | the barriers compare with a size that grows; hot-plugged workers pass no barrier; `worker_counter` is never reset, so a second round has no worker 0 |
| `DestructionReturns` | tasks that never end; a worker between predicate and sleep when the destructor notifies | `~ThreadPool` takes no mutex (`threadpool.hpp:159`) |
| `NothingOverwritten`, `PopReturns` | a pop overtaken by a younger one | a push waits for its slot's ticket to be drawn, not for the item to be read; with the code's N = 2048 it takes 2048 pushes meanwhile |
| `PacketsAlive`, `RouterInv` | the random policy after a thread has freed its memory with packets of another target in exchange (`Strayed`) | one pool for all targets: a thread frees its memory when it has re-acquired enough packets, whosever they are (`router.cpp:350-354`) |
| `ArrivedWhenConsumed` | a copy to or from a GPU over an NVMe relation (`unsynced`); a short read or an unnoticed failure of a decompression (`cut`) | the wait for the copy stream is commented out (`mem-move-device.cpp:886`); `poll` takes every non-negative result for success, and the callback's TODO says so; `CHECK_GT` after `cuFileRead` lets fewer bytes pass; the status of a decompression is read only without a stream (`compression.cpp:259`) |
| `DeviceBufferInOnePlace` | an overwritten staging array (`clobbered`) | `__release_buffer_host` uses `device_buff` after unlocking |
| `DrainFits` | a buffer that came back during a refill (`crowded`) | the manager has no upper bound; the assertion of `destroy` can then fail |
| `DestroyReturns` | a manager between predicate and sleep (`missed`) | `destroy` notifies without the mutex |
| `ReadsArrived` | reads sent out of order (`reordered`) | the number is drawn under the lock, the request posted outside; a FIXME says so |
| `PositionsRight`, `IsFifoChannel` and `ConnectionProgresses` of `IBHandler` | what follows a `write_to` of fewer than two bytes (`misread`); `PositionsRight` shows that no other write is mistaken | the kind of a write is encoded in its size (`infiniband-handler.cpp:549` against `371` and `378`) |
| `AnsweredOnce` | an executor that leaves under the iterator (`torn`) | the iterator may then lead back to an executor that was called before |
| `BroadcastReachesAll`, `AddressesMatch`, `AnswersAreCurrent`, `StatementAnswered`, `ShutdownReachesAll` | failed calls, an executor that leaves under the iterator (`torn`), broadcasts that overlap, a pointer into a vector that has moved (`stale`) | nothing is retried and the maps are walked without the lock |

Two hazards have no property at all, since the code does nothing against them: two
threads that register their metadata at once (`delta_storage.cpp:206`) lose an entry,
and with it a collector overlooks an epoch; and unprepared statements.
`StatementAnswered` speaks of prepared statements only. An unprepared one is
to be prepared by the handler of `unprepared_plan_execution`
(`cluster-control.cpp:494`), which nothing throws: `runPreparedStatement` fails in
`map.at` (`local-command-provider.cpp:129`), the task ends and no status is sent.

`OneShotGC` also shows that a version chain need not be ordered from newest to
oldest, as the comment at `mv-versions.hpp:187` has it: records are written in the
order of their locks, not of start times. Nothing in the model depends on it.

## 5. Proofs

All theorems hold for every value of the constants allowed by the modules'
assumptions. The proofs about module `<M>` are in `<M>_proofs`. Lemmas about
cardinalities stand behind those that do not need them, after `INSTANCE
FiniteSetTheorems`: the fewer facts are in sight, the faster a step is proved.

**OneShotGC** (at least one worker and one delta; more reader bias than workers,
which holds for `INT64_MIN`). Type correctness and lock ownership come first; the
latter is inductive as it stands. `OneShotSafe` (no published
transaction loses a version it has to read) needs the invariant `GcInv`, found
with TLC first and checked in run `gc`:

- `PhaseInv`: a running transaction's start time is in `min_active`, and is at
  least every epoch its thread has left in a delta;
- `WriterInv`: a writer is registered with the delta of its start time, where its
  epoch is that start time;
- `CollectorAlone`, `CountInv`: `readers` counts the registered workers, or is so
  far below zero that the increments of spinning workers do not reach zero; so
  while a delta is collected nobody is registered with it and its epochs stand
  still;
- `ScanInv`: for each slot the scan has passed, a running transaction is not
  below the running minimum or began beyond the epochs of the delta;
- `ChainInv`: a version ends where the next newer one begins, and while its
  pointer is current some epoch of its delta is at least its writer's start time.

At the reset the minimum is beyond the epochs, so every running transaction is
newer than the writer of every version in the delta: its walk along the chain
stops before. `WritersKeepTheirDelta` follows from `WriterInv` and `CollectorAlone`.

**DeltaMemory** (a first allocation that fits the slack, tags of at least one
bit). The invariant is `MemInv`, checked in run `versions`:

- `Occupancy`, `QuietReset`, `TagsGrow`: who may be where while somebody collects,
  and no version carries the new tag before the reset is over;
- `SizesFit`, `SlackBelowCursor`, `SlackApart`: slack that is not about to be zeroed
  lies below the cursor and belongs to one thread;
- `CurrentVersionsApart`, `SameTagApart`: versions with the current tag lie below
  the cursor and in nobody's slack, and versions with the same tag are disjoint;
- `InMemory`, if the capacity is a multiple of the slack.

The steps are proved in this order. `PointersIntact` follows because two overlapping versions have
different tags, the older one the smaller, and tags that differ by less than
`TagWrap` stay different when they are cut to it.

**WorkerPool** (at least one worker and one round; any number of hot-plugged workers
and snapshots). `LoadedBeforeRun` and `PoolInv` say what the barriers achieve, and
need what they count. The invariant `LifeInv`, defined in `WorkerPool_proofs`:

- `Known`, `Bounded`: ids are given out in order, and never more than a round, the
  rounds before it and the hot-plugged workers account for;
- `Counted`: `pre_barrier` is the number of workers of `init` past loading, plus one
  from `start_workers` on; `post_barrier` the number of those past their loop, plus
  one when worker 0 has taken its snapshot;
- `Seating`, `Roles`: what the client's place says of the pool, which worker may be
  told to end or pause, and that only worker 0 waits and takes snapshots;
- `Order`: nobody loads once `init` has returned, nobody passes the first barrier
  before `start_workers`, and while worker 0 takes the closing snapshot everybody
  is past the loop.

`Order` at the first barrier is where the count is used: a worker in the middle of
`create_worker` is not in the map yet, so a barrier that equals the size of the
map can be passed too early by a worker that is faster (`early`). Without one,
`pre_barrier` equal to the number of workers plus one means that all of
them are past loading and `start_workers` was called, since a part of a finite set
with the size of the set is all of it.

**Router** (finitely many producers, any number of targets, packets and blocks, both
pool policies). The argument follows the packets, and `ExchangeInv`, defined in
`Router_proofs`, says where they are:

- `Unique`: a packet is in at most one of the free pools, the ready queues, the hands
  of the threads and the sets of re-acquired packets, and there once;
- `Own`: unless the pool is shared, it stays with its target;
- `Hands`, `Counted`, `Fresh`, `Late`: who has a packet, that `remaining_producers`
  counts the producers that have not closed, and that no packet of a target is
  around, and none re-acquired by its thread, before the thread has allocated them;
- `Allocated`: a packet that was not re-acquired has its memory, unless `Strayed`;
- `Loads`, as long as nothing has `Strayed`: the full packets (queued or being
  consumed) hold different blocks, which are the ones pushed and not consumed.

`Strayed` with a shared pool is never undone (`SoundBefore`), so that both last ones
may assume that it has not happened before.

`MemoryOutlivesPackets` follows from `Allocated`, whose critical step is the free at
the end of `fire`: the thread has re-acquired as many packets as it allocated. If
all of them are its own, they are all there are, and by `Unique` none is anywhere
else (`CloseReturned`); so the memory that may be overwritten holds no full packet.
`BlocksDelivered` turns `Loads` into the count of places that `RouterInv` states: one
packet holds the block, and it is in one place.

**ThreadPool**: type correctness, `IdleCounted` and from it
`ThreadPerTask` (the elastic pool has a thread outside tasks for every queued
task), and `NoSleepOverWork`.

**AsyncQueue** (at least one cache slot, any number of
producers and pushes). `QueueSafe` is inductive with `SidesAgree`: the queue
terminates exactly from `close` on, no push is under way then, a consumer that came
to the mutex had emptied its cache, and one that returned false left nothing. From
it `QueueIsFifo` shows the refinement, initial states and step by step: a push
appends to "cache read backwards, then queue", a refill moves items from the queue
into the cache and leaves that sequence as it was, a pop takes its head, and every
other step is a stutter of `FifoChannel` or one of its `close`, `closed` and `eof`
steps.

**TicketQueue** (a finite number of packets, at most as many as
slots - a router has a few dozen and the ring 2048 - and any number of threads).
`RingSafe` proves `RingInv`, which TLC checked first:

- `PushTickets`, `LiveTickets`, `PopTickets`: a ticket is drawn by one push and one
  pop; what is written is less than a round ahead of the pops;
- `PacketsReachable`: a published packet's ticket was not drawn yet, or the pop that
  drew it still polls, also after `close` and `reset`;
- until a pop is overtaken, `NoGaps` (every ticket a pop can come to belongs to a
  packet) and `ItemsOnce` (every packet is outside, being pushed, or in the ring).

`NoOverwrite` rests on a count. If a push stores into the slot of an unread packet,
its ticket is N younger. Without gaps the tickets between the two belong to
packets, each to another one: N + 1 packets, one more than there are. The
assumption is needed: with more packets than slots TLC finds a packet overwritten.

**ClusterControl** (any executors, queries and budgets). `TablesSafe` proves `TablesInv`:

- `Registered`: ids are given once and up to `executor_id_ctr`, and an executor that
  has not said goodbye is found under its id;
- `AddressesMatch`, which needs it: the address erased when an executor leaves is its
  own unless the pointer in `exec_id_map` was stale;
- `AnswersAreCurrent`: until broadcasts overlap, the statements, notifications and
  status of the last broadcast's query are of that broadcast;
- `IteratorAhead`: who was connected when a broadcast began was reached, has left or
  is not behind the iterator, since new executors get larger ids. `BroadcastSafe`
  follows: the broadcast ends with nobody ahead.

`AnsweredOnceSafe` needs `AnswersAhead` besides: nothing is of a broadcast yet to come,
and the executors from the iterator on, in the order of their ids, have nothing of
the one under way. So a call gives its executor the only statement of the
broadcast, and each statement ends in at most one notification.

Only model-checked: all liveness properties (the prover does neither fairness
nor `ENABLED`); the safety properties of `IBHandler`, whose invariant compares queues
that are built by folding over the requests under way, so that its steps need
induction over sequences, which the prover does not do; those of `BufferManager` and
`MemMove`, for which no inductive invariant was worked out; and the refinements of
`FifoChannel` by `IBHandler` and `MemMove`.

## 6. Not modelled

- Operators other than the exchange and the memory move, expressions, plugins
  and the code generator emit LLVM IR; what they do is in the generated code,
  which is not in the repository. They are by far the largest part of it.
- Planner, front ends, plan parsing, query shaping, topology, tracing and the
  applications are sequential or only drive the parts above.
- Of the transaction path: inserts and deletes, SteamGC and the consolidating
  variants (switched off in the build), attribute-level version lists, reads of
  several records in one transaction.
- HTAP snapshots beyond the pause of the workers: with one master version, the
  repository's configuration, a snapshot copies nothing transactions share.
- Indexes and latches: the hash array and the cuckoo index are arrays and an
  external library; the radix tree is out of reach beyond a few nodes.
- The broadcast, local-to and scale-out memory moves, which override pushing and
  pulling in the protocol of `MemMove`; a GPU target that stages only some fields,
  for which `open` creates no ring although it would be used. `readv` has no caller.
- Scale-out exchange: glue between `Router` and `IBHandler`.
- Memory manager and storage manager: each operation is one critical section,
  or happens before queries run.
- Of `IBHandler`: connection set-up, memory registration, named subscriptions
  (`sub_id`), both directions at once.
- Weak memory: every access is taken as sequentially consistent. Most of those
  the modules interleave are sequentially consistent atomics or protected by a
  mutex. Atomic but relaxed are the decrement of `readers` in `decrement_reader` and
  that of `workunit::complete`. Neither atomic nor locked are `max_active_epoch`, the
  `client_conn` map that broadcasts walk, the look of `idle.empty_unsafe()` at its
  queue and `buffer_manager::terminating`; a word is taken as read and written
  whole.
