# Models and proofs for oneDNN

TLA+ specifications of the parts of this repository where several threads share
state, or where a plan made once decides what they may overwrite: the object
caches, the scratchpad memory, the barriers, the reduction of partial results,
the scheduler for the Arm Compute Library, and the caches and the memory planner
of the graph component. Each module is written from the source and keeps its
control (guards, early returns, critical sections, error paths) while data is
reduced to what the properties tell apart. Paths below are relative to the root
of the repository, or to its `src/`.

`PROJECT.json` lists, for every definition, the lines of code it models; the
runs and their properties; the mutations that each property detects; and the
hazards this code is exposed to, with the property that covers each.

## Inventory

| Part | State | Operations | Shared with | What is hard | What must hold |
|---|---|---|---|---|---|
| LRU object cache (`common/cache_utils.hpp`), behind the primitive, kernel and compiled partition caches | capacity, map of keys to shared futures with timestamps | `get_or_create`, `get`, `update_entry`, `remove_if_invalidated`, `set_capacity` | every thread that creates objects; a creation enters the cache again for nested primitives | lookups and insertions in separate sections, failed creations with waiters, eviction of pending entries, waiting under a lock | no future is abandoned, no error cached, size bounded, keys do not dangle, calls return |
| Primitive and kernel cache API (`common/primitive_cache.cpp`, `kernel_cache.cpp`) | two instances of the above | set and get capacity | each other | two caches set one after the other, read as if at once | both capacities agree |
| Global scratchpad (`common/scratchpad.cpp`) | thread-local buffer, size, reference count | construction, expansion, recreation, destruction | all primitives created by a thread; primitives destroyed by other threads | allocation failures half-way, unsigned counter of the wrong thread | live primitives are covered, the last one frees |
| Scratchpad registry (`common/memory_tracking.hpp`, `memory_debug.cpp`) | entries by key, size | book, book a nested registry, grant | the scratchpads, nested primitives | alignment from an unknown base address, keys with prefixes, protected pages | pieces lie apart in the scratchpad, each booking is found again |
| Threading layer (`common/dnnl_thread.hpp`, `counting_barrier.hpp`) | loop ranges, counters | `balance211`, `parallel_nd`, counting barrier | all CPU primitives | boundaries, zero work, a wake-up between the check and the sleep | every index is done exactly once, no wake-up is lost |
| Arm Compute Library scheduler (`cpu/aarch64/acl_threadpool_scheduler.cpp`) | thread count, a frame with feeder and barrier, the active threadpool | `schedule`, `schedule_op`, `run_workloads`, jobs of a pool | application threads, the user's threadpools | asynchronous pools, jobs that refer to the frame of their caller | every workload runs once, no job outlives the frame, calls end |
| x64 spin barrier (`cpu/x64/cpu_barrier.cpp`) | arrival counter, sense | barrier | threads of a parallel section | reuse while slow threads still spin | rounds are separated, nobody is left behind |
| Reduction of partial results (`cpu/x64/cpu_reducer.cpp`) | balance, partial results in scratchpad and result | balancing, `get_local_ptr`, `reduce`, `reduce_nolock` | threads of a parallel section, the spin barrier, the backward convolutions | places of threads in groups, cache-line tails, edges, what earlier executions left | the result is the sum of every term once |
| Constant tensor cache (`graph/interface/constant_tensor_cache.cpp`) | two capacities, map of keys to shared futures | `get_or_add`, `set_capacity`, `remove_if_exist` | kernels of compiled partitions | waiting for buffers under the lock, exceptions, changes of capacity between compilation and execution | bounded size, constants are there when used |
| Thread-local resource cache (`graph/backend/dnnl/thread_local_cache.hpp`) | global table of owners, thread-local tables of weak pointers, reference count | `get_or_add`, `clear`, `remove_if_exist`, thread exit, static destruction | kernels, threads | address reuse, exit racing destruction | private fresh resources, no leak, table outlives its users |
| Graph, partitions, backend registry (`graph/interface`) | graph, partitions, layout ids | building, finalization, partitioning, compilation | backends, compiled partition cache | call order, registration | legal orders only |
| Memory planner (`graph/backend/dnnl/passes/memory_planning.cpp`) | buffer assignment, reference counts, registries | the passes of `run` | execution of kernels, constant cache, the caller's buffers | in-place computation, views, constants that are skipped on a hit | a value is not overwritten before its last use |
| Engines, streams, memory objects | reference counts | create, retain, release | everything | lifetime | - |
| Primitive implementations, code generators, GPU and SYCL runtimes | numerical | execute | - | numerics | out of reach of a model checker |
| Verbose, profiling, debugging aids | none | output | - | - | - |

How they interact: creating a primitive goes through the primitive cache and
may create nested primitives through the same cache; the resulting object gets
a scratchpad from the thread it is created in; executing it splits work over
threads that may meet at a barrier and reduce their partial results, or hands it
to the Arm Compute Library. A compiled graph partition executes a kernel that
takes its arguments from the thread-local cache, its buffers from the memory
planner and its precomputed weights from the constant tensor cache.

## Plan

1. Core: `LruCache`, with proofs; what its callers rely on, `MemoTable`, and the
   refinement (done, with proofs).
2. Shared memory of execution: `GlobalScratchpad` composed with the registries
   (`MemoryTracking`, `PrimitiveScratchpad`), `SimpleBarrier`, and the reducers
   composed with the barrier, with proofs (done).
3. Caches of the graph backend, with exceptions: `ThreadLocalCache`,
   `ConstantTensorCache` (done, with proofs).
4. `AclScheduler` composed with `CountingBarrier` (done, with proofs);
   `MemoryPlanner` composed with the execution that follows the plan (done,
   model-checked; inductive invariant next).
5. Composition of the primitive and the kernel cache, whose capacities one call
   sets one after the other.
6. `balance2D` and the loop nests of `dnnl_thread.hpp`.
7. Protocols of the graph API: finalization before partitioning, compilation, the
   backend registry; reference counts of engines, streams and memory objects.

## Modules

`X.tla` is a specification, `MCX.tla` instantiates it for TLC together with the
`X*.cfg` files, and `XProofs.tla` holds its theorems (those on a component that
another composes are with the composition). Operators whose name
extends that of an action or helper and that are commented as mutants of it
(`AddNoEvict`, `ResetNot`, ...) are deliberate defects: with one in place of the
original, a property must fail.

### LruCache

A call of `get_or_create` or `get` is a pair of thread and key. Its promise is
identified with the call, so a shared future is either that call (pending), an
object, or `Failed`. `mapper` is `cache_mapper_`, with the thread that inserted
the entry and where the pointers of its key lead; `older` is the order of
timestamps. Steps follow the code: `Start`, `Lookup` (read section), `Insert`
(write section, evicting), `Wait`, creation with `StartNested`, then `CreateDone`
and `UpdateEntry`, or `CreateFail` and `Remove`. A section under the lock is one
step, except `remove_if_invalidated`, which waits on a future inside its section:
`writer` is then the call that holds the lock, and `Removing` ends it. Creations
from cache blobs force nested creations, as `primitive_desc.hpp` does.

The primitive cache is this cache with `KeyMerge`, the kernel cache without it.
The compiled partition cache is a third instance, with `Nested` empty and
`CacheBlobs` and `KeyMerge` FALSE; its keys compare engines by address
(`partition_hashing.cpp:43`), and the lifetime of what keys point to is not in
the model.

### MemoTable, LruCacheRefinement

`MemoTable` is what callers of `get_or_create` rely on: a table of results shared
by the calls in progress, in which a key has one creator at a time unless a
creation is forced or the cache is off. It knows no lock, capacity, timestamp or
nesting. `LruCacheRefinement` maps the state of `LruCache` to it; the futures are
the shared results.

### GlobalScratchpad

`mem_storage`, `size` and `reference_count` are the thread-local members of
`global_scratchpad_t`, so each is a function of the thread that runs the
constructor or destructor. `Create`, `CreateFails` and `Destroy` are
`dnnl_primitive::init` and the destruction of a primitive, in full. Allocation
outcomes are nondeterministic; three flags say which may fail and whether a
primitive may be destroyed by a thread other than its creator. The count is
modulo `Wrap`, which stands for 2^32.

### MemoryTracking, PrimitiveScratchpad

`MemoryTracking` has the arithmetic of the registry: keys with prefixes, `book`,
`get`, `compute_ptr`, and the pages that the builds with `DNNL_ENABLE_MEM_DEBUG`
protect around a buffer (`protect_buffer`, `memory_debug::malloc`).
`PrimitiveScratchpad` composes it with `GlobalScratchpad`. `Book` is the next
booking in the `init()` of a descriptor; a nested primitive's registry is booked
with its size once it is complete. `CreateGlobal`, `CreateGlobalFails` and
`CreateConcurrent` are `dnnl_primitive::init` with either kind of scratchpad, for
the size the registry has; `DestroyGlobal` and `DestroyConcurrent` end the
primitive. The build is chosen at the start. The base address of a scratchpad is
not state: the properties are about every address in `Bases`, since the buffer
may move when the scratchpad grows. A primitive that books nothing has no
scratchpad and does not appear.

### SimpleBarrier

Each step is one access of the generated code to the barrier context: take the
sense, `lock xadd`, reset, flip the sense, leave the spin loop. `round` counts
the barriers a thread has passed and exists for the properties only. Accesses
are taken in program order, as x64 guarantees for the stores concerned.

### ReduceBalancer, ReducerLayout, CpuReducer

`ReduceBalancer` has `balance211` and the search of `reduce_balancer_t::balance`,
stated as what its loop keeps: the first number of jobs per group of the least
complexity among those that fit. `ReducerLayout` has the pure part of the two
reducers: where `get_local_ptr` points, what `init_scratchpad` books, and which
elements `reduce_nolock` sums up, with cache lines in one dimension and rows,
blocks and edges in two.

`CpuReducer` composes them with `SimpleBarrier`. Its threads are those of one
group. `use` says what they meet for: a reducer, with or without a runtime that
can synchronize threads (without, `Join` ends one parallel section and begins the
next), or the barrier alone, as jitted kernels use it several times over. An
element holds a bag of terms: which terms of the reduction dimension, of which
execution, have been added up in it. Memory keeps what earlier executions left.
`reduce_nolock` is one step because nothing it reads or writes is written by
another thread meanwhile, which `SumsApart` and `PartialsApart` show; the other
groups appear in `PartialsApart` and `BalanceSound` only, because groups share
nothing else. A group of one does not reduce (`UsesOf`), and the early return for
idle threads changes nothing. What depends on the reducer alone is computed
once, in `UsesOf`, and kept in `use`.

### ThreadLocalCache

`gdata` is the global table (owners), `ldata` the thread-local tables (weak
pointers), `counter` the reference count of the global table, which the static
pointer, every kernel and every thread-local table hold. A resource carries the
thread, the address and the generation of the kernel it was created for, so that
a stale one can be told from a fresh one. `Visit` and `Erase` separate locking
the weak pointer from the section that uses it. A kernel is destroyed only while
no thread executes it.

### ConstantTensorCache

`map` is `constant_map_`; a pending buffer is known by the thread that fills it.
`Execute`, `Lookup`, `Insert`, `Add`, `Wait` or `Fill`, and `Finish` are
`execute_impl` of a kernel; `SetUserCapacity`, `ReadUserCapacity`, `SetCapacity`
and `Flush` are the capacity API. `writer` is the thread that waits for buffers
under the write lock. `handle` is what the persistent memory of the thread's
resource points to; it survives the execution, the owning `buf` does not. A
constant operation may throw (`FillThrows`): the promise dies unset, those who
wait for it throw as well (`WaitThrows`), the broken future stays in the map,
and the first call that adds up sizes under the write lock throws out of its
section (`SectionThrows`) without giving the lock back.

### CountingBarrier, AclScheduler

`CountingBarrier` is `counting_barrier_t` step by step: the decrement, the
notification, the attempt to set the waiter bit, the sleep. `AclScheduler` has
application threads that call `schedule` or `schedule_op`, the frame of
`run_workloads`, and the jobs that the user's threadpool runs, at once or, if it
is asynchronous, at any time later on any of its threads. The threadpool is
external: it runs every job it is given once.

### MemoryPlanner

A subgraph is built operation by operation (`AddOp`), then every pass of
`memory_planner_t::run` is an action, then the plan is executed twice in the
order of `execute_impl`: constant operations first, the second time not at all.
`memory` says which value each buffer holds; the caller may share the buffers of
an input and an output the planner reports as an in-place pair.

## Runs

| Run | Instance | Shows |
|---|---|---|
| `lru_safety` | 2 threads, 3 keys, creation of k1 creates k2, capacity 0..3, any creation may fail | all safety invariants with calls inside creations; the cache implements `MemoTable` |
| `lru_live` | 2 threads, k1 nests k2, k3 may fail, cache blobs and the testing interface, no key merging, capacity 0..1, fair | calls return while failing creations are not nested, and `MemoTable` is implemented under forced creations as well (that no future is abandoned then is proved) |
| `reducer` | 4 threads; the barrier alone 3 times over, or one of 8 reducers with 1 or 2 groups of four, executed 3 times, fair (for 2 more the balancer must not form such groups) | rounds are separated and end; the result is the sum of every term once; threads write apart from each other; the assertions of the balancer hold |
| `tlc_safety` | 2 threads, 2 addresses, 2 kernels per address | resources are private and fresh, nothing leaks, the table outlives its users |
| `ctc` | 2 threads, tensors of sizes 1 and 2, one of which may throw, capacities 2 and 3, fair | bounded size, pending buffers are being filled, constants are owned while used, no call hangs before an exception has left the lock taken |
| `pad_safety` | 3 builds, 3 descriptors with up to 6 bookings, one nested in another, 32 base addresses; 2 threads, 4 primitives, expansion may fail | pieces lie apart, aligned and inside the scratchpad of the primitive, every booking is found again, protected pages hold no piece; live primitives are covered and counted, failed creations give their reference back, the last one frees |
| `acl` | 2 callers, 2 workers, pools with 0, 2 and 3 threads, one of them asynchronous, up to 3 workloads, fair | every workload runs once, no job outlives the frame, threadpools are active in jobs only, every call ends |
| `plan` | up to 4 operations and 1 result, or 3 and 2, over a variable and a constant input, two executions | no value is overwritten before its last use, outputs are apart and delivered, pieces fit |

Disagreements between the code and what the repository says of it, each with a
run in which TLC finds a counterexample (`findings` in `PROJECT.json`):

- `lru_nested_deadlock`: `remove_if_invalidated` waits, under the write lock, for
  a creation that needs the lock.
- `tlc_assert`: an exiting or clearing thread fails the assertion "expected value
  to exist in cache" when another thread destroys the kernel.
- `ctc_disable`: disabling the constant cache after a kernel was compiled makes
  the kernel run without its constants.
- `pad_any_thread`: destroying a primitive in another thread frees that thread's
  buffer under its own live primitive.

More behaviours are known and have no run of their own. Most follow from changing
one constant of a run; the properties are stated with that limit:

- Halving the capacity of a full cache empties it: `evict(n)` with `n` equal to
  the new capacity takes the shortcut that clears the map
  (`common/cache_utils.hpp:280`), where `include/oneapi/dnnl/dnnl.h:3887` says that
  the excess entries are evicted.
- With `CacheBlobs = TRUE`, `KeyPointersInStoredObject` fails: `update_entry`
  recognises its entry by the thread that inserted it, and a forced nested
  creation that hits an entry of its own thread redirects the pointers of that
  key into an object the cache does not own.
- `ReportedCapacity` of `ConstantTensorCache` fails when two calls that set the
  capacity overlap: each stores the user capacity, reads it back and sets the
  cache, without a lock around the three, so the cache can end with one capacity
  while the other is reported.
- With `RecreateFails = TRUE`, `StorageCoversPrimitive` fails: the constructor
  deletes the buffer before it allocates a larger one, and when neither that nor
  the original size can be allocated, earlier primitives of the thread are left
  without a buffer.
- After a constant operation has thrown, its broken future stays in the constant
  tensor cache, and `get_size` or `remove_if_exist` throws between `lock_write`
  and `unlock_write` (`constant_tensor_cache.cpp:225`): every later call blocks.
  `NoCallHangs` is about the time before that (`LockGivenBack`).
- With `None` in `ActivePools`, `WorkloadsRunOnce` fails: without an active
  threadpool one thread takes workload 0 and then those from the number of threads
  on (`acl_threadpool_scheduler.cpp:107-117`), and the ones between are not run
  when the scheduler was told a larger number of threads before.
- Every thread that creates its first engine replaces the scheduler of the
  process (`acl_thread.cpp:59-68`). The model has one scheduler.
- With `ConstantOutputs = TRUE`, `OutputsDelivered` and `InputsIntact` fail: only
  the producer of a constant output is made non-constant
  (`constant_propagation.cpp:134-148`), and a constant operation that computes in
  the same buffer before it is skipped on a hit.
- In-place pairs are reported without regard to later readers of the input
  (`memory_planning.cpp:618`, `dnnl_graph.h:573`). The caller of the model shares
  the buffers only where nothing reads the input later (`Shareable`). Two outputs
  of a partition that are views of one value are excluded as well.
- The buffer assertion of the balancer (`cpu_reducer.cpp:86`) does not hold for a
  buffer without room for one job of every thread, as `1 << 21`
  (`jit_avx2_convolution.hpp:306`) is for 128 threads and a 7x7x7 filter:
  `max_njobs_per_group` is never less than 1. The scratchpad is booked from the
  balance, so nothing is overrun; `BalanceSound` states the assertion for buffers
  that have the room.
- A second booking under a key replaces the first in a build without assertions
  (`memory_tracking.hpp:418`), and `BookingsKept` fails. `jit_uni_ncsp_convolution.cpp`
  (lines 269-277) books up to four nested registries under `key_nested`, which is
  sound as long as at most one of them is not empty. The descriptors of the run
  book every key once.
- With memory debugging, `memory_debug::malloc` leaves too little room for the
  upper protected page when the alignment is four pages or more and the size at
  least two pages short of a multiple of it, and `compute_ptr` can miss an alignment larger
  than a page. No caller asks for either: `malloc` is called with at most
  `PAGE_4K`. The run has the alignments the callers use.

### Bounds

Two threads suffice for the races: each involves one that acts and one that
interferes, and a third would only repeat either role. Three keys with capacities
up to 3 make eviction choose, and let an entry be evicted and inserted again while its
creator is still at work. There are enough objects, buffer copies and
resource copies for creation never to be blocked, and few enough for addresses to be used again.
Two kernels per address (`MaxEpoch`) are what address reuse needs. The barrier
counter returns to its first value every round and the sense every second round,
so three rounds contain every overlap of neighbouring rounds. The reducers have
one job in a group or several, one group or two (and idle threads), cache-line
tails, fewer lines than threads, and jobs at both edges of a two-dimensional
result; a line is two elements. Three workloads on two or three threads leave
some thread without a workload and give some thread two. Four operations let a
buffer be released, reused and released again, with a view or an in-place
computation in between; the second of two executions is the one that skips the
constants. Alignments and pages are a sixteenth and a 256th of
their size in the code; the base addresses are all residues of the largest
alignment, and the sizes lie below, at and above a page and are odd as well as
aligned. `MAX_KEY` and `MAX_PREFIX` are those of the code. `Wrap` in the
scratchpad is any number above the number of primitives: below it the count does
not wrap, and above it wrapping looks the same as at 2^32. Symmetry is used for
threads, keys and objects only in runs without liveness and only where they are
interchangeable.

### Deadlock

`lru_safety` and `lru_nested_deadlock` do not check for deadlock: the wait of
`remove_if_invalidated` is the subject of the second, and stops the first as well.
`lru_live` and `reducer` check it. `tlc_*` do not, because a program whose threads
have exited and whose static objects are destroyed stops; nor does `acl`, where
application threads may exit, `plan`, where the last execution ends, and `ctc`,
where an exception may leave the write lock taken (`NoCallHangs` says when calls
return).

### Fairness

Weak fairness is assumed for the steps of a call that has started, for the
threads of a parallel section and its end, and for the callers and the jobs of a
threadpool: the operating system keeps scheduling runnable threads, and a
creation or a workload terminates. Of the application one thing is
assumed, in `reducer` only: that it executes the primitive again until it has done
so `MaxRounds` times, which `EveryRoundEnds` needs to speak of the last round; that
a round ends which has begun does not depend on it. Elsewhere the application need
not make a call, nor set a capacity. The reader/writer lock of the platform
promises no order, so in the constant tensor cache a thread may be overtaken for
ever by another that keeps calling; `NoCallHangs` excuses exactly that. In the
same way nothing is assumed of the order in which `_mtx` of the Arm Compute
Library scheduler is granted: `EveryRunEnds` is about the caller that has it.

## Proofs

The theorems hold for every value of the constants that satisfies the named
assumptions.

- `LruCacheProofs`: any threads, keys, objects, acyclic nesting, failing keys and
  capacities. The invariants are not inductive alone. `IInv` adds who may
  hold the lock across steps (`LockInv`), that a nested call has one suspended
  caller (`CallerInv`), what a call holds at each step (`FutInv`), which modes
  create (`ModeInv`), and what the entry a thread inserted stores while the
  thread is at work on it (`OwnEntryInv`). From it follow `TypeCorrect`,
  `SizeBounded`, `NoAbandonedFuture`, `ErrorsNotCached` and, without cache blobs
  and the testing interface, `KeyPointersValid`; the behaviour with cache blobs
  described above shows that the first condition is needed. Eviction is counted
  with the cardinality theorems for finite sets. `CacheIsMemoTable` proves the
  refinement: `IInv` holds in every state, so each action of the cache maps to the
  step of `MemoTable` that has the same effect on calls and results (one lemma per
  action, `StepMaps`), and eviction, capacities and nesting to no step.
- `ReducerLayoutProofs`, for `ReduceBalancer` and `ReducerLayout`: any reducers,
  threads and cache line. Assumed of a reducer is what the code asserts: positive
  sizes (`balance`), and rows that are whole blocks of `x_block`
  (`choose_x_blocking`, `cpu_reducer.cpp:623-624`), as `ReducersAssumption` says.
  `Balance211Partition` says that the parts of `balance211` follow one another
  from the first unit of work to the last. A balance is always one the search
  found to fit: the initial guess does too, although the code does not check it
  (`InitialGuessFits`). With the division lemmas this gives the assertions of
  `balance` (`BalancedIsSound`). The places of the threads are in the order of the
  threads, without gaps, also where the first thread of each group has none
  (`FactorsApart`), and a group's jobs need no more than one place (`LocalPtr`),
  so partial results do not meet (`BalancedIsDisjoint`). Then who sums up what: in
  one dimension the parts are those of `balance211`, in cache lines
  (`SharesOut1d`). In two, the block that `choose_x_blocking` shrinks to still
  divides a row (`ShrinkDivides`: its loop is a recursive function on a divisor
  that gets smaller, and the lemma takes the smallest number for which it would
  fail); the rest of a row, the whole rows and the begun row that `reduce_nolock`
  handles are together the elements of the part (`ReduceJobCells`); an element is
  in one job, and in one thread's part of it (`CellUnique`, `OneSumsCell`):
  `SharesOut2d`. `UseShared`, `GroupWorked` and `GroupPlaced` put this together as
  what the running reducer has to know.
- `ReducerStepsProofs` and `CpuReducerProofs`, for `SimpleBarrier` and
  `CpuReducer`: any number of rounds and of threads, which `NumbersAssumption`
  numbers from 0 in the group, and all reducers as above. The argument for the
  barrier counts: the arrival counter is the number of threads that have arrived
  in the current round (`CtrInv`), so the one that brings it to the number of
  threads is the last, and all others spin with the old sense:
  `BarrierSeparatesRounds`. Then, in `CpuReducerProofs`: no step changes the
  reducer in use, which makes the facts on its layout invariants:
  `BalanceAlwaysSound`, `PartialsAlwaysApart`, `SumsAlwaysApart`.
  `ReductionComplete` speaks of the end of an execution only, so `ReducerInv` adds
  the way there: the stage of a thread follows from the barriers it has passed
  (`StageInv`), and what a place in memory holds follows from the stage of the one
  thread that has it (`MemoryInv`). A thread that reduces has left the barrier, so
  all have computed (the barrier's invariant says so), and the driver adds up
  different terms (`DriverSums`, `FoldTerms`): `ReductionAlwaysComplete`.
- `PrimitiveScratchpadProofs`: any descriptors, bookings, alignments, base
  addresses, page size and number of protected pages, and every build. The entries
  of a registry reserve disjoint ranges below its size (`IsRegistry`, which each
  booking keeps), and a piece stays in the range of its entry wherever alignment
  and page rounding move it (`PtrRange`): `PiecesAlwaysApart`. The range also has
  the room for the protected pages, and page boundaries do not cross
  (`PagesApart`); what malloc returns lies with its protected pages in what it
  asked for, on a platform whose cache lines divide its pages (`MallocGuarded`):
  `GuardsAlwaysApart`. `BookingsAlwaysKept` says that every booking is found
  again, as large and as aligned as it was asked for. Its hypotheses are that a
  descriptor books every key once (`KeysOnce`; the behaviour with a second booking
  above shows that this is needed), and that alignments and the page size divide
  one another, as powers of two do, with data aligned to a page at most
  (`AlignmentsNest`). The run's descriptors satisfy both. Its invariant
  (`BookingsOK`) says that a nested registry was complete when it was booked, and
  that every entry is that of one booking.

  The global scratchpad, in the same module: any threads, primitives and sizes,
  when primitives are destroyed where they were created and the original capacity
  can be allocated again. The reference count of a thread is the number of its live
  primitives, the buffer exists exactly while it is positive, and its size only
  grows meanwhile; hence `PadCoversPrimitives`, `PadFreed` and
  `PadReferencesCounted`. The last says that the count never wraps around: there
  are fewer primitives than it can count (`WrapAssumption`). `pad_any_thread`, and
  the behaviour with `RecreateFails` above, show that both hypotheses are needed.
  `PadImplementsGlobal` says that the composition implements `GlobalScratchpad`
  when that allows every size. With what a live primitive, its descriptor and its
  scratchpad have to do with each other (`LinkOK`), the theorems on both parts give
  `PiecesAlwaysInStorage`, under the same hypotheses.

- `ThreadLocalCacheProofs`: any finite sets of threads, kernel addresses and
  resource copies, and any number of kernels at an address. A resource says for
  which thread, address and kernel it was made, so one entry of one table can
  refer to it (`LocalInv`, `GlobalInv`). While a thread is not going through its
  table, what the table has for a live kernel is in the global table; while it is,
  that holds for the entries it has still to visit (`PresentInv`). `OwnFreshResource`
  is the case of a thread at work: a table may keep expired weak pointers of an
  earlier kernel at the same address, whose owners went with that kernel. The
  count is the number of tables, kernels and the static pointer (`CounterInv`).
- `ConstantTensorCacheProofs`: any finite threads, more buffer copies than
  threads, any keys, sizes and capacities (`MemoryAssumption`: a thread keeps one
  buffer at most outside the cache). The sum of sizes is a fold over the entries,
  about which the provers know nothing; it is shown to be the number of bytes of
  the tensors, each taken as a set of pairs (`Bytes`), by taking the smallest set
  for which it would not be, and the cardinality theorems do the rest.
  `ConstantsAreReady` needs capacities other than zero; `ctc_disable` shows that.
- `AclSchedulerProofs`: any callers, workers, pools and number of workloads. The
  barrier's state is the number of jobs that have still to decrement it, plus the
  waiter bit when the caller sleeps (`BarrierInv`), so only the last job wakes and
  the caller leaves after all of them: `FrameOutlivesItsJobs`. A workload that has
  been handed out is with one job or has been called (`LoadInv`), and none is
  skipped (`CoverInv`): `EveryWorkloadRunsOnce`, for callers with an active
  threadpool. That hypothesis is needed for this theorem only, as the behaviour
  with `None` in `ActivePools` above shows.

The inductive invariants of the last three, and `ReducerInv`, were checked by TLC
on the instances of the runs before they were proved.

Only model-checked: `MemoryPlanner`, whose passes are folds over the values of a
subgraph of any length, and all liveness
(`EveryCallReturns`, `EveryRoundEnds`, `NoCallHangs`, `EveryRunEnds`), since the
proof system handles neither fairness nor ENABLED. Facts that need induction over
data, and modules with RECURSIVE operators, are out of its reach as well.

## Not modelled

- Numerical kernels, code generators other than the barrier and the reduction
  driver, GPU and SYCL runtimes: floating-point results and calls to external
  drivers. The order of additions, and the conversion of a reduced result to
  16-bit types, are left out with them. `cpu/aarch64/cpu_reducer.cpp` is a copy of
  the x64 code.
- The width of integers in the balancer and the planner: their products stay far
  below it for the sizes the primitives pass.
- Hashing of keys: equal keys are equal model values. Collisions, and constant
  tensors whose address is used again with other data, are listed as a hazard.
- The destructor of the constant tensor cache with its platform cases.
- The rewriting passes of the graph backend, pattern matching and partitioning:
  single-threaded transformations of data. Constants are propagated from inputs
  only.
- More than one device or engine kind per constant tensor cache; the data race on
  the table of user capacities is reduced to the order of reads and writes.
- Scratchpads of GPU engines and of SYCL, whose pieces are offsets into a storage;
  memory the user provides as scratchpad, which is as large as the registry says;
  the canary values and the times at which pages are protected and unprotected.
- Weak memory: atomics and lock sections are sequentially consistent.
- Everything the plan still lists.
