# doe: specifications and proofs

`doe` is an entity-component-system engine in C/C++: entities are rows of
chunks, chunks belong to archetypes (sets of component types), queries select
chunks, systems schedule jobs over them, and a libuv loop with a pool of worker
threads runs the whole. This directory models the parts of it whose correctness
rests on interleavings, on the order of calls, or on several tables that must
agree, checks the models with TLC, and proves with TLAPS, for every size and
every number of threads, what the entity allocator, the job pool, its fences, the
engine loop, the chunk table, the list of changed archetypes, the caches of queries, the
store of shared components, the resources and the pool of libuv promise.

Everything is translated from the code, with the line ranges in `PROJECT.json`
("map"). Paths below are relative to `src/src/ECS` unless they start with
`src/`.

## 1. The system

| Component | Source | State it keeps | Operations | Modules |
|---|---|---|---|---|
| Entity handles | `EntityStore.cpp` | blocks of slots: an atomic count that is also the lock of the block, a bitmap, a version and a place per slot | `allocateEntities`, `deallocateEntities`, `exists`, `getChunkIfExists`, `integrityCheck` | `EntityStore`, `EntityStoreProofs` |
| Job pool | `ThreadPool.cpp` (jobs half), `Job.hpp` | the job arrays of a round, the atomic `readIndex`, `beginIndex`, `activeThreads` | `schedule`, `combineDependencies`, `queue_jobs`, `work_jobs`, `after_work_jobs` | `JobPool`, `EngineLoopProofs` |
| Job dependencies | `ComponentDependencyManager.cpp`, `JobChunk.cpp` | per component type a write fence and a list of read fences | `getDependency`, `addDependency`, `clear` | `ComponentDependencyManager`, `EngineLoopProofs` |
| Engine loop | `ThreadPool.cpp` (loop half), `src/src/main.cpp`, `src/src/system/example.cpp` | the word of requests, the pending wake call, the schedule queue, a semaphore | `on_fixed_timer`, `wakeThread`, `iterate_systems`, `signal*`, `initiate` | `EngineLoop`, `EngineLoopProofs` |
| Chunk memory | `ChunkStore.cpp` | an atomic bitmap and a table of atomic pointers | `allocateChunk`, `freeChunk`, `getChunkPointer` | `ChunkStore`, `ChunkStoreProofs` |
| Changed archetypes | `ChunkListChanges.cpp` | an intrusive linked list | `trackArchetype`, `cleanChangeList` | `ChangeSet`, `ChangeList`, `QueryCacheProofs` |
| Queries | `EntityQueryManager.cpp` | per query its archetypes, index tables and chunk cache | `createEntityQuery`, `updateNewArchetypes`, `cleanChangeList`, `getData` | `QueryCache`, `QueryCacheProofs` |
| Archetypes and chunks | `EntityComponentStore.cpp`, `Archetype.cpp`, `ArchetypeChunkData.cpp` | chunk lists, lists of chunks with empty slots, rows, counts | create, destroy, add, remove, read/write a component | `EntityTable`, `EntityComponentStore`, `EntityComponentStoreProofs` |
| Shared components | `SharedComponentStore.cpp` | values with reference counts, free list, hash table | `insert`, `addReference`, `removeReference`, `incrementVersion`, `resize` | `SharedValues`, `SharedComponentStore`, `SharedComponentStoreProofs` |
| Resources | `ResourceManager.cpp`, `ResourceManager.hpp` | slots with a free list, reference counts, waiters of loads in flight | `loadResource`, `refCountIncrease`, `refCountDecrease`, the callback of a load | `ResourceManager`, `ResourceManagerProofs` |
| Asset files | `AssetsManager.cpp` | two request works, pages of waiting requests | `open`, `post`, `onCleanup`, the libuv callbacks | `AssetsManager` |
| Work queue and async handle of libuv, changed for this engine | `src/src/libuv/threadpool.c`, `src/src/libuv/unix/async.c` | two queues of works, the threads, the queue of results; the word and the eventfd of a handle | `uv_queue_work_quick`, `uv_queue_work_slow`, `uv_cancel`, `worker`, `uv__work_done`, `uv_async_send`, `uv__async_io` | `WorkQueue`, `Async`, `Threadpool`, `ThreadpoolProofs` |
| Hash maps | `ChunkListMap.cpp`, `ArchetypeListMap.cpp`, `src/src/cutil/set.hpp` | open addressing with a skip code | `add`, `tryGet`, `remove`, `resize` | not on their own: see section 5 |
| Versions, type registry | `Version.hpp`, `TypeID.cpp` | one word, one static table | compare, register | not modelled |
| The rest of libuv, Vulkan, GLFW, cutil | vendored, wrappers | | | not modelled |

How they interact:

- The **engine thread** runs a libuv loop. Callbacks (`wakeThread`, the timer,
  the done callbacks of worker requests) run on it one at a time. It owns the
  engine exactly while `activeThreads` is 1 and `iterate_systems` runs; then the
  systems may change anything.
- The systems append to the **schedule queue**. The loop hands it to one worker
  (`queue_jobs`), which asks the dependency manager for fences and fills the job
  arrays; then all **workers** run `work_jobs` on shared atomics, and the done
  callback of the last one gives the engine back.
- Other threads (the **main thread**, the **render thread** of the example
  system, any code that calls `signal*`) talk to the loop with two separate
  steps: a bit in the word of requests, then `uv_async_send`.
- `EntityComponentStore` calls `EntityStore` for handles and `ChunkStore` for
  memory, and reports archetypes whose chunk list changed to `ChunkListChanges`;
  `EntityQueryManager` cleans that list before jobs are scheduled and invalidates
  the caches of the queries concerned.

- Everything that runs off the engine thread is a **work** of libuv's pool: the
  jobs are slow works, the requests of `AssetsManager` and file reads are quick
  ones. A thread that has run a work reports it with `uv_async_send`; the loop
  then calls the done callback.
- `ResourceManager` loads through `AssetsManager` with a callback supplied by the
  client; `AssetsManager` has two requests at work and keeps the others in pages.

What is hard here: the lock hidden in a count and its compare-and-swaps; the
hand-over of the engine between the loop and the workers through one counter;
requests that arrive between two steps of the thread that serves them; rows that
move under the handles that point at them; three lists and two counts per
archetype that must agree after every step of a call that can be cut short by an
exception; caches that must be told of every change. `PROJECT.json` "hazards"
lists each of them at its line, with the property that would notice it going
wrong, or the reason why none covers it yet.

## 2. The modules

### EntityStore (+ EntityStoreProofs)

Each action is one access of shared memory (or a run of accesses to the block
the thread has marked busy, which nobody else reads): `Scan` and `Claim` are the
load and the compare-and-swap of `allocateEntities`, `Fill` one slot, `Publish`
the store-back; `Group`, `Grab`, `Restore`, `Free`, `Release` the same for
`deallocateEntities`, whose `Grab` is one turn of the spin loop. `pc` is the
program counter of each thread, the other per-thread variables are the locals.
`held` is a history of the handles each thread was given. The weak
compare-and-swap is modelled as a strong one: on x86-64, for which the project
builds, it does not fail spuriously.
`Exists` follows `ExistsOrThrow`, which looks at the bit only and not at the
version; `Matches` is the version check of `getChunkIfExists`.

What makes it correct: the busy mark is a lock (`BlockLock`); count and bitmap
agree on blocks at rest (`CountMatchesBitmap`, the code's `integrityCheck`); the
throws that follow a failed store-back cannot happen (`NoInternalError`);
handles are unique (`HandlesUnique`), resolve to the place recorded for them
(`LiveHandleInPlace`), and never come back once stale (`StaleForever`);
allocation ends whatever the other threads do (`AllocationEnds`).

### JobPool (proofs in EngineLoopProofs)

`stage` says who owns the engine: nobody, the systems, a worker that queues jobs,
or the workers. `Load`, `Claim`, `Run`, `Advance` are the steps of `work_jobs`
on the atomics `readIndex` and `beginIndex`; `AfterWork`, `QueueDone`, `WakeUp`,
`Submit` the callbacks on the loop. `std::sort` by level is an arbitrary order
consistent with the levels. The client (which jobs, when) is nondeterministic.

Correctness: `BatchOnce`, `NoJobSkipped`, `RoundComplete` (the systems get the
engine back only when every batch has returned). They are checked where the pool
is used, in the run `engine`, and proved. `ActiveThreads` (what the counter means in
every stage) is proved and in no run. So is `TypeOK`, with its exact bounds
(`PoolTypesCorrect`).
`RoundEnds` is what a round ought to do, and does not (finding 1).

### ComponentDependencyManager (proofs in EngineLoopProofs)

Extends `JobPool`: `ScheduleQuery` is `JobChunkWrapperBase::schedule` /
`scheduleParallel` with `getDependency` before and `addDependency` after.
Correctness: the reader list never overflows its fixed array (`ReadersFit`, part
of `RoomForRound`), and the write fence is the last writer of this round
(`WriteFenceIsLastWriter`); both are proved, and so are `FencesOfThisRound` (a fence
names a job of this round) and `NoJobWaits`, which are in no run. `ConflictsSerialised`
is what the fences are for, and fails (finding 2); `NoJobWaits` says why.

### EngineLoop (+ EngineLoopProofs)

Extends `ComponentDependencyManager`: `pc` follows `iterate_systems` step by
step ("poll" is `uv_run`), each callback of libuv is an action, the render and
the main thread have their own steps, and so has the user who closes the window.
A system may schedule, throw, or call `signalQuit`. After `uv_run` the engine thread
destroys the systems, which posts the semaphore once more and joins the render thread
(`runThread`), and the main thread joins the engine's. `ImplementsJobPool` states
that whatever the loop does, `JobPool`'s variables move only as `JobPool` allows:
`JobPool` is the abstract specification, the refinement mapping the identity on
its variables. libuv is external: an async handle coalesces calls (`wakecall`
is a Boolean), a callback runs when the loop is in `uv_run`.

Correctness: `SystemsAlone`; `RequestsKept` (a request is never slept on, and
calls the systems once); `RoomForRound` (a worker that queues jobs finds room for
the whole round, and for the readers of each component, so that it never moves an
array that other workers read); `ExitServed`; `ShutdownCompletes` (a window that is to
close, or a request to exit, is followed by the end of all threads).
`RenderAnswered` fails (finding 3): a lost request is not one slept on, so `RequestsKept`
does not see it.

The model begins when `JobsUtility::init` has returned. Within it the systems are
constructed, and the render thread starts (`ThreadPool.cpp:188`), before the async handle
is initialised (`:198`): a signal sent in between goes to a handle that is none yet,
whose memory decides what happens. That is left out.

### ChunkStore (+ ChunkStoreProofs)

`Load`, `Exchange`, `Store`, `Fetch` for `allocateChunk` and the lookup that
follows it; `Free`, `TakeOut` for `freeChunk`. The shift by the full width of
the word, which C++ leaves undefined, may set bit 0 or nothing. The module takes
any set of threads, the run has one: structural changes are made by the one
thread that owns the engine. With two, `freeChunk` clears the bit before it takes
the pointer out, and an allocation in between would lose its chunk; the engine has no
second thread that does, so no property is about it. With one thread the
compare-and-swap cannot fail. An allocator that fails after the bit was set would leave
the bit (`ChunkStore.cpp:47`); here it does not fail.

Correctness: `TableConsistent`, `OutOfMemoryMeansFull`.

### ChangeSet and ChangeList (proofs in QueryCacheProofs)

`ChangeSet` is the abstract specification: a set that is emptied by visiting its
elements. `ChangeList` is the intrusive list. An archetype counts as unlisted
while its link is null, but the link of the last one in the list is null too:
tracked again, it is linked in front as well and the list becomes a cycle.
`ImplementsChangeSet` shows that this is harmless, the set being what can be
reached from the head: tracking loses nothing, and cleaning, which cuts each link
as it passes, visits every archetype and ends (`CleaningEnds`).

### QueryCache (+ QueryCacheProofs)

Extends `ChangeList`. The three walks over sorted type arrays are recursive
functions; `CacheExact` compares what they lead to with the set-theoretic meaning
of a query (`Asked`), so the run checks the algorithms as well as the
invalidation. `TypesIndex` follows `getNextIndexInTypeArray`, which returns an
index counted from the end of the array; it is keyed by type, where the code uses the
number under which the query was given the type. An archetype counts as having entities
exactly while it has chunks. A query asks for some type and for none twice: for others
`createEntityQuery` throws (`EntityQueryManager.cpp:152`, and `:151` in the sort) with
the entry already made and not initialised, and `updateNewArchetypes` goes on to use it;
that is recorded as a hazard.

Correctness: `CachesKept`: every cache that is in use is exact, and whatever made
one stale has its archetype in the list that is cleaned before the next use.
`TypesAreFound` fails (finding 4).

### EntityTable and EntityComponentStore (+ EntityComponentStoreProofs)

`EntityTable` is what callers are promised: a table from entities to component
values; a call deals with the entities it names group by group, and may give up.
`EntityComponentStore` has the chunks, rows and lists. An action is one iteration
of the loop of a call (one batch in one chunk), so that an exception of
`ChunkStore` between two batches is covered. `store` holds the chunk-side state as
one record, so that the helpers (`addToChunkList`, `setChunkCount`,
`RowsWithout`, ...) can be composed as the code composes them. A handle that comes
back after its slot was freed stands for the slot's next handle. A call to create
begins only when `EntityStore` has room.

Three behaviours of the code are followed and not judged: a write by component
type goes to a place counted from the end of the type array
(`Archetype.cpp:108`), so it lands in another component of the entity;
`removeComponents` throws before it changes anything
(`EntityComponentStore.cpp:568`), so its action leaves all variables alone;
managed components added by a change of archetype are zero memory and not
constructed, as `Archetype.hpp:163` documents.

Correctness: `PlacesAgree` (handles and rows), `BooksAgree` (the lists of chunks,
their indices and every count), `DestructedOnce`, `ImplementsEntityTable`.

`DestructedOnce` counts destructors: one is due on each managed component of a row in
use, and on no other. It does not say that constructors and destructors balance, because
they do not: `Archetype::convert` only zeroes what an entity gains
(`Archetype.cpp:538`), and the destructor runs on it later. That is documented, so the
destructor of a managed type has to cope with zero memory.

### SharedValues and SharedComponentStore (+ SharedComponentStoreProofs)

`SharedValues` is the promise: a value has one index while it is referenced, and
an index keeps its value until its last reference is given back.
`SharedComponentStore` is the table of one type, with the hash table as the code
searches it: a search goes on past a skip code and stops at an empty place or after
one turn, an insert of a code takes the first place that is empty or skipped. A
version and a link of the free list lie in the same word (`version`). `held` is
what the callers hold, `refused` the slots whose holders met an exception.

When an insert needs a larger table it takes its pointers before `resize` and
writes through them after it (`SharedComponentStore.cpp:187`): the value goes to
memory that is freed, and the slot it was given stays without a value. `lost`
names these slots, and those of an insert that throws for want of indices with the
count already raised; the properties say that nothing else goes wrong.

Correctness: `ReferencesExact`, `FreeSlotsExact` (no slot leaked or on the list
twice), `SearchFinds` (the searches of `insert` and of `removeReference` end at
the slot of a value in use), `OnlyLostRefused`, `ImplementsSharedValues`.

The code's own check, `checkInternalConsistency` (`SharedComponentStore.cpp:315`, called
in `src/test-v2/test-2.cpp:41`), searches by hash code alone and takes the first place
that has it. It throws when two values in use have one code, although both are found:
`SearchFinds` says that this, as with `a` and `b` of the run, is the only reason why it
throws. After a resize it also reads infos beyond the old capacity, which nothing has
written (`:66`); these are left out.

### WorkQueue, Async and Threadpool (+ ThreadpoolProofs)

`WorkQueue` is what the engine relies on when it queues a work: the function runs once
or the work is cancelled, and the done callback follows once. `Async` has the steps of
`uv_async_send` (look and mark busy, write the eventfd, mark done) and of `uv__async_io`
(read the eventfd, wait until no sender is busy, clear). One handle is modelled; the engine
has two on one eventfd, of which the loop passes over the one that is not marked. `Threadpool` extends it with
the threads: what `worker` does from taking `mutex` to letting it go is one step
(`Take`), except that a put-back of the message for slow works keeps the mutex and goes
round again; the function of a work returns with `Report`, which holds `wq_mutex` while
the thread sends (`WakeLoop`, `Reported`), or, if the work is slow, may run for ever
(`RunsForever`). `uv_cancel` and the callbacks are steps of the loop thread.

Correctness: `ImplementsWorkQueue`; `SendSettles` (the `abort` in `uv_async_send` is
unreachable); `LoopWillHear` (a result is never left in the queue of the loop with no
wake-up on its way); `QuickIsServed` (jobs leave a thread for files, even if they
never return); `JobsFinish` (if jobs return, so does everything, and a shutdown
joins the threads).

### AssetsManager and ResourceManager (+ ResourceManagerProofs)

`AssetsManager` follows each request through its two works: the look-up of the
entry with the opening of the file, then the read. Requests that find none free wait
in pages. `pageQueue.back()` is taken of an empty queue as well
(`AssetsManager.cpp:143`). What its `writeIndex` is then depends on the page that was
removed last (`behind`):

- the page was full, and its memory is still what it was: a new page is added
  (`OpenLater`);
- it was removed with one entry, because a request had read past that entry: the load is
  written into the removed page and nobody will read it (`OpenPopped`);
- there was no page, or its memory was given back: the behaviour is undefined, and the
  program ends, goes on with a new page, or writes the load somewhere (`OpenUndefined`).

`lost` are the loads so written. A page that is not full may be read to its end and
further: what it gives out is a request nobody made, whose callback is null (`CallNull`).
`crashed` says which of the three ways to end the program was met.

`ResourceManager` extends it with the slots of one type and with the client's part:
`Load` and its callback are supplied by the client, and are those of
`src/test-v2/test-7.cpp`. Two things of the code decide what can be promised. The
state of a slot is `Loaded` from the start and stays what the last load made it, so
a second load of a name is answered before the first has ended (`LoadKnown`); no
property forbids it. After a load that failed it is answered with resource 0, for which
the client's `refCountIncrease` throws; it holds nothing then, and goes on.
`freeResource` reads the free index back from the word it has just stored it in
(`ResourceManager.cpp:170`), so that a freed slot never gets on the free list; since
an index is accepted only up to the number of names loaded, resources freed in any
order but the last first leave live indices that are refused. `lastFirst` records
that this has not happened, and `Calling` ends the clients' calls when it has:
what follows is not described.

Correctness: `NoRequestLost` (each load that was not written where no page is is the
business of one request, at work or in a page); `HandlesResolve`; `CrashOnlyBeyondRoom`
(while resources are freed last first no callback finds its slot other than its load left
it, and before a load comes while every request is in use, `crowded`, no load is lost and
no page ends the program); `LoadsAnswered`. Once a load has come to a full house, the
program may be ended by what is behind the queue or beyond a page, and a load may be
lost, with two requests and three names; nothing in the code prevents it.

## 3. The runs

| Run | Module, cfg | Bounds | Distinct states |
|---|---|---|---|
| `entity` | `MCEntityStore` | 2 threads, 2 blocks of 2 slots, requests of up to 2, `MaxCalls` 4 | 397,195 |
| `engine` | `MCEngineLoop` | 2 works, rounds of 0 or 2 jobs with up to 2 batches, 2 reader places | 224,676 |
| `chunks` | `MCChunkStore` | 1 thread, 2 words of 2 bits, 5 addresses | 17,775 |
| `query_cache` | `MCQueryCache` | 2 archetypes, 2 chunks, 2 queries of 3 kinds | 987,099 |
| `store` | `MCEntityComponentStore` | 4 entities, 3 chunks, components P and M, `MaxBatch` 2 | 55,832 |
| `shared` | `MCSharedComponentStore` | 5 values, a table of 4 that grows to 8, `MaximumSize` 4, 2 references | 53,710 |
| `libuv` | `MCThreadpool` | 2 threads, 2 slow works and a quick one | 111,296 |
| `assets` | `MCResourceManager` | 2 requests, pages of 2, 3 names, 1 of them in the bundle, `MaxHeld` 1 | 461,769 |
| `pool_levels` | `MCJobPool_levels` | 2 works, 2 jobs | violation |
| `dependency_conflict` | `MCComponentDependencyManager_conflict` | 2 works, 3 jobs of 3 queries | violation |
| `engine_render` | `MCEngineLoop_render` | no jobs | violation |
| `query_types` | `MCQueryCache_types` | 2 archetypes of 3 and 4 types | violation |

What each shows is in `PROJECT.json`, "about".

Why the bounds are enough to be interesting:

- `entity`: two blocks of two slots fill up, so that a request is split over
  blocks, given up, or meets a busy block; four calls let a slot be allocated,
  freed, reused and freed through a stale handle while the other thread is inside
  the same block. `MaxCalls` is the only counter bounded by a guard; it ends a
  behaviour, hence `CHECK_DEADLOCK FALSE`.
- `engine`: two works and two jobs, one of them parallel with two batches, let a
  worker claim from an old job while another is at the new one or leaving; both jobs
  write one component and read another, and two reader places are filled. Rounds of
  no job, exceptions and quits at any call of a system are all possible; the engine
  stops after Exit, hence `CHECK_DEADLOCK FALSE`.
- `chunks`: four places filled completely, one more address than places.
- `query_cache`: one archetype matches all queries, one only some; chunks come
  and go in both; queries are made before and after. Two archetypes are enough for
  the list to have one at its head and one at its tail, and so for both cycles.
- `store`: chunks of four, two and one rows, so that batches split, holes are
  filled by fewer and by as many rows as are missing, chunks become full, empty
  and unlisted, and three chunks for the archetypes run out.

- `shared`: of the five values two have the same code, one meets them in the small
  table only, one starts at the last place and wraps round; the small table is
  filled with skip codes, resized, and its indices used up.
- `libuv`: two threads are the fewest of which one is left for quick works; two slow
  works make the one message stand for both and be queued again. The pool is shut
  down and stays so, hence `CHECK_DEADLOCK FALSE`.
- `assets`: two requests and pages of two are the code's own numbers; three names
  need a page, and with one request done before the second entry the page is read
  past what was written, removed, and written to when one name is loaded again. Clients stop when `Calling` is false, hence
  `CHECK_DEADLOCK FALSE`.

Symmetry (of works, of entities, of chunks, of values) is used only in runs whose
properties are invariants and action properties.

Every property of a passing run has a mutant in the modules next to the
definition it changes ("Mutant of ..."): a plausible slip in the code under which
TLC finds that property violated.

### Fairness

- `EntityStore!FairSpec`: weak fairness of every thread inside a call. The
  operating system runs threads; new calls are not owed. `AllocationEnds` needs
  nothing of the other threads.
- `QueryCache!FairSpec`: the loop of `cleanChangeList` goes on.
- `JobPool!FairSpec` and `EngineFairSpec`: weak fairness of each callback that is
  due (every iteration of `uv_run` calls them), of each worker and each other
  thread in a call (the operating system), and of `iterate_systems` and `runThread`
  (event functions return). Neither the timer nor the user is relied on.
- `Threadpool!PoolFairSpec`: strong fairness of the two steps of a thread that take a
  lock (`Take`, `Report`): a thread that wants one which is free again and again gets
  it in the end; weak fairness of its other steps and of the loop. The function of a
  quick work returns. That of a slow work returns or runs for ever, as it likes:
  `QuickIsServed` holds either way, `JobsFinish` of the behaviours in which none runs
  for ever.
- `ResourceManager!ResourceFairSpec`: strong fairness of each request. Its step
  waits for the loop thread, which may be in the callback of the other request
  again and again; libuv reports works in the order in which they ended, so the
  other one does not pass it for ever.

### Findings

1. `pool_levels`: `readerLevel` is never raised (`ThreadPool.cpp:375`), so a
   round with a job of level 1 never ends.
2. `dependency_conflict`: `combineDependencies` (`ThreadPool.cpp:117`) ignores
   dependencies of level 0, so two jobs that write one component run side by side.
3. `engine_render`: the Render bit is cleared after the systems were called
   (`ThreadPool.cpp:279`), so a request in between is lost and its thread waits
   for ever.
4. `query_types`: an index counted from the end is used as a place to search from
   (`EntityQueryManager.cpp:118`), so a query may not find a type that its
   archetype has.

## 4. The proofs

Each component with proofs has them in a module of its own, except that modules which
extend each other share one: `JobPool`, `ComponentDependencyManager` and `EngineLoop`;
`ChangeList` and `QueryCache`; `WorkQueue`, `Async` and `Threadpool`. They rest on the
assumptions about constants named in the modules, which TLC evaluates in every run.

### EntityStoreProofs

For every finite or infinite set of threads, every
number of blocks and of slots in a block, and every request size, under
`ConstantsAssumption` alone (see the module), it proves the theorems listed in
`PROJECT.json`:

- `Invariance`: `Spec => []IInv`,
- and from it `TypeCorrect`, `BlockMutualExclusion`, `IntegrityHolds`,
  `InternalErrorsUnreachable`, `NoHandleTwice`, `LiveHandlesResolve`,
  `StaleHandlesStayStale`: each safety property of the run `entity`.

The invariant `IInv` is needed because none of the safety properties is inductive.
That count and bitmap agree at rest depends on what the thread inside the block is
about to store, which is `CountInv`. That the store-back succeeds depends on the
lock, `BlockLock`. That a fresh handle differs from all older ones depends on
versions growing past every handle issued, on bits and versions having the same
parity, and on issued handles being odd: `ParityInv` and `HandleInv`. `LocalInv`
records what each label knows of its thread's locals. The proof has one lemma per
action, and under it one step per conjunct the action can disturb; the two
lemmas on `StoreBack` and those on `Drop` and `IsRange` are shared.

Counting the slots of a block uses `FiniteSetTheorems` (adding and removing one
element changes the cardinality by one).

`TypeCorrect` states `TypeOK`, which no run repeats: TLC found it to hold before it
was proved. The type invariants of the other modules are, where checked, part of the
invariants that need them (`CachesKept`, `BooksAgree`).

### EngineLoopProofs

Three layers, each resting on the one before.

**The pool.** For any finite set of works, any jobs, dependencies and numbers of batches:
`BatchesRunOnce` (`BatchOnce`), `NoneSkipped` (`NoJobSkipped`), `SystemsAfterRound`
(`RoundComplete`) and `OwnersCounted` (`ActiveThreads`). None is inductive: where the
works are says nothing of the batches that were run before. The invariant `PoolInv`
says it with the counters: batch b of job h was run, or is being run, exactly if
b < `beginIndex[h]` (`CountersInv`); jobs `readIndex` has passed, or that a work is
about to pass, have no batch left (`PassedInv`); `activeThreads` is the number of works
that are out (`ThreadsInv`), so that the last one out leaves nobody inside. That the
sorted array contains every job is the pigeonhole principle (`OrderIsOnto`).

`PoolTypesCorrect` (`TypeOK`) bounds what the round counts: a job depends on an earlier
one, so its level is below its number (`LevelsInv`), and a work raises `readIndex` or a
counter only after it has found it below the number of jobs or of batches (`PassedInv`,
`Arrays`), so no index leaves its array.

**The fences.** For any queries and any number of readers remembered greater than 1 (`CDMAssumption`;
the code's constant is larger): `ReadersAlwaysFit` (`ReadersFit`, a part of
`RoomForRound`) and `LastWriterFenced` (`WriteFenceIsLastWriter`). The invariant says
that each component a job writes has a fence which names that job or a later one, and a
job that writes it: "later" is what survives further calls.

`ManagedInv` is the invariant of the pool and of the fences together. From it:

- `FencesNameJobsOfRound`: a fence is `NoJob` or a job that was queued in this round,
  so that a handle given to `combineDependencies` is one that it knows.
- `ManagerImplementsJobPool` (`CDMSpec => Spec`): the manager adds to a job dependencies
  that `JobPool` allows. What has to be shown is that the handles of `getDependency`,
  the fences of several components one after the other, are a sequence of
  `Dependencies`: `Concatenated` is written as a recursive function, and the length and
  the elements of its value are proved by induction over its argument (`NaturalsBySet`
  turns the induction into one over a set, which the provers can do).
- `JobsNeverWait` (`[]NoJobWaits`): no job ever gets a level above 0. This is finding 2
  for every value of the constants: fences of level 0 are left out by
  `combineDependencies`, so a new job has level 0, so its fence has level 0. The fences
  are exact (`LastWriterFenced`) and order nothing.

**The loop.** The chain `EngineSpec => CDMSpec => Spec`, for any number of works, any jobs and
queries, and requests of any kind (`EngineAssumption`): `EngineImplementsManager`,
`EngineImplementsJobPool` (`ImplementsJobPool`). By it everything proved of `JobPool`
and of the manager holds of the engine (`EngineRoundsCorrect`), and `ManagedInv` may be
used in every step of the engine. On top of it `EngineInv` has four parts. `LoopInv`
says that the systems own the engine wherever `iterate_systems` is. `QueueInv` says that
what is scheduled waits for the dispatch or for the worker that queues it, and that the
arrays have room for it and for what was queued before. `RequestsInv` says, for each
step of the loop, which requests it has looked for in vain (`LookedFor`): a bit of these
that is set, or any bit while the engine sleeps, was set behind its back and a wake is
on its way (`WakeDue`). `RenderInv` says that a request to render that may still be
answered has its thread waiting and the semaphore at 0, so that one answer is one post.
From these: `SystemsRunAlone` (`SystemsAlone`), `RequestsAreKept` (`RequestsKept`),
`RoundHasRoom` (`RoomForRound`).

### ChunkStoreProofs

`TableStaysConsistent` (`TableConsistent`) and `OutOfMemoryIsReal`
(`OutOfMemoryMeansFull`), for any number and width of words and any addresses, have the
hypothesis that one thread uses the store. It is that of the code, where the thread that
owns the engine makes all structural changes (`SystemsRunAlone` above); with two threads
the store is not correct (section 2). `StoreInv` follows the one call in progress: at
each label it says which single place of the bitmap, the table and the memory may
disagree with the others, and what the thread holds in its locals for it.

### QueryCacheProofs

`ListIsASet` (`ImplementsChangeSet`): for any set of archetypes the intrusive list is
`ChangeSet`, the set being what the head reaches. `Reachable(a)` is the least set that
holds `a` and follows its links, so facts about it are facts about closed sets and need
no induction over the list: linking in front adds one element (`LinkedInFront`), and
cutting the link of the one that is visited removes at most that one (`CutInFront`). Both
hold of a list that has become a cycle.

`CachesAreKept` (`CachesKept`), for any finite archetypes and queries of natural
types (`QueryAssumption`; types are numbers in the code). It has two halves. The first is
about the walks: over two sorted arrays, `RequiredIsAll` and `CommonIsSome` say that the
walk of the code finds whether all, or any, of the types asked for are there, by induction
on how much of the two arrays is left, and `MatchingIsAsked` that an archetype is
matched exactly when the query asks for it. The second is the invariant
`CacheInv`: `ListInv`, where the list may stand while it is cleaned; `DatasInv`, that each
query knows exactly the archetypes there are that match it, and that a cache marked valid
differs from a fresh one only for archetypes that wait in the list (`Kept`);
`StageInv`, what the loops of the code have and have not done yet. `WithArchetypesGrows` and
`RebuiltIsFresh` say what one call to add archetypes, or to rebuild a cache, leaves. TLC
checked `CacheInv` on the run `query_cache` before it was proved. The places that
`TypesIndex` puts in the index tables are not judged: they are wrong (finding 4).

### SharedComponentStoreProofs

For any values, hash codes and sizes (`SharedAssumption`): `CountsAreExact`
(`ReferencesExact`), `RefusedWereLost` (`OnlyLostRefused`), `SearchesFind`
(`SearchFinds`), `FreeListIsExact` (`FreeSlotsExact`), and the refinement
`StoreImplementsValues` (`ImplementsSharedValues`).

The heart is open addressing with a skip code. `IsTableOf(table, n, R, val)` says that
each slot of `R` is at one place of the first `n`, and that from the first place of its
code up to that place there is no empty one; a search is described by the first place
where it stops (`PlaceFor`, `FirstAmong`). That a place exists, so that no search goes
round for ever, is the pigeonhole principle: fewer slots than places
(`PlaceForExists`). That `checkInternalConsistency` throws exactly when two values in use
share a code is `CheckNeedsCodes` and `CodesSuffice`: two such values have one search,
which finds one of them at most; without them a place with the code has the slot. `PutAddsSlot`, `SkipRemovesSlot` and `RehashKeepsTable` say that the
three ways the code writes to the table keep `IsTableOf`; the last is an induction over
the old places. The invariant `SharedInv` adds the free list as a sequence
without repetitions that follows the links (`IsFreeList`, with one lemma for a slot taken
from it, `ListPop`, and one for a slot given back, `ListPush`), and the counts. TLC
checked `SharedInv` on the run `shared` before it was proved.

No theorem says that nothing is lost: that is false (section 2). The theorems say
that outside `lost` everything is exact, whatever was lost before.

### ThreadpoolProofs

For any finite set of threads and any works: `AbortUnreachable` (`SendSettles`) and
`NoResultUnheard` (`LoopWillHear`). `SendInv` says that a thread sends only with
`wq_mutex` held and that the busy mark stands for it, so that nobody else changes the
handle between its two exchanges; `HearInv` that a mark comes with something the loop
will read and a result with a send to come, a mark or a callback.

`ThreadpoolIsWorkQueue` proves the refinement `PoolSpec => ImplementsWorkQueue`. Its
invariant `PlaceInv` says that a work is at one place of one queue, or with one
thread, or nowhere; there is one lemma per action, which says what work moves and that
no other does, and the lemmas on queues (`InSeqAppend`, `InSeqTail`, `InSeqWithout`)
are shared.

### ResourceManagerProofs

For any finite sets of names and requests: `EachLoadHasItsRequest` (`NoRequestLost`),
`HeldReferencesResolve` (`HandlesResolve`) and `CrashNeedsCrowd`
(`CrashOnlyBeyondRoom`). `InOrderInv` has two parts. `AssetsInv` holds always: the list of
free requests has each once, and a page, a lost load or a request for nobody is only left
of a load that came while no request was free (`crowded`), which is the argument of
`CrashNeedsCrowd`. `LoadsInv` holds for as long as resources are freed last first and the
program was not ended, and is what the two managers owe each other: `RequestsInv`, that the
requests and the unread places of the pages are, one each, for the loads in progress that
were not written where no page is (`lost`); `ResourceInv`, that the slots taken are the first ones, each with one name, a count that
is what its clients and its loader hold, and a waiter while it is loading. The two meet
in `cb`: the request that calls back is for a load in progress, so the slot has its
waiter and its reference and nothing throws. A request passed on by `onCleanup` moves
from a place in a page to a request, and if the page is given up all other places move
by one (`PlaceIsRead`); the number of each load's requests stays 1.

`AssetsAssumption` has pages of one or two entries. The code's constant is 2, and the
`static_assert` next to it asks only for more than 0. With pages of three `NoRequestLost`
is false: a page with one entry is read past that entry, an entry is written where it
was read, and that load is never answered (TLC finds this with five names, a page of
three and two requests). With two, the second read empties the page.

### EntityComponentStoreProofs

For any entities, chunks, component types, values and capacities (`StoreAssumption`):
`PlacesAlwaysAgree` (`PlacesAgree`), `BooksAlwaysAgree` (`BooksAgree`),
`AlwaysDestructedOnce` (`DestructedOnce`) and the refinement `EntityTableImplemented`
(`ImplementsEntityTable`). They rest on `StoreInvariant`: `StoreInv` is `Books`, what holds
of store, places and destructors due between any two batches, and `CallOK`, where the call in
progress stands. The parts of `Books`:

- `Sound`: each archetype lists exactly its chunks, and those with room, each chunk at
  the index it keeps of itself (`Listing`), and no chunk has more rows than fit. The two
  lists are written by helpers that swap the last chunk into the gap and then correct its
  index; `AppendListed` and `SwapBackListed` are the two ways to write one,
  and `SetChunkCountSets` says what all of them leave after `setChunkCount` has filled,
  emptied or freed a chunk.
- `NoneEmpty`: a chunk in use has rows, so that the chunk of an archetype without
  entities is back in `ChunkStore`.
- `Places`: the places of the entities and the rows point at each other.
- `CountsRight` and `toDestruct = DueOf(...)`: entity counts and destructors due are
  those of the rows.

Every call is built from two halves: rows are added to a chunk (`AllocateStep`) and rows
leave one, its last rows filling the gap (`RemoveStep`). Between the halves of
a move an entity has two rows and one place, which `Books` does not allow: so `Placement`
has a hole, the rows about to leave, and each half is proved with
it. `CreateStep`, `DestroyStep` and `MoveStep` put the halves together and say what becomes of the
table (`Gives`, `Empties`); then there is one lemma per action. Which rows a batch is, the first entities of
the list that lie in one run in one chunk, is the least number at which a run ends
(`LeastNumber`, `FirstBatch`). `EveryStep` joins them: a step keeps `StoreInv` and is a
step of `EntityTable` or leaves it alone.

TLC checks the four properties on the run `store`. The run has no
bound on the number of calls either, but for its few entities and chunks and for `MaxBatch`,
the entities one call is about; the proofs take any number of all three.

### What is not proved

Only model-checked: every liveness property (out of the prover's reach). All invariants,
and all action properties and refinements, that the passing runs check are proved;
`ChunkStore`'s for one thread, as said above.

The provers made some changes to the modules necessary, none of which changes what a
run explores: `Concatenated` and `Rehashed` are recursive functions and no longer folds;
`PoolAssumption`, `CDMAssumption`, `EngineAssumption`, `SizesAssumption`,
`SharedAssumption`, `AssetsAssumption` and `ResourceAssumption` say what the
configurations meant all along (that `NoJob` is a possible dependency, `Null` no address
and a request no place in a page, that sizes are numbers and sets finite, that a table is
not smaller at first than it may become); the filter in `InFlight` is written over
pairs and not over a tuple pattern, which `tlapm` does not read; and in `ChangeList` and
`QueryCache`, `Reachable` is a least closed set, `Sorted` the increasing array of a set, and the walks, `WithArchetypes` and `Rebuilt` are recursive functions
where they were recursive operators and folds, with `QueryAssumption`. Two operators of the
properties of `EntityComponentStore` are written otherwise: `Listed` takes the indices as a
function, and `RowsOf` has pairs without a tuple pattern.

## 5. What is left out, and why

- `EntityStore::setEntityVersion`, used when a whole store is copied; the wrap of
  the 32-bit version after two thousand million reuses of one slot.
- In `JobPool`, what jobs do, and pools of one thread.
- In `EntityComponentStore`, the operations that set shared components
  (`EntityComponentStore.cpp:163`, `:404`, `Archetype.cpp:342`-`376`), which nothing in
  the repository calls from outside; change versions, which nothing modelled reads;
  and the layout of chunk memory. `ArchetypeChunkData::grow` copies too few bytes; it
  is reached beyond 128 chunks of one archetype.
- `Archetype::allocate` raises a chunk's count before `EntityStore` may throw; as
  the model gives `EntityStore` room, this is recorded as a hazard.
- In `SharedComponentStore`, types of less than 64 bytes, whose slots overlap the
  table of infos, so that what the store does depends on the bytes of the values;
  more than one type (they share nothing); the destructor.
- `ChunkListMap` and `ArchetypeListMap`: the same open addressing with a skip code as
  in `SharedComponentStore`, over pointers. `set.hpp`: `ResourceManager` and
  `AssetsManager` are modelled over a map that works, which it is for the twelve
  entries it holds before it first grows.
- In `ResourceManager` and `AssetsManager`: `indexBundle`, which parses a file; more
  than one bundle, and a request that closes the file of another one; more than one
  resource type, growing by a block, the destructor; what the manager does after
  resources were freed out of order.
- In libuv: forking, the start of the threads, a pool of one thread, spurious
  wake-ups of a condition (the code looks at its condition again), a second
  `uv_cancel` of one work; timers and polling, of which `EngineLoop` has what the
  engine sees.
- All other vendored code (the rest of libuv for Unix and Windows, GLFW, the Vulkan
  headers and memory allocator), the thin wrappers over them, and assets. They are
  most of the files: of the 71,000 lines counted as implementation the engine's own
  code is a small part, which is why the map names a small share of the whole.

## 6. Plan

Order of modules, the most important behaviour first; done ones are marked.

1. [x] `EntityStore`, its proofs.
2. [x] `JobPool`, `ComponentDependencyManager`, `EngineLoop` (each extends the
   one before; `JobPool` doubles as the abstract specification of `EngineLoop`).
3. [x] `ChunkStore`; `ChangeSet` / `ChangeList`; `QueryCache` (extends
   `ChangeList`).
4. [x] `EntityTable` / `EntityComponentStore`.
5. [x] `SharedValues` / `SharedComponentStore` with its hash table.
6. [x] `WorkQueue` / `Async` / `Threadpool`; `AssetsManager`, `ResourceManager`
   (extends it): loads on workers, callbacks on the loop, slots and pages.
7. [x] Proofs of `JobPool`, `ComponentDependencyManager`, `Threadpool` and of the
   refinement of `WorkQueue` (section 4).
8. [x] Proofs of `EngineLoop` with its refinements, of `ChunkStore` for one thread, of
   `SharedComponentStore` and its refinement of `SharedValues`, of `ResourceManager`, of
   `ChangeList` and `QueryCache`; `FencesOfThisRound`.
9. [x] Proofs of `EntityComponentStore` and its refinement of `EntityTable`; `JobPool`'s
   `TypeOK`.
10. [ ] The parts listed as left out in section 5 that the engine may come to use: shared
   components in `EntityComponentStore`, several bundles in `AssetsManager`.

## 7. Running

In this directory, `tlc -workers 2 -config MCEntityStore.cfg MCEntityStore` runs
one model (the table above names module and configuration), and
`tlapm EntityStoreProofs.tla` checks the proofs of that module (about four minutes;
`EntityComponentStoreProofs` takes about seven, the others, `*Proofs.tla`, two or less).
