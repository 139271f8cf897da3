# A verification project for ALib

ALib is a C++ class library: threads and a thread model, allocators and containers,
strings, expressions, configuration variables, logging, a scanner of file trees,
command lines, and the bootstrap of all this.  This project models in TLA+ what has
state or an algorithm of interest, checks the models with TLC on small instances, and
proves theorems about the most important ones with TLAPS for every value of their
constants.

Paths below are relative to `src/src/alib/`.

1. [The system](#1-the-system): inventory
2. [The modules](#2-the-modules): what is modelled and how it corresponds to the code
3. [Properties and runs](#3-properties-and-runs)
4. [Bounds](#4-bounds)
5. [Fairness](#5-fairness)
6. [Proofs](#6-proofs)
7. [What the models show about the code](#7-what-the-models-show-about-the-code)
8. [What is not modelled](#8-what-is-not-modelled)
9. [Plan](#9-plan)

## 1. The system

### Components with state and concurrency

**TCondition and Condition** (`threads/condition.inl`).  `TCondition<T>` is a
mutex and a condition variable; `T` supplies `isConditionMet()`.
`Acquire`/`Release`, `ReleaseAndNotify`, `ReleaseAndNotifyAll` (both notify
*after* the mutex is released), `WaitForNotification` (with and without time
limit).  `Condition` is the ready-made variant with one flag that is reset by the
waiter.  Hard: lost and spurious wake-ups; a flag shared by several waiters.
Correct if: who waits for a condition that was made true before it waits does
not sleep for ever; a notified waiter returns only with the condition met.

**ThreadPool** (`threadmodel/threadpool.{inl,cpp}`, `jobs.inl`).  State: the
list `queue` (the next entry is at its back), the set `workers`, the counters
`ctdOpenJobs`, `ctdWorkers`, `ctdIdle` that can be read without the mutex,
`lastThreadToJoin`, the parameters `Strategy` with the method `GetSize`, and two
job objects shared by all pools, `JOB_JOIN` and `JOB_STOP`.  Operations:
`Schedule`, `ScheduleVoid`, `DeleteJob`, `DeleteJobDeferred`, `Sync`,
`WaitForAllIdle`, `Shutdown`; the workers' `Run` and `pop`.  It inherits
`TCondition`, with `isConditionMet` a predicate of queue and counters.  Hard:
every worker runs `pop`, which resizes the pool, passes barriers and takes jobs;
`WaitForAllIdle` and `Shutdown` read counters without the mutex; a leaving
worker is joined by the next one that wakes up.  Correct if: jobs begin in the
order they were scheduled in, once; a synchronisation is a barrier; no job is
used after its deletion and none is forgotten; every thread is joined once; the
counters are right whenever somebody may read them; the pool keeps to its
limits; waiting calls return.

**DedicatedWorker and DWManager** (`threadmodel/dedicatedworker.{inl,cpp}`).
One thread each with a priority queue of jobs; `schedule`, `pop`, deferred
deletion as a job, `stop` as a job; the manager adds, removes and waits for all.
Hard: the order of priorities against the order of deletion and stop; the load
counter is read without a lock and decremented before the job is processed; the
manager walks a list that others may change.  Correct if: a job is never
processed after its deletion; when stop has returned no job is left; "all idle"
means that all jobs have been processed.

**Trigger** (`threadmodel/trigger.{inl,cpp}`).  A list of objects with a time of
their next call; run by an own thread or by the user's.  `Add`, `Remove`, `Do`,
`Run`, `Stop`.  Hard: `Stop` races with the start of the thread; `Do` keeps the
mutex while it calls the objects.  Correct if: `Stop` returns; an object that was
removed is not called; every registered object is called again and again.

**Thread** (`threads/thread.{inl,cpp}`).  The state machine of a thread object
and the global map of threads.  Hard: the state is written by the thread and by
those who start and join it.  **Locks** (`threads/*lock*.inl`,
`dbgasserters.*`): wrappers of the standard's mutexes with owner and recursion
book-keeping in debug builds.  **Promise** (`threads/promise.*`): one-shot;
fulfilled inside `Job::Do`, awaited by the client, who may then delete the job.

### Components with state, sequential

**Monomem** (`monomem/*`).  `MonoAllocator`: a chain of buffers, snapshots, `Reset`
to a snapshot with buffers recycled.  `PoolAllocator`: free lists per size.
Correct if: memory handed out never overlaps memory in use, also after a reset and
for buffers that were recycled; each buffer is given back once.

**Containers** (`containers/*`).  `HashTable` with recycling and rehashing,
`LRUCacheTable`, `List`, `StringTree` with its cursors and iterators, `SharedPtr`
and `SharedVal` (whose counter is shared by threads).  Correct if: a table behaves as
a bag whatever is recycled; an LRU table of *n* entries finds exactly the *n* most
recently used keys; an iterator visits what it was asked to while nodes are created
and deleted; an object is destroyed when its last handle goes and not before.

**lang** (`lang/dbgcriticalsections.*`): the detector of missing locks: correct if it
reports exactly overlapping sections.  **bitbuffer**: writing and reading back of
integers and arrays; correct if reading inverts writing.  **variables**: sources of
configuration with priorities; correct if a value of higher priority is not
overwritten by one of lower.  **alox**: domains with verbosities, scopes, a cache of
source files; correct if a verbosity is the latest of the highest priority that
covers the domain, and a walk over the scopes returns inner ones first.
**expressions**: parser, assembler with optimisations, stack machine, decompiler,
normaliser; correct if what runs, is decompiled or normalised means what was written.
**strings**: buffers with capacity, ownership and edits; searches, wildcards, tokens.
**files**: a scan of a file system with links into a tree with totals; correct if
everything within reach is read once.  **cli**: options, commands and parameters of
a command line; correct if each argument is used once.  **bootstrap and camps**:
phases of modules at start and exit; correct if each camp finds those below started.

### Components without a state machine of interest

boxing, enumops, enumrecords (resolved at compile time); characters, format, time,
resources, exceptions, assert (sequential data and text); system (calls of the
operating system); singletons (across shared objects only).

### How they interact

A client calls `ThreadPool::Schedule` and notifies one worker through
`TCondition`.  Workers call `Job::Do`, which may schedule further jobs and
fulfils the `Promise` in the job.  Pools of one process share `JOB_JOIN`.
`DWManager` and its workers interact through `TCondition` and the load counters.
`Trigger` calls back objects while it holds its mutex.  Jobs come from a
`PoolAllocator` on top of a `MonoAllocator`, under the owner's mutex, watched by
`DbgCriticalSections` that are associated with that mutex.  Hash tables, string trees
and scope stores take their nodes from the same allocators; a file tree and a
configuration are string trees; a `Lox` is configured by variables and keeps its
scopes in a scope store and the names of source files in an LRU cache.  Camps hand
their resource pool and configuration to the camps below.

## 2. The modules

Each module starts with a comment that says which classes it models and at what
granularity; the comments of its VARIABLES name the fields.  `PROJECT.json` maps each
definition to the lines it stands for.

| module | what it is |
|---|---|
| `ThreadPool` | the thread pool with the mutex and wait set of its base class, one action per step another thread can interleave with; its properties and its fairness |
| `JobPool` | what a user of the pool may rely on, without threads: first come first served, each job once, synchronisations as barriers |
| `ThreadPoolImplementsJobPool` | the refinement mapping from `ThreadPool` to `JobPool` |
| `TwoThreadPools` | two instances of `ThreadPool` in one process, sharing `JOB_JOIN` and the world of threads |
| `DedicatedWorker` | dedicated workers and `DWManager`; the mapping to `PriorityServer` |
| `PriorityServer` | abstract: one job at a time, of the waiting ones one of highest priority, the first come among these |
| `Trigger`, `Condition`, `Promise` | the classes of these names |
| `Thread` | thread objects, the registry, and the operating system that gives and reuses IDs |
| `SharedLock`, `RecursiveLock` | the lock types with the asserters of debug builds |
| `CriticalSections` | `DbgCriticalSections` on top of `SharedLock`, associated with the lock or not |
| `MonoAllocator`, `PoolAllocator` | the allocators of these names |
| `SharedHandle` | `SharedPtr`, `SharedVal`, `TSharedMonoVal`: assignment as the steps that threads interleave |
| `LRUCacheTable`, `ScopeInfo` | the cache, and the stack of log statements whose frames point into it |
| `HashTable` | the hash table with its private recycler and an element handle |
| `StringTree` | the tree, its node table, cursors and one iterator |
| `Configuration` | variables, presets, plug-ins, one listener |
| `Lox`, `ScopeStore` | domains with loggers and verbosities; scopes with their walk |
| `ExpressionTree` | what an expression means: the reference |
| `ExpressionProgram`, `ExpressionSyntax` | assembler, virtual machine, decompiler; parser and normaliser |
| `AString`, `StringSearch` | string buffers and their edits; searches, wildcards, tokenizer, tokens |
| `BitCoding`, `BitBuffer` | coding of one value and compression of arrays; writer and reader over a buffer |
| `FileScanner` | `ScanFiles()` over all disks of a family |
| `CommandLine` | options, commands, parameters |
| `Camps` | phases of bootstrap and shutdown |
| `MCThreadPool` | model values and symmetry for the runs of the pool |
| `MCWorkers` | `DedicatedWorker`, `Trigger` and `Condition`, one at a time (run `workers`) |
| `MCThreads` | `Thread`, locks, sections and `Promise`, one at a time (run `threads`) |
| `MCData`, `MCTexts` | the sequential components, one at a time (run `data`); `MCTexts` adds the modules with recursive operators, which the prover cannot read, to those of `MCData` |
| `ThreadPoolProofs`, `ThreadPoolRefinementProofs` | proofs about the pool |
| `DedicatedWorkerProofs`, `WorkersProofs` | proofs about dedicated workers; trigger and condition |
| `LockProofs`, `ThreadsProofs` | proofs about locks and sections; recursive lock, promise, registry |
| `DataProofs` | proofs about shared handles, the allocators and camps |
| `CacheProofs` | proofs about the cache and the frames that point into it |

In `MCWorkers`, `MCThreads` and `MCData` a variable `component` says which component a
behaviour is one of; the variables of the others stay `"idle"`.  Components that do not
share state are checked in one run this way, and each run has one property per
component, the conjunction of those of its module.

### The thread pool: state

| variable | in the code |
|---|---|
| `mutex` | owner of `TCondition::mutex` |
| `queue` | `ThreadPool::queue`; `Head(queue)` is `queue.back()`, the entry taken next. An entry is a job, a `JobSyncer` with the job it deletes, `JOB_JOIN` or `JOB_STOP` |
| `ctdOpenJobs`, `ctdStatJobsScheduled`, `ctdWorkers`, `ctdIdle`, `workers`, `lastThreadToJoin` | the fields of these names |
| `workerToJoin` | the field of the object `JOB_JOIN` |
| `WorkersMax`, `age` | `Strategy.WorkersMax`, the one parameter that changes while the pool runs, and whether `timeOfLastSizeChange.Age()` has reached the schedules |
| `thread` | life of each `PoolWorker`: `absent` (not created, or joined and disposed of), `alive`, `ended` (its `Run` returned and nobody joined it) |
| `pc`, `cur` | where a worker is in `Run` and `pop`, and the job it executes |
| `cpc`, `seen` | where a client is in `WaitForAllIdle` or `Shutdown` (or between the release of the mutex and the notification in `schedule`), and the counter it has read |
| `jobState`, `held` | life of a job object, and the jobs clients have to delete |

### The thread pool: actions

The worker's loop, with the places `pc` may have:

```
start --Start--> check --Sleep--> sleep --(notified | Spurious)--> notified --Wake--> check
check --GoOn--> woken --JoinLeaver | TakeStop--> resize
woken, resize --Leave--> leave --Exit--> none
              --Grow---> again --NotifyAgain--> start
              --TakeJob> do --FinishDo--> start | free --FreeJob--> start
              --TakeSync> again
do --ScheduleFromJob--> signal --SignalFromJob--> do
```

A step is as large as the mutex permits and no larger.  From `check` to the
release the mutex is held, so that other workers and the scheduling clients find
the fields at rest; nevertheless `GoOn`, `JoinLeaver` and the steps behind them
are separate, because `WaitForAllIdle` and `Shutdown` read `ctdOpenJobs`,
`ctdIdle` and `ctdWorkers` *without* the mutex, and because `Join` may wait.  The
notification of `ReleaseAndNotify` and `ReleaseAndNotifyAll` comes after the
release, so it is a step of its own (`Signal`, `StopSignal`, `SignalFromJob`,
`NotifyAgain`, `Exit`).  In `Leave` the removal from `workers` and `--ctdWorkers`
are one step with the release, since no other place reads `ctdWorkers` together
with a field written between them.

`GetSize` is `ResizeStrategy::GetSize` branch by branch, with the integer
divisions; times are abstracted to "the schedule has elapsed or not"
(`Tick`).  `Schedule` stands for `Schedule` and `ScheduleVoid` (job in `Kept` or
not), `Sync` for `Sync` and `DeleteJobDeferred`.  `WaitForAllIdle` is its three
unprotected reads, the operands of `==` in either order, the time-out and the
loop.  `Shutdown` is: two reads without the mutex (`Shutdown`), the critical section
(`StopPush`), notification, polling, join.  `SetWorkersMax` is the client's
assignment to the public field `Strategy.WorkersMax`, also the way a pool that
was shut down is taken into use again.

Assumptions about the callers: one client at a time calls `Shutdown`; nobody
schedules to a pool whose `WorkersMax` is 0; a kept job is deleted after it was
executed.  `ShutdownOnlyIdle` is the assumption debug builds assert
(`threadpool.cpp:372`), extended to its purpose: no job is open when `Shutdown`
is called and none is scheduled until it has the mutex.

### The other threads

`DedicatedWorker`: `Head(queue[w])` is the list's `back()`.  `acquire .. release` is one
step, because only the length is read without the mutex; the notification is a step of
its own.  A client's `pc` leads through `stop` (push of the stop job, notification)
and through the walk of `RemoveAll` and `WaitForAllIdle` over the workers, one worker
per step.  Jobs are scheduled with any priority of their own, the deletion of a kept job
is a job, the stop job has a priority.

`Trigger`: time is relative: `left[x]` shrinks with each `Tick` and is reset when `x`
is triggered.  `Do` holds the mutex from `enter` to `wait`, object by object; `Run`
reads `internalThreadMode` without it.  `Condition`: the fields of the debug build
(`Owner`, `CntWaiters`, asserted exclusive waits) are read and written one by one, since
`Acquire` looks at `Owner` before it has the mutex.

`SharedLock` and `CriticalSections`: each read or write of a field of the asserter is a
step, because the asserters are protected by nothing.  An assertion ends the behaviour
(`raised`, `asserted`), as `assert` does.  `misused` records what a thread did wrong, so
that properties can say "an assertion if and only if a misuse".
`Thread`: an ID is given by `Start`, which the operating system may reuse (`ReuseIDs`);
foreign threads get an object at their first `Get`.

### The sequential components

One action is one call.  What is abstracted: an address is an offset from its buffer
(`MonoAllocator`) or a number (`PoolAllocator`, `HashTable`, `StringTree`, `ScopeStore`);
of a value of a variable only its source is kept; a bit pattern is the set of its one
bits; a token of an expression is one symbol.  Each model keeps next to the fields of
the code what the calls should have achieved (`blocks`, `expected`, `content`, `asked`,
`text`, `settings`), and the properties relate the two.

- `MonoAllocator`: `chain` is the list `buffer -> previous`, `recyclables` the other
  list; `Serve` is `Buffer::allocate` and `nextBuffer`; a snapshot carries the blocks it
  covers.  The unsigned difference of pointers in `allocate` keeps its width
  (`SizeRange`); see `BuffersEndAligned` in section 6.
- `SharedHandle`: giving up the old contents, destroying them and taking the new ones are
  separate steps of a thread; `surplus` counts the references lost by a move between two
  handles of the same contents (section 7).
- `HashTable`: a bucket is the sequence of its nodes; insertion position, rehash, erasures
  and the recycler follow the code node by node.
- `ExpressionProgram`: a step is one call of an `Assemble` method or one command of the
  machine.  The meaning it is compared with comes from `ExpressionTree`, which is written
  from the operator tables and not from the assembler.
- `FileScanner`: one call is one step, a recursive walk over a disk that does not change;
  `readdir()` returns the entries in any order.
- `Camps`: a step is one turn of the loops of `Bootstrap` and `Shutdown` over `CAMPS`; the
  distribution of objects to the camps and their return are one step each, since nothing is
  called in between.  A camp that is called is seen in the state that it meets.

## 3. Properties and runs

**`pool_auto`** (`MCThreadPool_auto.cfg`): one client, up to three workers in mode
*Auto*, two jobs that the worker deletes and one that is kept, at most four
entries scheduled, `WorkersMax` changed between 3 and 1 at any time, shutdown and
restart.

- `TypeOK`
- `CountersConsistent`: `ctdOpenJobs`, `ctdWorkers` and `ctdIdle` agree with what
  they count at every point where somebody may read them.
- `MutualExclusion`
- `WorkAtHand`: `queue.back()` at "start working" (`threadpool.cpp:309`) is not
  called on an empty list and does not find a second internal job.
- `EveryLeaverIsNamed`: one field for the thread to join is enough; a `JOB_JOIN`
  is only ever the next entry, and each worker that left is named by it or is the
  last one.
- `LastThreadIsTheLast`: the assertions of lines 197 and 402.
- `JobsAlive`: no job is queued twice, executed by two workers or executed after
  its deletion.
- `NoJobIsStranded`: the pool does not shrink to nothing over queued jobs.
- `ShutdownLeavesNoThread`: when `Shutdown` has joined the last thread, every other
  one has been joined too.
- `WaitForAllIdleIsSound`: when it returns true to the only client, all scheduled
  jobs have been executed and those not kept are deleted, although the counters
  were read one by one.  This holds as long as jobs do not schedule jobs.
- `PoolStaysWithinMax`

**`pool_order`** (`MCThreadPool_order.cfg`): two clients, two workers in mode
*Fixed*, a plain job, a kept one and one that is scheduled by another job from
within `Do`; `WorkersMax` may go down to 1 and up again.

- `SyncFindsAllIdle`: the assertion of line 327.  The case worth checking is a
  synchronisation below a `JOB_JOIN`, whose wake-up condition was never evaluated.
- `ImplementsJobPool`: the refinement.  A synchronisation passed too early, a job
  overtaken or begun twice would be a step `JobPool` does not have.

**`pool_live`** (`MCThreadPool_live.cfg`): one client, two workers, three entries;
`EveryJobIsExecuted`, `QueueDrains`, `ShutdownReturns` under `CalmSpec` (section 5).
It finds lost wake-ups: the pool notifies one worker per scheduled entry, and a
synchronisation may put that worker back to sleep.

**`workers`** (`MCWorkers.cfg`)

- `WorkersKeepTheirJobs`: every job is in the queue of one worker, processed or done; it
  is deleted once and not before it was processed; the deletion of a job is behind the
  job, whatever their priorities; a worker that has ended left no job behind.
- `ServesByPriority`: `DedicatedWorker` implements `PriorityServer`.
- `WorkersServe`: jobs are executed, `stop` and the manager's calls return.
- `NeverOversleeps`: when the thread of a trigger sleeps, its alarm is not later than any
  object's time, or it is going to be woken.
- `TriggersServe`: objects are triggered again and again until they are removed, `Stop`
  returns; the list does not change under the thread that walks it.
- `ConditionsWork`: a waiter that finds a notification returns, no notification is lost,
  and no assertion is raised with one waiter.

**`threads`** (`MCThreads.cfg`)

- `LocksKnowTheirOwner`: the debug information of a lock that is used rightly raises no
  assertion, in spite of being read without protection.
- `MisuseIsStopped`: each misuse is stopped before the mutex is touched, for shared and
  recursive locks.
- `OverlapIsDetected`: of overlapping writers at least one stops in an assertion before
  both have left; within the lock nothing is reported.
- `DestructionIsSafe`: a promise destroyed by the thread that awaited it is not touched
  any more.
- `RegistryFindsTheThread`: `Get` finds the object of the running thread, `Join` removes
  it, the life of a thread goes forward only, `IsAlive` is what it says.

**`data`** (`MCTexts.cfg`)

- `MemoryIsHandedOutOnce` (`MonoAllocator`): blocks lie aligned in their buffers and share no
  byte whatever is grown, reset and reused; each buffer is in exactly one list; the
  destructor gives each back once and never that of the user.
- `BlocksFitTheirSize` (`PoolAllocator`, and the statistics of `MonoAllocator`): one holder
  per block; a free block is in the stack of its true size; none is twice too large.
- `LastHandleDestroys`, `CacheKeepsTheMostRecent`, `TableHoldsWhatWasInserted`,
  `LogsGoWhereTheyShould`, `ExpressionsKeepTheirMeaning`, `StringsHoldAndFindText`,
  `BitsReadAsWritten`, `TreesHoldWhatWasFound` (string tree and file scanner),
  `CommandLineIsUnderstood`, `CampsLeanOnLowerOnes`, `HighestOfferWins`: see the comments
  above them in `MCData` and `MCTexts`, and above their parts in the modules.

The remaining runs each show a disagreement between code and documentation, see
section 7.

For each property of the passing runs `PROJECT.json` names a change of the model
that a plausible slip in the code would correspond to, and that makes TLC find the
property violated; the changed definitions are marked `mutant` in the module.

## 4. Bounds

The runs of the pool:

- `Workers`: three in `pool_auto`, so that a worker can leave while a second takes
  `JOB_JOIN` and a third works or leaves next; the properties relate at most a
  leaver, its successor and a bystander.  Two in the others, where the interleaving
  of clients (`pool_order`) or cycles of states (`pool_live`) matter instead.
- `MaxScheduled` bounds the calls of `schedule` per behaviour: 4 entries allow a
  job, a synchronisation, a job behind it, and one more after a restart.
- `Jobs`: each is scheduled once; a C++ job object scheduled twice would be
  destroyed twice.
- `MaxChoices`: `{1, 3}` lets clients shrink to one and grow again at any time.
- `IncreaseSchedule`, `DecreaseSchedule`, and so `age`, are 0 or 1: `GetSize`
  only asks whether they have elapsed.  The runs use the default order: no delay to
  grow, some to shrink.
- Thresholds: `IncreaseThreshold` is below its default of 300 so that few jobs make
  a pool grow.  `pool_auto` has `DecreaseThreshold` 100: with the default of 70 a
  single worker that looks at a job never finds 1 <= 70% of 1 and does not try to
  leave, so that the guard against shrinking to nothing over queued jobs would not be
  put to the test.  `pool_live` has the default of 70.
- Symmetry: workers are interchangeable, and used as a symmetry set in runs
  without temporal properties beyond `[][A]_v`.
- The configurations of the pool leave the deadlock check on: a client can always call
  `WaitForAllIdle`.  In the others a behaviour may end: the program is over, an assertion
  has stopped it, or a bound is reached.

The other instances:

- `workers`: one worker, two clients; a kept job, one that is deleted by the worker and one
  of the lowest priority; stop priorities 0 and 4000, below and above that of the jobs.
  More workers share nothing but the manager's list.  Two objects with periods 1 and 2, a
  `Do` of 2: so that a call may be late for both.  One waiter and one notifier.
- `threads`: two thread objects, the two of the system, one foreign thread, four IDs without
  reuse; three threads on a lock, nesting of two; a warning limit of 2; recursion depth
  4 over a warning at 3; symmetric in threads and IDs.
- `data`: for each component the smallest instance in which each kind of step follows
  each other: three buffers of growing size with two blocks and two snapshots (requests of 2
  and 14 bytes: within a buffer, beyond the next one's size); pool blocks of 4, 8, 16
  and sizes at and next to them; two threads with three handles; caches with one list and
  with two, of one to three entries; a table of 2, 5 or 11 buckets with colliding and equal
  keys and four nodes; three loggers, two of one name, three domains; two places of source
  code, two values of scopes; three camps (four were checked once); all expressions of one
  or two operators over six leaves and texts of two or three operators, but for four
  families known to be wrong (section 7); two strings with three characters and ten cells;
  texts of four letters with patterns of three; scripts of three values over words of 32 bits,
  arrays of 8 and 16 bits under all algorithms; trees of three nodes; 16 disks
  (12 with links, 4 with mount points) in three orders of `readdir`, scanned twice; command
  lines of three arguments out of 13, and chosen ones of five; three paths of variables that
  refer to each other, two plug-ins.

## 5. Fairness

`Fairness` asks for: weak fairness of every worker and of every call a client has
begun (the operating system runs every thread; `Do` returns); strong fairness of
the steps that acquire the mutex, since a thread that asks again and again while
others come and go gets it in the end (a standard mutex with several contenders
would not need less).  Nothing is asked of the start of a call, of spurious wake-ups or
of the time-out.  `CalmSpec` adds that the schedules are long compared with a
worker's step: `Tick` does not happen again and again between two changes of size.
Without that assumption a pool may grow and shrink for ever, as run `thrash` shows
where the schedule is zero.

`DedicatedWorker` and `Trigger` ask for weak fairness of their threads and of the calls
clients have begun; `Trigger` also of time.  `Condition` adds strong fairness of
`Relock`: a woken waiter gets the mutex some time, although others come and go.
`Thread` asks that started threads end.  Sequential components need none, but for
`HighestOfferWins`, which is a safety property stated over steps.

## 6. Proofs

Theorems hold for every value of the constants, within the assumptions named here.
Safety properties that a run checks and a theorem states:

| module | theorem | property |
|---|---|---|
| `ThreadPoolProofs` | `TypeCorrect`, `MutexHolds`, `CountersHold`, `WorkAtHandHolds` | `TypeOK`, `MutualExclusion`, `CountersConsistent`, `WorkAtHand` |
| | `PoolStaysWithinMaxHolds` | `PoolStaysWithinMax` |
| | `NoJobIsStrandedHolds` | `NoJobIsStranded` |
| | `SyncFindsAllIdleHolds` | `SyncFindsAllIdle` |
| | `EveryLeaverIsNamedHolds`, `LastThreadIsTheLastHolds`, `ShutdownLeavesNoThreadHolds` | `EveryLeaverIsNamed`, `LastThreadIsTheLast`, `ShutdownLeavesNoThread` |
| `ThreadPoolRefinementProofs` | `JobsAliveHolds` | `JobsAlive` |
| | `ThreadPoolImplements` | `ImplementsJobPool`: the refinement |
| | `WaitForAllIdleIsAlwaysSound` | `WaitForAllIdleIsSound` |
| `DedicatedWorkerProofs` | `JobsAreKept`, `WorkersKeepTheirJobsAlways` | `WorkersKeepTheirJobs` |
| | `WorkersServeByPriority` | `ServesByPriority`: the refinement |
| `WorkersProofs` | `TriggerNeverOversleeps` | `NeverOversleeps` |
| | `ListIsStableWhileVisited`, `ConditionStaysSilent` | the safety parts of `TriggersServe` and `ConditionsWork` |
| `LockProofs` | `LockIsKept`, `SectionsAreCounted`, `LockedUse`, `OverlapIsFound` | for `ThreadsProofs` |
| `ThreadsProofs` | `LocksAlwaysKnowTheirOwner`, `MisuseIsAlwaysStopped` | `LocksKnowTheirOwner`, `MisuseIsStopped` |
| | `OverlapIsAlwaysDetected`, `DestructionIsAlwaysSafe` | `OverlapIsDetected`, `DestructionIsSafe` |
| | `RegistryAlwaysFindsTheThread` | `RegistryFindsTheThread` |
| `DataProofs` | `LastHandleAlwaysDestroys` | `LastHandleDestroys` |
| | `MemoryIsAlwaysHandedOutOnce` | `MemoryIsHandedOutOnce` |
| | `BlocksAlwaysFitTheirSize` | `BlocksFitTheirSize` |
| | `CampsAlwaysLeanOnLowerOnes` | `CampsLeanOnLowerOnes` |
| `CacheProofs` | `CacheAlwaysKeepsTheMostRecent` | `CacheKeepsTheMostRecent` |

Those of the pool rest on `ConstantsAssumption` (of `ThreadPool`) and on `ShutdownOnlyIdle`.
Without the latter `Shutdown` puts `JOB_STOP` on top of a waiting `JOB_JOIN`, and
`WorkAtHand` is false.  `NoJobIsStrandedHolds` also needs `0 \notin MaxChoices`: a
client that writes 0 to `WorkersMax` sends the workers away from their jobs, and
strands them when it writes something else afterwards.

### The invariant of the pool: `Inv`

None of these properties is inductive by itself.  `Inv` consists of
`TypeOK`, `MutualExclusion`, `CountersConsistent` and:

- `Membership`: the set `workers` is the workers whose `pc` is neither `none` nor
  `leave`; it makes `++ctdWorkers` and `--ctdWorkers` agree with the set.
- `QueueShape`: internal jobs are only ever the next entry (`UserTail`); while one
  is queued there is a worker to take it, below a `JOB_JOIN` there is an entry of a
  user unless the pool is closing, and `JOB_STOP` is there only while it is closing
  (`InternalIsNext`); a worker that was woken finds an entry (`WokenHasEntry`), and
  after it removed an internal job it finds an entry of a user or the pool is
  closing (`ResizeHasWork`).  The last is what `WorkAtHand` needs: a closing pool has
  `WorkersMax = 0`, hence `GetSize # ctdWorkers` (`ClosingChangesSize`), so the
  worker does not reach "start working".
- `StillQuiet`: between the unprotected reads of `Shutdown` and its critical
  section the queue stays empty and the pool keeps at least one worker.

The argument for the key case: a worker leaves only from a position where it has
something at hand that it does not take (`AtResizeUser`), so the `JOB_JOIN` it
pushes never lies on an empty queue, unless the pool is being closed, where
all workers leave anyway.

The module states facts about the helpers first (`PopUser`, `PushNextUser`,
`AppendUser`), then what the steps do to one part of the state each
(`CountWorkersStep`, `CountIdleStep`, `QueueMoves`, ...), and combines them in
`InvStep`.  Its last section is about the size: `Fed` says that a pool without
workers has an empty queue, and one with `WorkersMax = 0` no entries of users; the
last worker does not leave over a job because `GetSize` is at least 1 then
(`LastIsNeeded`).

### Barriers, threads, jobs

Each of the others is an invariant, inductive relative to `Inv`:

- `Barrier` (`ThreadPoolProofs`): for a worker past the wake-up condition, with
  a synchronisation as the next entry or directly below a `JOB_JOIN`, all other
  members are idle; with nobody past it and a `JOB_JOIN` over a synchronisation, all
  members are.  So the condition that was evaluated for the synchronisation by the
  worker that left carries over to its successor, who evaluates it for `JOB_JOIN`
  only.
- `JoinInv`: a thread lives from `addThread` to the end of
  `Run` (`ThreadLife`); one client at a time is in `Shutdown`; once it has asked the
  workers to leave the pool cannot grow, and when it is empty there is a last thread
  to join (`LastIsKept`); `lastThreadToJoin` is set only in an empty pool
  (`LastIsLast`); a worker has left and is not joined exactly if it is named
  (`LeaversAreNamed`).
- `JobInv` (`ThreadPoolRefinementProofs`): a job is queued exactly if it has a
  place in the queue, and then one (`QueueHolds`); workers and jobs in progress
  correspond one to one (`WorkerHolds`); what clients hold or a queued
  synchronisation will delete is not deleted yet, and the synchronisation is behind
  the job it deletes (`ClientHolds`).  The last gives, together with `Barrier`, that
  a job carried by a synchronisation has been executed when it is passed
  (`PassedIsDone`), as `JobPool` demands of `Pass`.

`WaitForAllIdleIsSound` needs, besides `ShutdownOnlyIdle`, one client and no job that
schedules another (`OnlyClient`); with such jobs it is false, see run `wait_chained`.  Its
invariant `WaitInv` adds to `Inv` and `JobInv` what the client knows between its reads
(`CountersRead`): from `ctdOpenJobs = 0` on the queue stays empty, so no worker is past the
wake-up condition (`NobodyResizes`), none leaves, none is created, and the number of idle
ones only grows; hence two equal counters mean that all are idle.  `DoneIsFreed` says that an
executed job that nobody keeps has a worker about to delete it.

The refinement first reduces the steps of `ThreadPool` to seven kinds of moves of
the queue and the jobs (`JobMoves`), with internal jobs cut off by `UserQueue`; then
each move maps to one action of `JobPool` or to a stutter (`AbstractStep`).

### Dedicated workers

Assumed: finite sets, `StopPriorities` in `Nat`; for the parts about the stop job also
`~LateJobs /\ ~AddAgain` (`InTime`): nobody schedules to a worker that is being stopped,
and none is added a second time, see section 7.

`IInv` is `TypeOK`, `JobsInv`, `ThreadOfWorker`, `CallOfClient` and, in time, `StopIsLast`.
`JobsInv` says that lists are ordered by falling priority, that each job has one owner
and one place, that a deletion is behind the job it deletes, and how the state of a job
follows from its place.  The lemmas `PositionSplits`, `PushEffect` and `PopEffect` say what
an insertion by priority does to a list; they are proved once for all entries.  For the
refinement a queue is cut by priority (`JobsOfPushed`, `JobsOfPopped`): a push
appends to one of the abstract queues at the unique place behind all of at least its
priority (`LastAbove`), a pop takes from the highest non-empty one.

### Trigger and condition

`TriggerInv`: the mutex is the runner's exactly in `loop` and `list`; while it walks, its
alarm is set for every object it has visited; while it sleeps, for all, or the flag says
that it will look again.  `ConditionInv`: positions correspond to the holder of the
mutex and to `Owner`; `CntWaiters` is the number of threads inside a wait, a cardinality.

### Locks, sections, recursive lock, promise, registry

`LockInv`: the holder of the mutex follows from the positions (`MutexInv`); as long as no
assertion was raised, owner and counters of the asserter follow from them too, up to the
threads just between two writes (`OwnerInv`, `ReadersInv`); then no assertion of
rightly used locks can fail (`NoFalseAlarm`).  It is proved for any set of misuses but
`"upgrade"`: that a reader that acquires the lock waits for itself is not detected by the
asserter (section 7).  `Shape` and `Counted` say the same of critical sections: the counter of
writers is the sections entered plus the threads about to write their name.  Inside the
lock every thread is `Silent`; without one, a thread that overlaps is `Stuck` at an
assertion.  `RecursiveInv`: the depth is the counter, but for one between mutex and
asserter.  `RegistryInv`: an ID has one entry, and `LifeOf(t)` ties the state of an
object to its C++ thread, its ID and its entry.  It needs `ReuseIDs = FALSE`: with reuse
`Join` erases the entry of another thread (section 7).

### Shared handles

`HandleInv`: types; a task fits what its thread does; handles point to living contents; the
counter is the number of handles (`CountIsHandles`), by cardinalities of the sets of
handles before and after a step; whoever has decremented a counter to zero is the one
destroyer of these contents (`DestroyersInv`).

### The monotonic allocator

`MonoInv`: either the allocator is destructed, and `freed` names each buffer once, or

- `Sound`: each buffer is filled up to a place between header and end, and its end is a
  multiple of all alignments;
- `ListedOnce`: `chain` and `recyclables` name each buffer in one place, and the first buffer
  is at the end of the chain;
- `Placed`: blocks lie below the filled part of their buffer, aligned and apart;
- `Snapped`: a snapshot names a buffer of the chain, covers only blocks of buffers at or
  below it and below its mark, and an older snapshot lies in the same buffer or one
  below (`Below`).

The last is what makes a reset safe: the blocks that stay lie behind the buffers that
are recycled.  The facts about lists that are needed (`AppendedItems`, `Splitting`,
`Removing`, `TurnedRound`, `BelowBehind`) are lemmas of their own.  The proof rests on
`BuffersEndAligned`: the growth is by whole hundreds of percent and the sizes of buffers that
exceed the next one's are multiples of the alignments.  Without it the statement is
false: `fits` subtracts pointers and compares the difference unsigned, so that a block
whose aligned address lies behind the end seems to have room (section 7).

The statistics are a sum over the buffers of the chain, to be compared with a sum over the
blocks.  Both are folds that `CHOOSE` the next element; what each computes is the number of bytes
of a union of disjoint sets (`CoveredSums`), since only one function follows the rule of the fold
(`SumsAgree`, by a smallest set on which two would differ).  The bytes of the blocks are among
those of the filled buffers, which is `Placed`.

### The pool allocator

`PoolKept`, for any smallest size, any number of sizes and any requests: the stacks name only
blocks that no caller has, in the stack of their true size (`FreeBlocks`), each in one place
(`OnceOnly`), and all of them (`InSomeStack`); a caller's block has the size of the stack that
its request belongs to (`Granted`).  The arithmetic is in `HookSuits` and `OneSuits`: `hookIndex`
names the stack whose blocks are the smallest that are large enough, and there is one such stack.
Hence the size asked for and the one granted lead back to the same stack, whichever is named when
the block is freed.  What is used of powers of two (`PowersDouble`) follows from the number of
subsets of a set, since the backends know nothing of `^`.

### Camps

`CampInv`, for any number of camps: the states of the camps fall along `CAMPS` (`InOrder`);
once one is stopped all are through their bootstrap (`StopTogether`); a camp between
bootstrap and destruction has what it needs (`Equipped`).  `GoingUp` and `GoingDown` say
what a call has done with the camps it has been at; in particular the target has just
finished the phase before the current one, so that no camp skips a phase, and a destruction
reaches no camp that was destructed before.  `ObjectsAreKept` is part of the invariant in a
form that is inductive: an object that was not set for its camp is that of the next
camp, unless this one was destructed.  `HandedDown` shows that a distribution keeps that
and reaches every camp; it rests on the next camp with an object being unique
(`NearestIsOne`).

### The cache and the frames that point into it

`CacheIsKept`, for any keys, hash values and shapes of the table: there is an `order`, a sequence
of entries for each list, which the links lead along from the hook to nullptr (`Linked`), in
which each entry taken from the pool has one place (`HaveOnePlace`), and whose keys are ranked by
the time they were asked for last, all of them or as many as the list has entries (`Ranked`).
`EntriesAreLinked` shows that `Entries`, which follows the links by a recursive function, finds
this sequence.  A call of `Try` puts one element to the front, whichever of its three branches
is taken (`Serves`); `MovingLinks` and `NewLinks` say what the assignments of the code do to the
links, `RankAfter` what the call does to the ranks.  That the pool is never overrun
(`PoolHasRoom`) is a matter of counting: while one list is not full the entries in use, mapped
one to one to pairs of a list and a place, are less than there are.

`FrameFits` ties a frame of `ScopeInfo` to the cache: every key that was asked for after the file
of the frame is in `since`, and the entry still shows the file, or a full list of others is in
`since` (`PushedOut`).

### Only model-checked

- Liveness: fairness and `ENABLED` are outside the prover's reach.
- `TableHoldsWhatWasInserted`, `LogsGoWhereTheyShould`: table and domains are read by folds over
  buckets and trees, `SelectSeq` and `SelectInSeq`, whose order matters.  What these return would
  need an induction of its own for each (as `EntriesAreLinked` for the walk along a list); that
  is not done.
- The properties of `MCTexts`: modules with recursive operators are outside the prover's reach.
- The runs of section 7, which show violations.

## 7. What the models show about the code

Runs that show a disagreement between code and documentation; each is listed with
quotation and lines under "findings" in `PROJECT.json`:

| run | property | what happens |
|---|---|---|
| `shutdown_min` | `ShutdownReturns` | `GetSize` compares with `WorkersMin` before `WorkersMax`: with `WorkersMin` above 0 the workers never leave and `Shutdown` polls for ever, although the documentation says it does not block on an idle pool |
| `shutdown_open` | `ShutdownFinalizesJobs` | the documentation says that `Shutdown` waits for all jobs; without the debug assertion workers leave over the queued jobs |
| `wait_chained` | `WaitForAllIdleIsSound` | a job that schedules a job: `ctdOpenJobs` is read as 0, then the new job is queued, and by the time the other two counters are read all workers are back in `pop`, waiting to look at the queue |
| `thrash` | `EveryJobIsExecuted` | with `DecreaseSchedule` 0 two workers and a synchronisation: grow and shrink for ever |
| `two_pools_join` | `LeaverIsJoinedByItsPool` | two pools shrink at the same time and overwrite `workerToJoin` of the one `JOB_JOIN` |
| `preset` | `PresetsRespectPlugins` | a preset that is imported when a variable is declared replaces the value of a plug-in of higher priority |

While reading the code for the models we met more.  Where a model would have
run into one of these the guard or constant that keeps it away is named; nothing of it
is claimed to hold.

**Threads.**  `DWManager::WaitForAllIdle` reports idle while the last job runs
(`dedicatedworker.cpp:104`); a void job taken by `process` is never freed (266); a
worker that is removed and added again ends at once (246, constant `AddAgain`); `Trigger`:
`Stop` directly after `Start` may hang (`trigger.cpp:98`, constant `StopEarly`), callbacks that
call back block themselves (138), the destructor calls `Start` instead of `Stop` (42);
`Thread`: with reuse of IDs by the system `Join` erases two entries (`thread.cpp:252`, constant
`ReuseIDs`), and a dead foreign thread's object is found for a new thread (341); a reader that
acquires its lock waits for itself unnoticed (`locks.cpp:404`, misuse `"upgrade"`); the
warning about many readers comes one late (`dbgasserters.inl:284`); two waiters of one
`Condition` reset each other's flag.

**Memory and containers.**  `MonoAllocator`: with a growth other than whole hundreds or
alignments larger than the sizes asked for, `end - aligned` underflows
(`monoallocator.inl:86`, `BuffersEndAligned`); a buffer for an oversized request becomes the
current one against the comment at `monoallocator.t.inl:182`.  `PoolAllocator::reallocate`
copies the old size when it shrinks.  Move assignment between two handles of the same contents
sets the other to null without decrementing (`sharedptr.inl:170`, `sharedval.inl:194`,
`sharedmonoval.inl:388`; modelled, `surplus`).  `HashTable`: `erase(start,end)` over several
buckets whose end is the first of its bucket runs past the list (`hashtable.inl:1943`); insertion of
an element handle indexes the buckets by the hash code itself (1327); `Insert(const&,size_t)` calls
itself (908).  `List::Reset` destructs recyclables twice.  `StringTree`: a path with `.` does not
end (`followPathCreate`), the test for `..` is inverted, `TCursor::Root` swaps two arguments.

**Configuration, logging, camps.**  `Declare` on an existing inner node declares nothing;
the substitution of `${A}` for an undeclared inner node deletes all below it; `DeletePath` reports
no deletions.  `Lox::RemoveLogger(name)` of an unknown name reads `Data[-1]`; `ScopeInfo` frames
point to entries of a cache that nested statements may evict (`scopeinfo.cpp:147`; the property
says up to when this is harmless).  Camps: bootstrapping stopped camps again calls them with phases
-1 and 0.

**Expressions.**  `1+(2)*3` is 9 (`parser_impl.cpp:355`); a constant condition with composite
branches asserts; `q ? 2.5 : i` looks at the wrong plug-in result; `0-i` is `i`; a conditional
whose branch is cast has wrong jump distances.  These four families are left out of the inputs
of run `data`; the rest of the expressions of that size keep their meaning.

**Strings, bits, files, command lines.**  `a = a` empties an `AString`; a moved-from string keeps
its pointer; `WildcardMatcher` does not go back; `Token::Match` accepts some foreign words.  A
`Read` of more than 32 bits shifts by the wrong count (`bitbuffer.inl:1106`), `Compress` with several
algorithms loses unflushed bits unless debugged.  `FixSums` loses sizes and counts followed links
twice (`ftree.cpp:261`); the quality `ScanFiles` returns is that of the wrong path
(`fscanner.cpp:1503`).  `Option::Read` counts the arguments before the option as its own
(`arguments.cpp:64`), so that an option whose value is missing reads out of range.

## 8. What is not modelled

Of the thread pool:

- A kept job is deleted by the client after `Do` has returned, while in the code the client
  may delete it as soon as the promise in the job is fulfilled, which is still within `Do`.
  `Promise` is a module of its own, where destruction follows the result at once.
- One evaluation of `GetSize` that sees two values of `WorkersMax`, and writes of
  the other fields of `Strategy` while the pool runs.
- How memory is given back: `addThread` uses the `delete` operator for
  `lastThreadToJoin` (line 202) and all other places `DisposeWorker`; in the model
  both dispose of the thread object.
- Early return of `Shutdown` when there are no workers: it changes nothing, hence
  it is no step.  It leaves a `lastThreadToJoin` behind that only the next use of
  the pool joins.
- The destructor, which is `Shutdown` with assertions; the virtual hooks
  `CreateWorker`, `DisposeWorker` and `PrepareJob` are their default implementations;
  the list of known job types of debug builds.
- A job without an implementation of `Do` (an error message, otherwise as executed).

Of the library: the components that `PROJECT.json` lists as `not_modelled`, for the reason given
there.  Of those listed as `partly`:

- Locks: wait times, release builds (which forward to the C++ mutex), owner classes.
- Allocators (monomem): debug statistics and annotations, the heap below; `LocalAllocator` is `MonoAllocator` with a first buffer of the user.
- Containers: `List`, the fixed-capacity vector, shared recyclers.
- bitbuffer: growth of the storage, byte order.
- variables: what values say and their types, several listeners, writing of INI files, declarations from resources.
- ALox logging: domain substitution, prefixes, log data, `Once()`, formatting and output of loggers.
- expressions: the lexer, the formatter, the plug-ins for strings and dates, scopes and their allocators.
- bootstrap and camps: what each camp does in its phases, the version check.
- strings and characters: character conversions, numbers, `CString` and `Substring`, dates and calendars.
- files: the implementation over `std::filesystem`, programs that read a tree during a scan, owners, dates and permissions, formats and filter expressions.
- cli: help texts and exit codes, letter cases.

## 9. Plan

Done: all components of section 2 modelled and checked; the thread model, locks, threads,
shared handles, both allocators, the camps and the cache proved.  Left, in this order:

1. `StoredOnce` of `ScopeStore` and the parts of `TableHoldsWhatWasInserted` that do without
   the contents of a fold (`NodesHaveOnePlace`), in `DataProofs`.
2. `Promise` inside the jobs of a pool of one worker; domain substitution in `Lox`; `List`
   with a shared recycler.
